---------------------------- MODULE ServicesProofs ----------------------------
(***************************************************************************)
(* Theorems about the services around the Agent Runs: the WebSocket hub,   *)
(* the project's files, the MCP server, the built-in agent, the cloud      *)
(* connections and the provider profiles.                                  *)
(***************************************************************************)
EXTENDS Hub, ProjectSync, McpServer, ProviderProfiles, AgentLoop, CloudConnections, FiniteSetTheorems, SequenceTheorems, TLAPS

(***************************************************************************)
(* The hub.                                                                *)
(***************************************************************************)

LEMMA OneMore ==
  ASSUME NEW list \in Seq(Nat), NEW n \in Nat
  PROVE  /\ Append(list, n) \in Seq(Nat) /\ Len(Append(list, n)) = Len(list) + 1
         /\ Append(list, n)[Len(list) + 1] = n
         /\ \A i \in 1 .. Len(list) : Append(list, n)[i] = list[i]
OBVIOUS

LEMMA OneLess ==
  ASSUME NEW list \in Seq(Nat), list # <<>>
  PROVE  /\ Tail(list) \in Seq(Nat) /\ Len(Tail(list)) = Len(list) - 1 /\ Len(list) \in Nat \ {0}
         /\ Head(list) = list[1] /\ Head(list) \in Nat
         /\ \A i \in 1 .. Len(list) - 1 : Tail(list)[i] = list[i + 1]
OBVIOUS

(* The messages of a list follow number n without a gap. *)
Follows(n, list) == \A i \in 1 .. Len(list) : list[i] = n + i

(* Its channel is closed once a client has left the set; what it got and   *)
(* what waits for it follow each other, up to the last message handed out  *)
(* while it is in the set.                                                 *)
Served(c) ==
  /\ closed[c] = (IF c \notin members /\ writer[c] # "none" THEN 1 ELSE 0)
  /\ c \in members => writer[c] # "none"
  /\ reader[c] \in {"none", "register"} => writer[c] = "none"
  /\ writer[c] = "none" => buffer[c] = <<>> /\ got[c] = <<>>
  /\ Follows(since[c], got[c])
  /\ writer[c] = "writing" => Follows(since[c] + Len(got[c]), buffer[c])
  /\ c \in members /\ writer[c] = "writing" => since[c] + Len(got[c]) + Len(buffer[c]) = sent

HubInv ==
  /\ HubTypeOK
  /\ \A c \in Sockets : Served(c)
  /\ ~loop => members = {}

LEMMA HubInvInit == HubInit => HubInv
<1> SUFFICES ASSUME HubInit PROVE HubInv
  OBVIOUS
<1>1. HubTypeOK
  <2>1. <<>> \in Seq(Nat) /\ Len(<<>>) = 0 /\ 0 <= BufferSize /\ 0 \in 0 .. QueueSize /\ 0 \in 0 .. MaxInputs
    BY HubAssumption
  <2>2. buffer \in [Sockets -> Seq(Nat)] /\ got \in [Sockets -> Seq(Nat)]
    BY <2>1 DEF HubInit
  <2>3. \A c \in Sockets : Len(buffer[c]) <= BufferSize
    BY <2>1 DEF HubInit
  <2> QED BY <2>1, <2>2, <2>3 DEF HubInit, HubTypeOK
<1>2. ASSUME NEW c \in Sockets PROVE Served(c)
  BY DEF HubInit, Served, Follows
<1>3. loop
  BY DEF HubInit
<1> QED BY <1>1, <1>2, <1>3 DEF HubInv

(* What a goroutine does to neither the set nor a channel. *)
LEMMA Aside ==
  ASSUME HubInv, HubTypeOK', UNCHANGED <<loop, members, closed, writer, buffer, got, since, sent>>,
         \A c \in Sockets : reader'[c] \in {"none", "register"} => reader[c] \in {"none", "register"}
  PROVE  HubInv'
<1>1. ASSUME NEW c \in Sockets PROVE Served(c)'
  BY DEF HubInv, Served, Follows
<1> QED BY <1>1 DEF HubInv

(* A step of other clients. *)
LEMMA Undisturbed ==
  ASSUME HubInv, NEW c \in Sockets, c \in members' <=> c \in members,
         closed'[c] = closed[c], writer'[c] = writer[c], buffer'[c] = buffer[c],
         got'[c] = got[c], since'[c] = since[c], sent' = sent,
         reader'[c] \in {"none", "register"} => reader[c] \in {"none", "register"}
  PROVE  Served(c)'
BY DEF HubInv, Served, Follows

LEMMA LeaveTyped ==
  ASSUME HubTypeOK, NEW leaving \in SUBSET members, Leave(leaving)
  PROVE  /\ members' \subseteq members /\ members' \subseteq Sockets
         /\ closed' \in [Sockets -> Nat]
         /\ \A c \in Sockets : /\ c \in leaving => closed'[c] = closed[c] + 1 /\ c \notin members'
                               /\ c \notin leaving => closed'[c] = closed[c] /\ (c \in members' <=> c \in members)
BY DEF HubTypeOK, Leave

(* A client that leaves the set has its channel closed for the first time. *)
LEMMA Left ==
  ASSUME HubInv, NEW c \in Sockets, c \in members, c \notin members',
         closed'[c] = closed[c] + 1, writer'[c] = writer[c], buffer'[c] = buffer[c],
         got'[c] = got[c], since'[c] = since[c],
         reader'[c] \in {"none", "register"} => reader[c] \in {"none", "register"}
  PROVE  Served(c)'
BY DEF HubInv, Served, Follows

LEMMA ShutdownKept == HubInv /\ Shutdown => HubInv'
<1> SUFFICES ASSUME HubInv, Shutdown PROVE HubInv'
  OBVIOUS
<1>1. HubTypeOK
  BY DEF HubInv
<1>2. Leave(members) /\ UNCHANGED <<done, queue, sent, buffer, conn, reader, writer, poster, inputs, since, got>>
      /\ loop' = FALSE
  BY DEF Shutdown
<1>3. /\ members' \subseteq Sockets /\ closed' \in [Sockets -> Nat]
      /\ \A c \in Sockets : /\ c \in members => closed'[c] = closed[c] + 1 /\ c \notin members'
                            /\ c \notin members => closed'[c] = closed[c] /\ (c \in members' <=> c \in members)
  BY <1>1, <1>2, LeaveTyped
<1>4. HubTypeOK'
  BY <1>1, <1>2, <1>3 DEF HubTypeOK
<1>5. ASSUME NEW c \in Sockets PROVE Served(c)'
  <2>1. CASE c \in members
    BY <1>2, <1>3, <2>1, Left
  <2>2. CASE c \notin members
    BY <1>2, <1>3, <2>2, Undisturbed
  <2> QED BY <2>1, <2>2
<1>6. members' = {}
  BY <1>2 DEF Leave
<1> QED BY <1>4, <1>5, <1>6 DEF HubInv

LEMMA RegisterKept == ASSUME NEW c \in Sockets PROVE HubInv /\ RegisterClient(c) => HubInv'
<1> SUFFICES ASSUME HubInv, RegisterClient(c) PROVE HubInv'
  OBVIOUS
<1>1. HubTypeOK
  BY DEF HubInv
<1>2. /\ loop /\ reader[c] = "register" /\ members' = members \union {c}
      /\ since' = [since EXCEPT ![c] = sent]
      /\ reader' = [reader EXCEPT ![c] = "reading"] /\ writer' = [writer EXCEPT ![c] = "writing"]
      /\ UNCHANGED <<loop, done, queue, sent, buffer, closed, conn, poster, inputs, got>>
  BY DEF RegisterClient
<1>3. HubTypeOK'
  BY <1>1, <1>2 DEF HubTypeOK
<1>4. Served(c)'
  <2>1. writer[c] = "none" /\ buffer[c] = <<>> /\ got[c] = <<>> /\ c \notin members /\ closed[c] = 0
    BY <1>2 DEF HubInv, Served
  <2>2. /\ since'[c] = sent /\ writer'[c] = "writing" /\ reader'[c] = "reading" /\ c \in members'
        /\ buffer'[c] = <<>> /\ got'[c] = <<>> /\ closed'[c] = 0 /\ sent' = sent /\ sent \in Nat
    BY <1>1, <1>2, <2>1 DEF HubTypeOK
  <2> QED BY <2>2 DEF Served, Follows
<1>5. ASSUME NEW d \in Sockets, d # c PROVE Served(d)'
  <2>1. since'[d] = since[d] /\ writer'[d] = writer[d] /\ reader'[d] = reader[d] /\ (d \in members' <=> d \in members)
    BY <1>1, <1>2, <1>5 DEF HubTypeOK
  <2> QED BY <1>2, <2>1, Undisturbed
<1> QED BY <1>2, <1>3, <1>4, <1>5 DEF HubInv

LEMMA UnregisterKept == ASSUME NEW c \in Sockets PROVE HubInv /\ UnregisterClient(c) => HubInv'
<1> SUFFICES ASSUME HubInv, UnregisterClient(c) PROVE HubInv'
  OBVIOUS
<1>1. HubTypeOK
  BY DEF HubInv
<1>2. /\ loop /\ Leave(members \intersect {c})
      /\ reader' = [reader EXCEPT ![c] = "gone"] /\ conn' = [conn EXCEPT ![c] = FALSE]
      /\ UNCHANGED <<loop, done, queue, sent, buffer, writer, poster, inputs, since, got>>
  BY DEF UnregisterClient
<1>3. /\ members' \subseteq Sockets /\ closed' \in [Sockets -> Nat]
      /\ \A d \in Sockets :
           /\ d \in members \intersect {c} => closed'[d] = closed[d] + 1 /\ d \notin members'
           /\ d \notin members \intersect {c} => closed'[d] = closed[d] /\ (d \in members' <=> d \in members)
  BY <1>1, <1>2, LeaveTyped
<1>4. HubTypeOK'
  BY <1>1, <1>2, <1>3 DEF HubTypeOK
<1>5. \A d \in Sockets : reader'[d] \in {"none", "register"} => reader[d] \in {"none", "register"}
  BY <1>1, <1>2 DEF HubTypeOK
<1>6. ASSUME NEW d \in Sockets PROVE Served(d)'
  <2>1. CASE d \in members \intersect {c}
    BY <1>2, <1>3, <1>5, <2>1, Left
  <2>2. CASE d \notin members \intersect {c}
    BY <1>2, <1>3, <1>5, <2>2, Undisturbed
  <2> QED BY <2>1, <2>2
<1> QED BY <1>2, <1>4, <1>6 DEF HubInv

(* A message reaches each buffer that has room for it; a client without    *)
(* room leaves.                                                            *)
LEMMA HandOutKept == HubInv /\ HandOut => HubInv'
<1> SUFFICES ASSUME HubInv, HandOut PROVE HubInv'
  OBVIOUS
<1> DEFINE slow == {c \in members : Len(buffer[c]) = BufferSize}
<1>1. HubTypeOK
  BY DEF HubInv
<1>2. /\ loop /\ queue > 0 /\ queue' = queue - 1 /\ sent' = sent + 1
      /\ buffer' = [c \in Sockets |-> IF c \in members \ slow THEN Append(buffer[c], sent + 1) ELSE buffer[c]]
      /\ Leave(slow)
      /\ UNCHANGED <<loop, done, conn, reader, writer, poster, inputs, since, got>>
  BY DEF HandOut
<1>3. slow \subseteq members /\ \A c \in Sockets : c \in members \ slow => Len(buffer[c]) # BufferSize
  OBVIOUS
<1> HIDE DEF slow
<1>4. /\ members' \subseteq members /\ members' \subseteq Sockets /\ closed' \in [Sockets -> Nat]
      /\ \A c \in Sockets :
           /\ c \in slow => closed'[c] = closed[c] + 1 /\ c \notin members'
           /\ c \notin slow => closed'[c] = closed[c] /\ (c \in members' <=> c \in members)
  BY <1>1, <1>2, <1>3, LeaveTyped
<1>5. /\ sent + 1 \in Nat /\ sent \in Nat /\ queue - 1 \in 0 .. QueueSize
      /\ \A c \in Sockets : buffer[c] \in Seq(Nat) /\ Len(buffer[c]) \in Nat /\ Len(buffer[c]) <= BufferSize
      /\ BufferSize \in Nat
  BY <1>1, <1>2, HubAssumption DEF HubTypeOK
<1>6. \A c \in Sockets : buffer'[c] \in Seq(Nat) /\ Len(buffer'[c]) <= BufferSize
  BY <1>2, <1>3, <1>5, OneMore
<1>7. buffer' \in [Sockets -> Seq(Nat)]
  <2>1. \A c \in Sockets : (IF c \in members \ slow THEN Append(buffer[c], sent + 1) ELSE buffer[c]) \in Seq(Nat)
    BY <1>5, OneMore
  <2> QED BY <1>2, <2>1
<1>8. HubTypeOK'
  BY <1>1, <1>2, <1>4, <1>5, <1>6, <1>7 DEF HubTypeOK
<1>9. ASSUME NEW c \in Sockets PROVE Served(c)'
  <2>1. CASE c \in slow
    <3>1. c \in members /\ buffer'[c] = buffer[c]
      BY <1>2, <1>3, <2>1
    <3> QED BY <1>2, <1>4, <2>1, <3>1, Left
  <2>2. CASE c \notin members
    <3>1. buffer'[c] = buffer[c] /\ c \notin members' /\ closed'[c] = closed[c]
      BY <1>2, <1>3, <1>4, <2>2
    <3> QED BY <1>2, <2>2, <3>1 DEF HubInv, Served, Follows
  <2>3. CASE c \in members \ slow
    <3>1. c \in members' /\ closed'[c] = closed[c] /\ buffer'[c] = Append(buffer[c], sent + 1)
      BY <1>2, <1>3, <1>4, <2>3
    <3>2. /\ closed[c] = 0 /\ writer[c] # "none" /\ reader[c] \notin {"none", "register"}
          /\ Follows(since[c], got[c])
          /\ writer[c] = "writing" => /\ Follows(since[c] + Len(got[c]), buffer[c])
                                      /\ since[c] + Len(got[c]) + Len(buffer[c]) = sent
      BY <2>3 DEF HubInv, Served
    <3>3. PICK n \in Nat : n = Len(buffer[c])
      BY <1>5
    <3>4. Len(buffer'[c]) = n + 1 /\ buffer'[c][n + 1] = sent + 1 /\ \A i \in 1 .. n : buffer'[c][i] = buffer[c][i]
      BY <1>5, <3>1, <3>3, OneMore
    <3>5. PICK m : m = since[c] + Len(got[c])
      OBVIOUS
    <3>6. m \in Nat
      BY <1>1, <3>5 DEF HubTypeOK
    <3>7. ASSUME writer[c] = "writing" PROVE Follows(m, buffer'[c]) /\ m + Len(buffer'[c]) = sent + 1
      <4>1. m + n = sent /\ \A i \in 1 .. n : buffer[c][i] = m + i
        BY <3>2, <3>3, <3>5, <3>7 DEF Follows
      <4>2. \A i \in 1 .. n + 1 : i \in 1 .. n \/ i = n + 1
        BY <3>3
      <4>3. \A i \in 1 .. n + 1 : buffer'[c][i] = m + i
        BY <1>5, <3>4, <3>6, <4>1, <4>2
      <4> QED BY <1>5, <3>4, <3>6, <4>1, <4>3 DEF Follows
    <3> QED BY <1>2, <3>1, <3>2, <3>5, <3>7 DEF Served, Follows
  <2> QED BY <2>1, <2>2, <2>3
<1> QED BY <1>2, <1>8, <1>9 DEF HubInv

LEMMA DeliverKept == ASSUME NEW c \in Sockets PROVE HubInv /\ Deliver(c) => HubInv'
<1> SUFFICES ASSUME HubInv, Deliver(c) PROVE HubInv'
  OBVIOUS
<1>1. HubTypeOK
  BY DEF HubInv
<1>2. /\ writer[c] = "writing" /\ buffer[c] # <<>> /\ buffer' = [buffer EXCEPT ![c] = Tail(buffer[c])]
      /\ IF conn[c] THEN got' = [got EXCEPT ![c] = Append(got[c], Head(buffer[c]))] /\ UNCHANGED <<writer, conn>>
         ELSE writer' = [writer EXCEPT ![c] = "gone"] /\ UNCHANGED <<got, conn>>
      /\ UNCHANGED <<loop, done, members, queue, sent, closed, reader, poster, inputs, since>>
  BY DEF Deliver
<1>3. buffer[c] \in Seq(Nat) /\ got[c] \in Seq(Nat) /\ since[c] \in Nat /\ BufferSize \in Nat /\ Len(buffer[c]) <= BufferSize
  BY <1>1, HubAssumption DEF HubTypeOK
<1>4. PICK n \in Nat \ {0}, m \in Nat : n = Len(buffer[c]) /\ m = Len(got[c])
  BY <1>2, <1>3, OneLess
<1>5. /\ Tail(buffer[c]) \in Seq(Nat) /\ Len(Tail(buffer[c])) = n - 1
      /\ \A i \in 1 .. n - 1 : Tail(buffer[c])[i] = buffer[c][i + 1]
      /\ Head(buffer[c]) = buffer[c][1] /\ Head(buffer[c]) \in Nat
  BY <1>2, <1>3, <1>4, OneLess
<1>6. /\ Append(got[c], Head(buffer[c])) \in Seq(Nat) /\ Len(Append(got[c], Head(buffer[c]))) = m + 1
      /\ Append(got[c], Head(buffer[c]))[m + 1] = buffer[c][1]
      /\ \A i \in 1 .. m : Append(got[c], Head(buffer[c]))[i] = got[c][i]
  BY <1>3, <1>4, <1>5, OneMore
<1>7. HubTypeOK'
  <2>1. /\ buffer' \in [Sockets -> Seq(Nat)] /\ \A d \in Sockets : Len(buffer'[d]) <= BufferSize
    BY <1>1, <1>2, <1>3, <1>4, <1>5 DEF HubTypeOK
  <2>2. got' \in [Sockets -> Seq(Nat)] /\ writer' \in [Sockets -> {"none", "writing", "gone"}] /\ conn' \in [Sockets -> BOOLEAN]
    BY <1>1, <1>2, <1>6 DEF HubTypeOK
  <2> QED BY <1>1, <1>2, <2>1, <2>2 DEF HubTypeOK
<1>8. Served(c)'
  <2>1. /\ closed[c] = (IF c \notin members THEN 1 ELSE 0) /\ reader[c] \notin {"none", "register"}
        /\ \A i \in 1 .. m : got[c][i] = since[c] + i
        /\ \A i \in 1 .. n : buffer[c][i] = since[c] + m + i
        /\ c \in members => since[c] + m + n = sent
    BY <1>2, <1>4 DEF HubInv, Served, Follows
  <2>2. CASE ~conn[c]
    <3>1. got'[c] = got[c] /\ writer'[c] = "gone"
      BY <1>1, <1>2, <2>2 DEF HubTypeOK
    <3> QED BY <1>2, <1>4, <2>1, <3>1 DEF Served, Follows
  <2>3. CASE conn[c]
    <3>1. /\ got'[c] = Append(got[c], Head(buffer[c])) /\ writer'[c] = "writing"
          /\ buffer'[c] = Tail(buffer[c])
      BY <1>1, <1>2, <2>3 DEF HubTypeOK
    <3>2. PICK s \in Nat : s = since[c] /\ since'[c] = s
      BY <1>2, <1>3
    <3>3. \A i \in 1 .. m + 1 : got'[c][i] = s + i
      <4>1. \A i \in 1 .. m + 1 : i \in 1 .. m \/ i = m + 1
        BY <1>4
      <4>2. 1 \in 1 .. n
        BY <1>4
      <4>3. buffer[c][1] = s + (m + 1)
        BY <1>4, <2>1, <3>2, <4>2
      <4> QED BY <1>6, <2>1, <3>1, <3>2, <4>1, <4>3
    <3>4. \A i \in 1 .. n - 1 : buffer'[c][i] = s + (m + 1) + i
      <4>1. n \in Nat /\ n >= 1 /\ m \in Nat /\ s \in Nat
        BY <1>4, <3>2
      <4>2. \A i \in 1 .. n - 1 : i + 1 \in 1 .. n /\ s + m + (i + 1) = s + (m + 1) + i
        BY <4>1
      <4>3. \A i \in 1 .. n - 1 : buffer'[c][i] = buffer[c][i + 1]
        BY <1>5, <3>1
      <4>4. \A i \in 1 .. n - 1 : buffer[c][i + 1] = s + m + (i + 1)
        BY <2>1, <3>2, <4>2
      <4> QED BY <4>2, <4>3, <4>4
    <3>5. Len(got'[c]) = m + 1 /\ Len(buffer'[c]) = n - 1 /\ s + (m + 1) + (n - 1) = s + m + n
      <4>1. n \in Nat /\ n >= 1 /\ m \in Nat /\ s \in Nat
        BY <1>4, <3>2
      <4>2. s + (m + 1) + (n - 1) = s + m + n
        BY <4>1
      <4>3. Len(got'[c]) = m + 1 /\ Len(buffer'[c]) = n - 1
        BY <1>5, <1>6, <3>1
      <4> QED BY <4>2, <4>3
    <3> QED BY <1>2, <2>1, <3>1, <3>2, <3>3, <3>4, <3>5 DEF Served, Follows
  <2> QED BY <2>2, <2>3
<1>9. ASSUME NEW d \in Sockets, d # c PROVE Served(d)'
  <2>1. buffer'[d] = buffer[d] /\ got'[d] = got[d] /\ writer'[d] = writer[d]
    BY <1>1, <1>2, <1>9 DEF HubTypeOK
  <2> QED BY <1>2, <2>1, Undisturbed
<1> QED BY <1>2, <1>7, <1>8, <1>9 DEF HubInv

LEMMA WriterEndsKept == ASSUME NEW c \in Sockets PROVE HubInv /\ WriterEnds(c) => HubInv'
<1> SUFFICES ASSUME HubInv, WriterEnds(c) PROVE HubInv'
  OBVIOUS
<1>1. HubTypeOK
  BY DEF HubInv
<1>2. /\ writer[c] = "writing" /\ buffer[c] = <<>> /\ closed[c] > 0
      /\ writer' = [writer EXCEPT ![c] = "gone"] /\ conn' = [conn EXCEPT ![c] = FALSE]
      /\ UNCHANGED <<loop, done, members, queue, sent, buffer, closed, reader, poster, inputs, since, got>>
  BY DEF WriterEnds
<1>3. HubTypeOK'
  BY <1>1, <1>2 DEF HubTypeOK
<1>4. Served(c)'
  <2>1. writer'[c] = "gone"
    BY <1>1, <1>2 DEF HubTypeOK
  <2> QED BY <1>2, <2>1 DEF HubInv, Served, Follows
<1>5. ASSUME NEW d \in Sockets, d # c PROVE Served(d)'
  <2>1. writer'[d] = writer[d]
    BY <1>1, <1>2, <1>5 DEF HubTypeOK
  <2> QED BY <1>2, <2>1, Undisturbed
<1> QED BY <1>2, <1>3, <1>4, <1>5 DEF HubInv

(* Every other step moves readers on, or is about senders and connections. *)
LEMMA AsideKept ==
  ASSUME HubInv, \/ CloseHub
                 \/ \E b \in Posters : Post(b) \/ Broadcast(b)
                 \/ \E c \in Sockets : Connect(c) \/ Receive(c) \/ ConnectLate(c) \/ Forward(c)
                                       \/ ReadFails(c) \/ LeaveLate(c) \/ Drop(c)
  PROVE  HubInv'
<1>1. HubTypeOK
  BY DEF HubInv
<1>2. CASE CloseHub
  <2>1. HubTypeOK'
    BY <1>1, <1>2 DEF CloseHub, HubTypeOK
  <2> QED BY <1>2, <2>1, Aside DEF CloseHub
<1>3. ASSUME NEW b \in Posters, Post(b) \/ Broadcast(b) PROVE HubInv'
  <2>1. poster' \in [Posters -> {"idle", "sending", "sent"}] /\ queue' \in 0 .. QueueSize
    <3>1. poster' \in [Posters -> {"idle", "sending", "sent"}]
      BY <1>1, <1>3 DEF Post, Broadcast, HubTypeOK
    <3>2. queue \in 0 .. QueueSize /\ QueueSize \in Nat
      BY <1>1, HubAssumption DEF HubTypeOK
    <3>3. queue' = queue \/ (queue < QueueSize /\ queue' = queue + 1)
      BY <1>3 DEF Post, Broadcast
    <3> QED BY <3>1, <3>2, <3>3
  <2>2. UNCHANGED <<loop, done, members, sent, buffer, closed, conn, reader, writer, inputs, since, got>>
    BY <1>3 DEF Post, Broadcast
  <2>3. HubTypeOK'
    BY <1>1, <2>1, <2>2 DEF HubTypeOK
  <2> QED BY <2>2, <2>3, Aside
<1>4. ASSUME NEW c \in Sockets, Connect(c) PROVE HubInv'
  <2>1. HubTypeOK'
    BY <1>1, <1>4 DEF Connect, HubTypeOK
  <2>2. \A d \in Sockets : reader'[d] \in {"none", "register"} => reader[d] \in {"none", "register"}
    BY <1>1, <1>4 DEF Connect, HubTypeOK
  <2> QED BY <1>4, <2>1, <2>2, Aside DEF Connect
<1>5. ASSUME NEW c \in Sockets, Receive(c) PROVE HubInv'
  <2>1. HubTypeOK'
    BY <1>1, <1>5, HubAssumption DEF Receive, HubTypeOK
  <2>2. \A d \in Sockets : reader'[d] \in {"none", "register"} => reader[d] \in {"none", "register"}
    BY <1>1, <1>5 DEF Receive, HubTypeOK
  <2> QED BY <1>5, <2>1, <2>2, Aside DEF Receive
<1>6. ASSUME NEW c \in Sockets, ConnectLate(c) \/ Forward(c) \/ ReadFails(c) \/ LeaveLate(c) PROVE HubInv'
  <2>1. HubTypeOK'
    <3>1. /\ reader' \in [Sockets -> {"none", "register", "reading", "forward", "unregister", "gone"}]
          /\ conn' \in [Sockets -> BOOLEAN]
      BY <1>1, <1>6 DEF ConnectLate, Forward, ReadFails, LeaveLate, HubTypeOK
    <3>2. queue' \in 0 .. QueueSize
      <4>1. queue \in 0 .. QueueSize /\ QueueSize \in Nat
        BY <1>1, HubAssumption DEF HubTypeOK
      <4>2. queue' = queue \/ (queue < QueueSize /\ queue' = queue + 1)
        BY <1>6 DEF ConnectLate, Forward, ReadFails, LeaveLate
      <4> QED BY <4>1, <4>2
    <3>3. UNCHANGED <<loop, done, members, sent, buffer, closed, writer, poster, inputs, since, got>>
      BY <1>6 DEF ConnectLate, Forward, ReadFails, LeaveLate
    <3> QED BY <1>1, <3>1, <3>2, <3>3 DEF HubTypeOK
  <2>2. \A d \in Sockets : reader'[d] \in {"none", "register"} => reader[d] \in {"none", "register"}
    BY <1>1, <1>6 DEF ConnectLate, Forward, ReadFails, LeaveLate, HubTypeOK
  <2> QED BY <1>6, <2>1, <2>2, Aside DEF ConnectLate, Forward, ReadFails, LeaveLate
<1>7. ASSUME NEW c \in Sockets, Drop(c) PROVE HubInv'
  <2>1. HubTypeOK'
    BY <1>1, <1>7 DEF Drop, HubTypeOK
  <2> QED BY <1>7, <2>1, Aside DEF Drop
<1> QED BY <1>2, <1>3, <1>4, <1>5, <1>6, <1>7

LEMMA HubInvNext == HubInv /\ [HubNext]_hubVars => HubInv'
<1> SUFFICES ASSUME HubInv, [HubNext]_hubVars PROVE HubInv'
  OBVIOUS
<1>1. CASE UNCHANGED hubVars
  <2>1. HubTypeOK'
    BY <1>1 DEF HubInv, HubTypeOK, hubVars
  <2> QED BY <1>1, <2>1, Aside DEF hubVars
<1>2. CASE Run
  BY <1>2, ShutdownKept, HandOutKept, RegisterKept, UnregisterKept DEF Run
<1>3. CASE CloseHub \/ \E b \in Posters : Post(b) \/ Broadcast(b)
  BY <1>3, AsideKept
<1>4. ASSUME NEW c \in Sockets, Connect(c) \/ Receive(c) \/ Pump(c) \/ Deliver(c) \/ Drop(c) PROVE HubInv'
  BY <1>4, AsideKept, WriterEndsKept, DeliverKept DEF Pump
<1> QED BY <1>1, <1>2, <1>3, <1>4 DEF HubNext

(* A client gets every message since it was registered, in order and       *)
(* without a gap, until it is dropped; its channel is closed once, when it *)
(* leaves the set.                                                         *)
THEOREM MessagesDelivered == HubInit /\ [][HubNext]_hubVars => []HubDelivers
<1>1. HubInv => HubDelivers
  <2> SUFFICES ASSUME HubInv PROVE HubDelivers
    OBVIOUS
  <2>1. ASSUME NEW c \in Sockets
        PROVE /\ \A i \in DOMAIN got[c] : got[c][i] = since[c] + i
              /\ c \in members /\ writer[c] = "writing" => since[c] + Len(got[c] \o buffer[c]) = sent
    <3>1. /\ got[c] \in Seq(Nat) /\ buffer[c] \in Seq(Nat) /\ since[c] \in Nat
      BY DEF HubInv, HubTypeOK
    <3>2. DOMAIN got[c] = 1 .. Len(got[c]) /\ Len(got[c] \o buffer[c]) = Len(got[c]) + Len(buffer[c])
          /\ Len(got[c]) \in Nat /\ Len(buffer[c]) \in Nat
      BY <3>1
    <3>3. Served(c)
      BY DEF HubInv
    <3>4. /\ \A i \in 1 .. Len(got[c]) : got[c][i] = since[c] + i
          /\ c \in members /\ writer[c] = "writing" => since[c] + Len(got[c]) + Len(buffer[c]) = sent
      BY <3>3 DEF Served, Follows
    <3>5. since[c] + Len(got[c] \o buffer[c]) = since[c] + Len(got[c]) + Len(buffer[c])
      <4>1. PICK l : l = Len(got[c] \o buffer[c])
        OBVIOUS
      <4>2. PICK m \in Nat, n \in Nat : m = Len(got[c]) /\ n = Len(buffer[c])
        BY <3>2
      <4>3. l = m + n
        BY <3>2, <4>1, <4>2, Zenon
      <4>4. PICK s \in Nat : s = since[c]
        BY <3>1
      <4>5. s + l = s + m + n
        <5>1. m \in Nat /\ n \in Nat /\ s \in Nat
          BY <4>2, <4>4
        <5> QED BY <4>3, <5>1
      <4> QED BY <4>1, <4>2, <4>4, <4>5, Zenon
    <3> QED BY <3>2, <3>4, <3>5
  <2> QED BY <2>1 DEF HubInv, HubDelivers, Served
<1> QED BY <1>1, HubInvInit, HubInvNext, PTL

(***************************************************************************)
(* The project's files.                                                    *)
(***************************************************************************)

SyncState == [pc : {"idle", "read", "write", "code", "done"}, target : [Resources -> Files],
              todo : SUBSET Files, kept : [Files -> SUBSET Blocks]]

(* What a sync will write holds the blocks of the file as it is, unless it *)
(* did not parse or was changed since the sync read it; and a sync writes  *)
(* only where its resources belong.                                        *)
KeepsBlocks(s) == sync[s].pc = "write" =>
  \A f \in Files : f \notin overtaken[s] /\ file[f].parses => file[f].blocks \subseteq sync[s].kept[f]

WritesTargets(s) == sync[s].pc \in {"read", "write"} =>
  sync[s].todo \subseteq Targets(sync[s].target, Resources)

SyncInv ==
  /\ SyncTypeOK
  /\ \A s \in Syncs : KeepsBlocks(s) /\ WritesTargets(s)

LEMMA RestingTyped ==
  ASSUME NEW pc \in {"idle", "done"}
  PROVE  Resting(pc) \in SyncState /\ Resting(pc).pc = pc /\ Resting(pc).todo = {}
BY SyncAssumption DEF Resting, SyncState

LEMMA SyncInvInit == SyncInit => SyncInv
<1> SUFFICES ASSUME SyncInit PROVE SyncInv
  OBVIOUS
<1>1. file \in [Files -> Content]
  <2> DEFINE Contents == {[resources |-> {}, blocks |-> b, parses |-> TRUE] : b \in {{}, Blocks}}
  <2>1. Contents \subseteq Content
    <3>1. \A b \in {{}, Blocks} : [resources |-> {}, blocks |-> b, parses |-> TRUE] \in Content
      BY DEF Content
    <3> QED BY <3>1
  <2>2. file \in [Files -> Contents]
    BY DEF SyncInit
  <2> HIDE DEF Contents
  <2> QED BY <2>1, <2>2
<1>2. sync \in [Syncs -> SyncState] /\ \A s \in Syncs : sync[s].pc = "idle"
  <2>1. sync = [s \in Syncs |-> Resting("idle")]
    BY DEF SyncInit
  <2> QED BY <2>1, RestingTyped
<1>3. SyncTypeOK
  <2>1. 0 \in 0 .. MaxFileEdits
    BY SyncAssumption
  <2>2. /\ paused = FALSE /\ events = {} /\ timers = {} /\ edited = {} /\ edits = 0
        /\ overtaken \in [Syncs -> SUBSET Files]
    BY DEF SyncInit
  <2> QED BY <1>1, <1>2, <2>1, <2>2 DEF SyncTypeOK, SyncState
<1> QED BY <1>2, <1>3 DEF SyncInv, KeepsBlocks, WritesTargets

LEMMA SyncsTyped ==
  ASSUME SyncInv
  PROVE  /\ sync \in [Syncs -> SyncState] /\ file \in [Files -> Content]
         /\ overtaken \in [Syncs -> SUBSET Files] /\ events \subseteq Files /\ edited \subseteq Files /\ timers \subseteq Files
         /\ edits \in 0 .. MaxFileEdits
BY DEF SyncInv, SyncTypeOK, SyncState

(* A step that leaves a sync as it is, and the files it has read but for   *)
(* those it marks as overtaken.                                            *)
LEMMA SyncUndisturbed ==
  ASSUME SyncInv, NEW s \in Syncs, sync'[s] = sync[s],
         sync[s].pc = "write" =>
           \A f \in Files : f \notin overtaken'[s] => f \notin overtaken[s] /\ file'[f] = file[f]
  PROVE  KeepsBlocks(s)' /\ WritesTargets(s)'
BY DEF SyncInv, KeepsBlocks, WritesTargets

(* A step of one sync that changes no file. *)
LEMMA SyncMoves ==
  ASSUME SyncInv, NEW s \in Syncs, NEW m \in SyncState, sync' = [sync EXCEPT ![s] = m],
         UNCHANGED <<file, events, timers, edits>>, paused' \in BOOLEAN, edited' \subseteq edited,
         \/ overtaken' = overtaken
         \/ overtaken' = [overtaken EXCEPT ![s] = {}],
         m.pc = "write" => \A f \in Files : file[f].parses => file[f].blocks \subseteq m.kept[f],
         m.pc \in {"read", "write"} => m.todo \subseteq Targets(m.target, Resources)
  PROVE  SyncInv'
<1>1. SyncTypeOK'
  <2>1. sync' \in [Syncs -> SyncState] /\ overtaken' \in [Syncs -> SUBSET Files]
    BY SyncsTyped
  <2> QED BY <2>1 DEF SyncInv, SyncTypeOK, SyncState
<1>2. KeepsBlocks(s)' /\ WritesTargets(s)'
  <2>1. sync'[s] = m
    BY SyncsTyped
  <2> QED BY <2>1 DEF KeepsBlocks, WritesTargets
<1>3. ASSUME NEW q \in Syncs, q # s PROVE KeepsBlocks(q)' /\ WritesTargets(q)'
  <2>1. sync'[q] = sync[q] /\ overtaken'[q] = overtaken[q]
    BY <1>3, SyncsTyped
  <2> QED BY <2>1, SyncUndisturbed
<1> QED BY <1>1, <1>2, <1>3 DEF SyncInv

(* How a request is refused, or begins. *)
LEMMA BeginSyncKept ==
  ASSUME NEW s \in Syncs, SyncInv, RefuseSync(s) \/ BeginSync(s) \/ BeginCodeSync(s)
  PROVE  SyncInv'
<1>1. UNCHANGED <<file, events, timers, edits, overtaken>> /\ sync[s] \in SyncState
  BY SyncsTyped DEF RefuseSync, BeginSync, BeginCodeSync
<1>2. paused' \in BOOLEAN /\ edited' \subseteq edited
  BY DEF RefuseSync, BeginSync, BeginCodeSync, PauseWatcher, SyncInv, SyncTypeOK
<1>3. CASE RefuseSync(s)
  BY <1>1, <1>2, <1>3, RestingTyped, SyncMoves DEF RefuseSync
<1>4. CASE BeginSync(s)
  <2>1. PICK target \in [Resources -> Files] :
          sync' = [sync EXCEPT ![s] = [sync[s] EXCEPT !.pc = "read", !.target = target,
                                                      !.todo = Targets(target, Resources)]]
    BY <1>4 DEF BeginSync
  <2> DEFINE m == [sync[s] EXCEPT !.pc = "read", !.target = target, !.todo = Targets(target, Resources)]
  <2>2. Targets(target, Resources) \subseteq Files
    BY SyncAssumption DEF Targets
  <2>3. m \in SyncState /\ m.pc = "read" /\ m.target = target /\ m.todo = Targets(target, Resources)
    BY <1>1, <2>2 DEF SyncState
  <2>4. sync' = [sync EXCEPT ![s] = m]
    BY <2>1
  <2> HIDE DEF m
  <2> QED BY <1>1, <1>2, <2>3, <2>4, SyncMoves
<1>5. CASE BeginCodeSync(s)
  <2>1. PICK f \in Files : sync' = [sync EXCEPT ![s] = [sync[s] EXCEPT !.pc = "code", !.todo = {f}]]
    BY <1>5 DEF BeginCodeSync
  <2> DEFINE m == [sync[s] EXCEPT !.pc = "code", !.todo = {f}]
  <2>2. m \in SyncState /\ m.pc = "code"
    BY <1>1 DEF SyncState
  <2>3. sync' = [sync EXCEPT ![s] = m]
    BY <2>1
  <2> HIDE DEF m
  <2> QED BY <1>1, <1>2, <2>2, <2>3, SyncMoves
<1> QED BY <1>3, <1>4, <1>5

LEMMA ReadBlocksKept == ASSUME NEW s \in Syncs, SyncInv, ReadBlocks(s) PROVE SyncInv'
<1> DEFINE kept == [f \in Files |-> IF file[f].parses THEN file[f].blocks ELSE {}]
           m == [sync[s] EXCEPT !.pc = "write", !.kept = kept]
<1>1. /\ sync[s].pc = "read" /\ sync' = [sync EXCEPT ![s] = m]
      /\ UNCHANGED <<file, paused, events, timers, edited, edits, overtaken>>
  BY DEF ReadBlocks
<1>2. kept \in [Files -> SUBSET Blocks] /\ \A f \in Files : file[f].parses => kept[f] = file[f].blocks
  BY SyncsTyped DEF Content
<1>3. /\ m \in SyncState /\ m.pc = "write" /\ m.kept = kept /\ m.todo = sync[s].todo /\ m.target = sync[s].target
  <2>1. sync[s] \in SyncState
    BY SyncsTyped
  <2> HIDE DEF kept
  <2> QED BY <1>2, <2>1 DEF SyncState
<1> HIDE DEF m, kept
<1>4. sync[s].todo \subseteq Targets(sync[s].target, Resources) /\ paused' \in BOOLEAN
  BY <1>1 DEF SyncInv, SyncTypeOK, WritesTargets
<1> QED BY <1>1, <1>2, <1>3, <1>4, SyncMoves

(* A write marks its file for the other syncs that have read it; the file  *)
(* holds what the sync kept of it.                                         *)
LEMMA PutKept ==
  ASSUME NEW s \in Syncs, NEW f \in Files, NEW c \in Content, SyncInv, Put(s, f, c),
         sync[s].pc \in {"write", "code"},
         sync[s].pc = "write" => c.blocks = sync[s].kept[f]
  PROVE  SyncInv'
<1> DEFINE m == [sync[s] EXCEPT !.todo = sync[s].todo \ {f}]
<1>1. /\ file' = [file EXCEPT ![f] = c]
      /\ events' = events \union {f} /\ sync' = [sync EXCEPT ![s] = m]
      /\ overtaken' = [q \in Syncs |-> IF q # s /\ sync[q].pc = "write" THEN overtaken[q] \union {f} ELSE overtaken[q]]
      /\ UNCHANGED <<paused, timers, edited, edits>>
  BY DEF Put
<1>2. sync[s] \in SyncState
  BY SyncsTyped
<1>4. /\ m \in SyncState /\ m.pc = sync[s].pc /\ m.kept = sync[s].kept /\ m.target = sync[s].target
      /\ m.todo \subseteq sync[s].todo
  BY <1>2 DEF SyncState
<1> HIDE DEF m
<1>5. SyncTypeOK'
  <2>1. sync' \in [Syncs -> SyncState] /\ file' \in [Files -> Content]
    BY <1>1, <1>4, SyncsTyped
  <2>2. overtaken' \in [Syncs -> SUBSET Files]
    BY <1>1, SyncsTyped
  <2> QED BY <1>1, <2>1, <2>2 DEF SyncInv, SyncTypeOK, SyncState
<1>6. KeepsBlocks(s)' /\ WritesTargets(s)'
  <2>1. sync'[s] = m /\ overtaken'[s] = overtaken[s]
    BY <1>1, SyncsTyped
  <2>2. KeepsBlocks(s)'
    <3>1. ASSUME NEW g \in Files, sync[s].pc = "write", g \notin overtaken[s], file'[g].parses
          PROVE  file'[g].blocks \subseteq m.kept[g]
      <4>1. CASE g = f
        BY <1>1, <1>4, <3>1, <4>1, SyncsTyped
      <4>2. CASE g # f
        <5>1. file'[g] = file[g]
          BY <1>1, <4>2, SyncsTyped
        <5> QED BY <1>1, <1>4, <3>1, <5>1 DEF SyncInv, KeepsBlocks
      <4> QED BY <4>1, <4>2
    <3> QED BY <1>4, <2>1, <3>1 DEF KeepsBlocks
  <2>3. sync[s].pc = "write" => sync[s].todo \subseteq Targets(sync[s].target, Resources)
    BY <1>1 DEF SyncInv, WritesTargets
  <2> QED BY <1>4, <2>1, <2>2, <2>3 DEF WritesTargets
<1>7. ASSUME NEW q \in Syncs, q # s PROVE KeepsBlocks(q)' /\ WritesTargets(q)'
  <2>1. sync'[q] = sync[q] /\ overtaken'[q] = IF sync[q].pc = "write" THEN overtaken[q] \union {f} ELSE overtaken[q]
    BY <1>1, <1>7, SyncsTyped
  <2>2. \A g \in Files : g # f => file'[g] = file[g]
    BY <1>1, SyncsTyped
  <2> QED BY <2>1, <2>2, SyncUndisturbed
<1> QED BY <1>5, <1>6, <1>7 DEF SyncInv

LEMMA WriteFileKept ==
  ASSUME NEW s \in Syncs, NEW f \in Files, SyncInv, WriteFile(s, f) \/ WriteCode(s, f)
  PROVE  SyncInv'
<1>1. CASE WriteCode(s, f)
  BY <1>1, PutKept DEF WriteCode
<1>2. CASE WriteFile(s, f)
  <2> DEFINE c == [resources |-> {r \in Resources : sync[s].target[r] = f}, blocks |-> sync[s].kept[f], parses |-> TRUE]
  <2>1. sync[s].pc = "write" /\ Put(s, f, c)
    BY <1>2 DEF WriteFile
  <2>2. c \in Content /\ c.blocks = sync[s].kept[f]
    BY SyncsTyped DEF Content, SyncState
  <2> HIDE DEF c
  <2> QED BY <2>1, <2>2, PutKept
<1> QED BY <1>1, <1>2

LEMMA EndSyncKept == ASSUME NEW s \in Syncs, SyncInv, EndSync(s) PROVE SyncInv'
<1>1. /\ sync' = [sync EXCEPT ![s] = Resting("done")] /\ paused' = FALSE
      /\ overtaken' = [overtaken EXCEPT ![s] = {}] /\ UNCHANGED <<file, events, timers, edited, edits>>
  BY DEF EndSync
<1>2. Resting("done") \in SyncState /\ Resting("done").pc = "done"
  BY RestingTyped
<1> QED BY <1>1, <1>2, SyncMoves

LEMMA EditFileKept == ASSUME NEW f \in Files, SyncInv, EditFile(f) PROVE SyncInv'
<1>1. PICK c \in Content : file' = [file EXCEPT ![f] = c]
  BY DEF EditFile
<1>2. /\ edits < MaxFileEdits /\ edits' = edits + 1 /\ events' = events \union {f}
      /\ edited' \in {edited, edited \union {f}}
      /\ overtaken' = [q \in Syncs |-> IF sync[q].pc = "write" THEN overtaken[q] \union {f} ELSE overtaken[q]]
      /\ UNCHANGED <<paused, timers, sync>>
  BY DEF EditFile
<1>3. SyncTypeOK'
  <2>1. file' \in [Files -> Content]
    BY <1>1, SyncsTyped
  <2>2. overtaken' \in [Syncs -> SUBSET Files]
    BY <1>2, SyncsTyped
  <2>3. edits' \in 0 .. MaxFileEdits
    BY <1>2, SyncsTyped, SyncAssumption
  <2> QED BY <1>2, <2>1, <2>2, <2>3 DEF SyncInv, SyncTypeOK
<1>4. ASSUME NEW q \in Syncs PROVE KeepsBlocks(q)' /\ WritesTargets(q)'
  <2>1. sync'[q] = sync[q] /\ overtaken'[q] = IF sync[q].pc = "write" THEN overtaken[q] \union {f} ELSE overtaken[q]
    BY <1>2
  <2>2. \A g \in Files : g # f => file'[g] = file[g]
    BY <1>1, SyncsTyped
  <2> QED BY <2>1, <2>2, SyncUndisturbed
<1> QED BY <1>3, <1>4 DEF SyncInv

(* The watcher's own steps change no file.                                 *)
LEMMA WatcherKept ==
  ASSUME SyncInv, UNCHANGED syncVars \/ \E f \in Files : HandleEvent(f) \/ Notify(f)
  PROVE  SyncInv'
<1>1. /\ UNCHANGED <<file, paused, sync, edits, overtaken>>
      /\ events' \subseteq events /\ timers' \subseteq timers \union Files /\ edited' \subseteq edited
  BY DEF syncVars, HandleEvent, Notify
<1>2. SyncTypeOK'
  BY <1>1 DEF SyncInv, SyncTypeOK
<1>3. ASSUME NEW q \in Syncs PROVE KeepsBlocks(q)' /\ WritesTargets(q)'
  BY <1>1, SyncUndisturbed
<1> QED BY <1>2, <1>3 DEF SyncInv

LEMMA SyncInvNext == SyncInv /\ [SyncNext]_syncVars => SyncInv'
BY BeginSyncKept, ReadBlocksKept, WriteFileKept, EndSyncKept, EditFileKept, WatcherKept DEF SyncNext

(* A sync loses no block of a file: it disappears in a write only if the   *)
(* file did not parse when it was read, or was changed by somebody else    *)
(* after that; and a file no resource belongs to is left alone.            *)
THEOREM BlocksKept == SyncInit /\ [][SyncNext]_syncVars => SyncsKeepBlocks
<1> DEFINE Keeps(s) == sync[s].pc = "write" /\ sync'[s].todo # sync[s].todo =>
             \A f \in Files :
               /\ f \notin overtaken[s] /\ file[f].parses => file[f].blocks \subseteq file'[f].blocks
               /\ (\A r \in Resources : sync[s].target[r] # f) /\ f # MainFile => file'[f] = file[f]
<1>1. ASSUME SyncInv, [SyncNext]_syncVars, NEW s \in Syncs PROVE Keeps(s)
  <2> SUFFICES ASSUME sync[s].pc = "write", sync'[s].todo # sync[s].todo, NEW g \in Files
               PROVE  /\ g \notin overtaken[s] /\ file[g].parses => file[g].blocks \subseteq file'[g].blocks
                      /\ (\A r \in Resources : sync[s].target[r] # g) /\ g # MainFile => file'[g] = file[g]
    OBVIOUS
  <2>1. sync[s] \in SyncState
    BY <1>1, SyncsTyped
  <2>e. CASE UNCHANGED file
    BY <2>e
  <2>2. CASE file' # file
    <3>1. PICK f \in Files : WriteFile(s, f)
      <4>1. sync' # sync
        OBVIOUS
      <4>2. ASSUME NEW q \in Syncs, q # s, \E f \in Files : WriteFile(q, f) \/ WriteCode(q, f)
            PROVE FALSE
        <5>1. PICK m : sync' = [sync EXCEPT ![q] = m]
          BY <4>2 DEF WriteFile, WriteCode, Put
        <5> QED BY <1>1, <4>2, <5>1, SyncsTyped
      <4>3. \A f \in Files : ~WriteCode(s, f)
        BY DEF WriteCode
      <4>4. \A q \in Syncs : ~RefuseSync(q) /\ ~BeginSync(q) /\ ~BeginCodeSync(q) /\ ~ReadBlocks(q) /\ ~EndSync(q)
        BY <2>2 DEF RefuseSync, BeginSync, BeginCodeSync, ReadBlocks, EndSync
      <4>5. \A f \in Files : ~EditFile(f) /\ ~HandleEvent(f) /\ ~Notify(f)
        BY <4>1 DEF EditFile, HandleEvent, Notify
      <4> QED BY <1>1, <4>1, <4>2, <4>3, <4>4, <4>5 DEF SyncNext, syncVars
    <3>2. f \in sync[s].todo /\ file'[f].blocks = sync[s].kept[f] /\ \A h \in Files : h # f => file'[h] = file[h]
      BY <1>1, <3>1, SyncsTyped DEF WriteFile, Put
    <3>3. CASE g # f
      BY <3>2, <3>3
    <3>4. CASE g = f
      <4>1. g \notin overtaken[s] /\ file[g].parses => file[g].blocks \subseteq file'[g].blocks
        BY <1>1, <3>2, <3>4 DEF SyncInv, KeepsBlocks
      <4>2. f \in Targets(sync[s].target, Resources)
        BY <1>1, <3>2 DEF SyncInv, WritesTargets
      <4>3. f = MainFile \/ \E r \in Resources : sync[s].target[r] = f
        BY <4>2 DEF Targets
      <4> QED BY <3>4, <4>1, <4>3
    <3> QED BY <3>3, <3>4
  <2> QED BY <2>e, <2>2
<1>2. SyncInv /\ [SyncNext]_syncVars => [\A s \in Syncs : Keeps(s)]_syncVars
  BY <1>1
<1> QED BY <1>2, SyncInvInit, SyncInvNext, PTL DEF SyncsKeepBlocks

-----------------------------------------------------------------------------
(* What is left of EditsReported without fairness: an edit that has to be  *)
(* reported is on its way, and no pause holds it up.                       *)

EditsOnTheirWay == \A f \in edited : f \in timers \/ (f \in events /\ ~paused)

(* The pause is some running sync's, and what is owed meanwhile is on a    *)
(* timer already.                                                          *)
PauseOwned ==
  /\ paused => \E s \in Syncs : Running(s)
  /\ (\E s \in Syncs : Running(s)) => edited \subseteq timers
  /\ edited \subseteq events \union timers

LEMMA SyncStepOwned ==
  ASSUME SyncInv, PauseOwned, NEW s \in Syncs,
         \/ RefuseSync(s) \/ BeginSync(s) \/ BeginCodeSync(s) \/ ReadBlocks(s) \/ EndSync(s)
         \/ \E f \in Files : WriteFile(s, f) \/ WriteCode(s, f)
  PROVE  PauseOwned'
<1>1. sync \in [Syncs -> SyncState]
  BY SyncsTyped
<1>2. CASE RefuseSync(s)
  <2>1. /\ sync' = [sync EXCEPT ![s] = Resting("done")] /\ sync[s].pc = "idle"
        /\ UNCHANGED <<paused, events, timers, edited>>
    BY <1>2 DEF RefuseSync
  <2>2. \A q \in Syncs : Running(q)' <=> Running(q)
    BY <1>1, <2>1, RestingTyped DEF Running
  <2> QED BY <2>1, <2>2 DEF PauseOwned
<1>3. CASE BeginSync(s) \/ BeginCodeSync(s)
  <2>1. PICK m : sync' = [sync EXCEPT ![s] = m] /\ m.pc \in {"read", "code"}
    <3>1. sync[s] \in SyncState
      BY <1>1
    <3>2. CASE BeginSync(s)
      <4>1. PICK target : sync' = [sync EXCEPT ![s] =
              [sync[s] EXCEPT !.pc = "read", !.target = target, !.todo = Targets(target, Resources)]]
        BY <3>2 DEF BeginSync
      <4>2. [sync[s] EXCEPT !.pc = "read", !.target = target, !.todo = Targets(target, Resources)].pc = "read"
        BY <3>1 DEF SyncState
      <4> QED BY <4>1, <4>2
    <3>3. CASE BeginCodeSync(s)
      <4>1. PICK f : sync' = [sync EXCEPT ![s] = [sync[s] EXCEPT !.pc = "code", !.todo = {f}]]
        BY <3>3 DEF BeginCodeSync
      <4>2. [sync[s] EXCEPT !.pc = "code", !.todo = {f}].pc = "code"
        BY <3>1 DEF SyncState
      <4> QED BY <4>1, <4>2
    <3> QED BY <1>3, <3>2, <3>3
  <2>2. Running(s)'
    BY <1>1, <2>1 DEF Running
  <2>3. edited' = edited \intersect timers /\ UNCHANGED <<events, timers>>
    BY <1>3 DEF BeginSync, BeginCodeSync, PauseWatcher
  <2> QED BY <2>2, <2>3 DEF PauseOwned
<1>4. CASE ReadBlocks(s)
  <2>1. sync' = [sync EXCEPT ![s] = [sync[s] EXCEPT !.pc = "write",
                   !.kept = [f \in Files |-> IF file[f].parses THEN file[f].blocks ELSE {}]]]
    BY <1>4 DEF ReadBlocks
  <2>2. sync'[s].pc = "write" /\ \A q \in Syncs : q # s => sync'[q] = sync[q]
    BY <1>1, <2>1 DEF SyncState
  <2>3. sync[s].pc = "read" /\ UNCHANGED <<paused, edited, events, timers>>
    BY <1>4 DEF ReadBlocks
  <2>4. \A q \in Syncs : Running(q)' <=> Running(q)
    BY <2>2, <2>3 DEF Running
  <2> QED BY <2>3, <2>4 DEF PauseOwned
<1>5. CASE EndSync(s)
  <2>1. sync' = [sync EXCEPT ![s] = Resting("done")]
    BY <1>5 DEF EndSync
  <2>2. paused' = FALSE /\ UNCHANGED <<edited, events, timers>>
    BY <1>5 DEF EndSync
  <2>3. \A q \in Syncs : Running(q)' => Running(q)
    BY <1>1, <2>1, RestingTyped DEF Running
  <2> QED BY <2>2, <2>3 DEF PauseOwned
<1>6. ASSUME NEW f \in Files, NEW c, Put(s, f, c) PROVE PauseOwned'
  <2>1. sync' = [sync EXCEPT ![s] = [sync[s] EXCEPT !.todo = @ \ {f}]]
    BY <1>6 DEF Put
  <2>2. sync'[s].pc = sync[s].pc /\ \A q \in Syncs : q # s => sync'[q] = sync[q]
    BY <1>1, <2>1 DEF SyncState
  <2>3. events' = events \union {f} /\ UNCHANGED <<paused, edited, timers>>
    BY <1>6 DEF Put
  <2>4. \A q \in Syncs : Running(q)' <=> Running(q)
    BY <2>2 DEF Running
  <2> QED BY <2>3, <2>4 DEF PauseOwned
<1>7. ASSUME NEW f \in Files, WriteFile(s, f) \/ WriteCode(s, f) PROVE PauseOwned'
  BY <1>6, <1>7 DEF WriteFile, WriteCode
<1> QED BY <1>2, <1>3, <1>4, <1>5, <1>7

LEMMA FileStepOwned ==
  ASSUME PauseOwned, NEW f \in Files, EditFile(f) \/ HandleEvent(f) \/ Notify(f)
  PROVE  PauseOwned'
<1>1. sync' = sync /\ paused' = paused
  BY DEF EditFile, HandleEvent, Notify
<1>2. CASE EditFile(f)
  <2>1. /\ events' = events \union {f} /\ timers' = timers
        /\ edited' = IF \E s \in Syncs : Running(s) THEN edited ELSE edited \union {f}
    BY <1>2 DEF EditFile
  <2> QED BY <1>1, <2>1 DEF PauseOwned, Running
<1>3. CASE HandleEvent(f)
  <2>1. /\ events' = events \ {f} /\ edited' = edited
        /\ timers' = IF paused THEN timers ELSE timers \union {f}
    BY <1>3 DEF HandleEvent
  <2>2. paused => edited \subseteq timers
    BY DEF PauseOwned
  <2> QED BY <1>1, <2>1, <2>2 DEF PauseOwned, Running
<1>4. CASE Notify(f)
  <2>1. events' = events /\ timers' = timers \ {f} /\ edited' = edited \ {f}
    BY <1>4 DEF Notify
  <2> QED BY <1>1, <2>1 DEF PauseOwned, Running
<1> QED BY <1>2, <1>3, <1>4

(* An edit made while no sync ran stays on its way until it is reported:   *)
(* its file has a running timer, or an event while the directory is not    *)
(* paused.  Only a sync that pauses before the watcher has seen the event  *)
(* takes it back, and a timer that runs by then still fires.               *)
THEOREM EditsAreOnTheirWay == SyncInit /\ [][SyncNext]_syncVars => []EditsOnTheirWay
<1>1. SyncInit => PauseOwned
  BY DEF SyncInit, PauseOwned
<1>2. SyncInv /\ PauseOwned /\ [SyncNext]_syncVars => PauseOwned'
  <2> SUFFICES ASSUME SyncInv, PauseOwned, [SyncNext]_syncVars PROVE PauseOwned'
    OBVIOUS
  <2>1. CASE UNCHANGED syncVars
    BY <2>1 DEF syncVars, PauseOwned, Running
  <2>2. CASE \E s \in Syncs : \/ RefuseSync(s) \/ BeginSync(s) \/ BeginCodeSync(s) \/ ReadBlocks(s) \/ EndSync(s)
                            \/ \E f \in Files : WriteFile(s, f) \/ WriteCode(s, f)
    BY <2>2, SyncStepOwned
  <2>3. CASE \E f \in Files : EditFile(f) \/ HandleEvent(f) \/ Notify(f)
    BY <2>3, FileStepOwned
  <2> QED BY <2>1, <2>2, <2>3 DEF SyncNext
<1>3. PauseOwned => EditsOnTheirWay
  BY DEF PauseOwned, EditsOnTheirWay
<1> QED BY <1>1, <1>2, <1>3, SyncInvInit, SyncInvNext, PTL

(***************************************************************************)
(* The built-in agent.                                                     *)
(***************************************************************************)

Specialists == DOMAIN ToolAllowList
MayUse(r, tool) == tool \in ToolAllowList[agent[r].specialist]
Runs(r) == IF Len(agent[r].uses) > BatchCap THEN BatchCap ELSE Len(agent[r].uses)

(* A request has its specialist before it turns to the model, and a turn   *)
(* left while it runs tools.                                               *)
Routed == \A r \in Requests :
            /\ agent[r].pc = "idle" => agent[r].turn = 0
            /\ agent[r].pc = "tools" => agent[r].turn < MaxTurns
            /\ agent[r].pc \in {"model", "tools"} => agent[r].specialist \in Specialists

Written == \A f \in SourceFiles : content[f] # Nobody =>
             /\ agent[content[f]].pc # "idle" /\ agent[content[f]].specialist \in Specialists
             /\ MayUse(content[f], "write_hcl")

(* The results so far are those of the first calls of the batch. *)
InBatch(r) == \A i \in DOMAIN agent[r].results :
                i <= Runs(r) /\ (agent[r].results[i] = "value" => MayUse(r, agent[r].uses[i]))
OfBatch(r) == /\ agent[r].pc = "tools" => InBatch(r) /\ Len(agent[r].results) < Runs(r)
              /\ agent[r].pc = "model" /\ agent[r].turn > 0 => InBatch(r) /\ Len(agent[r].results) = Runs(r)
Batched == \A r \in Requests : OfBatch(r)

(* The log is the end of the history. *)
Logged ==
  /\ Len(audit) <= Len(recorded) /\ (Len(audit) = AuditSize \/ Len(audit) = Len(recorded))
  /\ \A i \in DOMAIN audit : audit[i].request = recorded[Len(recorded) - Len(audit) + i]

LoopInv == LoopTypeOK /\ Routed /\ Written /\ Batched /\ Logged

-----------------------------------------------------------------------------

LEMMA BatchIsASequence ==
  ASSUME NEW batch \in Batches
  PROVE  batch \in Seq(Called) /\ Len(batch) \in Nat
<1>1. PICK n \in 0 .. BatchCap + 1 : batch \in [1 .. n -> Called] BY DEF Batches
<1>2. n \in Nat BY <1>1, LoopAssumption
<1>3. batch \in Seq(Called) BY <1>1, <1>2, SeqDef
<1> QED BY <1>3, LenProperties

LEMMA RoutesToASpecialist ==
  ASSUME NEW weight \in [DOMAIN Order -> 0 .. 1]
  PROVE  Route(weight) \in Specialists
<1>1. DOMAIN Order = 1 .. 5 /\ \A i \in 1 .. 5 : Order[i] \in Specialists
  BY DEF Order, Specialists, ToolAllowList
<1>2. CASE \A i \in DOMAIN Order : weight[i] = 0 BY <1>2 DEF Route, Specialists, ToolAllowList
<1>3. CASE \E i \in DOMAIN Order : weight[i] # 0
  <2> DEFINE Best(i) == \A j \in DOMAIN Order : weight[j] <= weight[i] /\ (weight[j] = weight[i] => i <= j)
  <2>1. \E i \in DOMAIN Order : Best(i)
    <3>1. weight[1] \in 0 .. 1 /\ weight[2] \in 0 .. 1 /\ weight[3] \in 0 .. 1 /\ weight[4] \in 0 .. 1 /\ weight[5] \in 0 .. 1
      BY <1>1
    <3>2. PICK i \in 1 .. 5 : weight[i] = 1 /\ \A j \in 1 .. 5 : j < i => weight[j] # 1 BY <1>1, <1>3, <3>1
    <3>3. \A j \in 1 .. 5 : weight[j] <= 1 BY <1>1
    <3>4. Best(i) BY <1>1, <3>2, <3>3
    <3> QED BY <1>1, <3>2, <3>4
  <2>2. (CHOOSE i \in DOMAIN Order : Best(i)) \in DOMAIN Order BY <2>1
  <2>3. Route(weight) = Order[CHOOSE i \in DOMAIN Order : Best(i)] BY <1>3 DEF Route
  <2> HIDE DEF Best
  <2> QED BY <1>1, <2>2, <2>3
<1> QED BY <1>2, <1>3

Agents == [pc : {"idle", "model", "tools", "record", "done"}, specialist : {"none"} \union Specialists,
           turn : 0 .. MaxTurns, uses : Batches, results : Seq({"value", "error"}), failed : BOOLEAN]

LEMMA AgentTyped ==
  ASSUME LoopTypeOK
  PROVE  agent \in [Requests -> Agents]
BY DEF LoopTypeOK, Agents, Specialists

(* What a request may hold after a step of its own, and what may become of *)
(* the files.                                                              *)
MayBecome(r, a) ==
  /\ a \in Agents /\ a.pc # "idle" /\ (agent[r].pc = "idle" \/ a.specialist = agent[r].specialist)
  /\ a.pc \in {"model", "tools"} => a.specialist \in Specialists
  /\ a.pc = "tools" => a.turn < MaxTurns

MayWrite(r, a) ==
  /\ content' \in [SourceFiles -> Requests \union {Nobody}]
  /\ \A f \in SourceFiles : content'[f] # content[f] =>
       content'[f] = r /\ a.specialist \in Specialists /\ "write_hcl" \in ToolAllowList[a.specialist]

LEMMA NothingWritten ==
  ASSUME LoopInv, UNCHANGED content, NEW r, NEW a
  PROVE  MayWrite(r, a)
BY DEF LoopInv, LoopTypeOK, MayWrite
LEMMA SameBatch ==
  ASSUME NEW q, agent'[q] = agent[q], OfBatch(q)
  PROVE  OfBatch(q)'
<1>1. Runs(q)' = Runs(q) BY DEF Runs
<1>2. InBatch(q)' <=> InBatch(q) BY <1>1 DEF InBatch, MayUse
<1> QED BY <1>1, <1>2 DEF OfBatch

LEMMA OneAgentKeeps ==
  ASSUME LoopInv, NEW r \in Requests, NEW a, agent' = [agent EXCEPT ![r] = a], MayBecome(r, a), MayWrite(r, a),
         UNCHANGED <<audit, recorded>>, OfBatch(r)'
  PROVE  LoopInv'
<1> USE DEF MayBecome, MayWrite
<1>1. /\ agent' \in [Requests -> Agents] /\ agent'[r] = a
      /\ \A q \in Requests : q # r => agent'[q] = agent[q]
  BY AgentTyped DEF LoopInv
<1>2. LoopTypeOK' BY <1>1 DEF LoopInv, LoopTypeOK, Agents, Specialists
<1>3. Routed' BY <1>1 DEF LoopInv, Routed
<1>4. Written'
  <2> SUFFICES ASSUME NEW f \in SourceFiles, content'[f] # Nobody
               PROVE  /\ agent'[content'[f]].pc # "idle" /\ agent'[content'[f]].specialist \in Specialists
                      /\ "write_hcl" \in ToolAllowList[agent'[content'[f]].specialist]
    BY DEF Written, MayUse
  <2>1. CASE content'[f] # content[f] BY <1>1, <2>1
  <2>2. CASE content'[f] = content[f]
    <3>1. /\ agent[content[f]].pc # "idle" /\ agent[content[f]].specialist \in Specialists
          /\ "write_hcl" \in ToolAllowList[agent[content[f]].specialist]
      BY <2>2 DEF LoopInv, Written, MayUse
    <3>2. content[f] \in Requests BY <2>2
    <3> QED BY <1>1, <2>2, <3>1, <3>2
  <2> QED BY <2>1, <2>2
<1>5. Batched'
  <2> SUFFICES ASSUME NEW q \in Requests
               PROVE  OfBatch(q)'
    BY DEF Batched
  <2>1. CASE q # r
    <3>1. agent'[q] = agent[q] BY <1>1, <2>1
    <3> QED BY <3>1, SameBatch DEF LoopInv, Batched
  <2> QED BY <2>1
<1>6. Logged' BY DEF LoopInv, Logged
<1> QED BY <1>2, <1>3, <1>4, <1>5, <1>6 DEF LoopInv

LEMMA AskKeeps ==
  ASSUME LoopInv, NEW r \in Requests, Ask(r)
  PROVE  LoopInv'
<1>1. /\ agent \in [Requests -> Agents] /\ agent[r] \in Agents /\ agent[r].pc = "idle" /\ agent[r].turn = 0
      /\ UNCHANGED <<content, audit, recorded>> /\ content \in [SourceFiles -> Requests \union {Nobody}]
  BY AgentTyped DEF LoopInv, LoopTypeOK, Routed, Ask
<1>2. CASE agent' = [agent EXCEPT ![r].pc = "record", ![r].failed = TRUE]
  <2> DEFINE a == [agent[r] EXCEPT !.pc = "record", !.failed = TRUE]
  <2>1. a \in Agents /\ a.pc = "record" BY <1>1 DEF Agents
  <2>2. agent' = [agent EXCEPT ![r] = a] BY <1>1, <1>2
  <2> HIDE DEF a
  <2>3. agent'[r] = a BY <1>1, <2>2
  <2>4. MayBecome(r, a) /\ OfBatch(r)' BY <1>1, <2>1, <2>3 DEF MayBecome, OfBatch
  <2> QED BY <1>1, <2>2, <2>4, NothingWritten, OneAgentKeeps
<1>3. ASSUME NEW weight \in [DOMAIN Order -> 0 .. 1],
             agent' = [agent EXCEPT ![r].pc = "model", ![r].specialist = Route(weight)]
      PROVE  LoopInv'
  <2>1. PICK s \in Specialists : s = Route(weight) BY RoutesToASpecialist
  <2> DEFINE a == [agent[r] EXCEPT !.pc = "model", !.specialist = s]
  <2>2. a \in Agents /\ a.pc = "model" /\ a.specialist = s /\ a.turn = agent[r].turn BY <1>1 DEF Agents
  <2>3. agent' = [agent EXCEPT ![r] = a] BY <1>1, <1>3, <2>1
  <2> HIDE DEF a
  <2>4. agent'[r] = a /\ ~(a.turn > 0) BY <1>1, <2>2, <2>3
  <2>5. MayBecome(r, a) /\ OfBatch(r)' BY <1>1, <2>2, <2>4 DEF MayBecome, OfBatch
  <2> QED BY <1>1, <2>3, <2>5, NothingWritten, OneAgentKeeps
<1> QED BY <1>2, <1>3 DEF Ask

LEMMA TurnKeeps ==
  ASSUME LoopInv, NEW r \in Requests, Turn(r)
  PROVE  LoopInv'
<1>1. /\ agent \in [Requests -> Agents] /\ agent[r] \in Agents /\ agent[r].pc = "model" /\ agent[r].turn < MaxTurns
      /\ agent[r].specialist \in Specialists
      /\ UNCHANGED <<content, audit, recorded>> /\ content \in [SourceFiles -> Requests \union {Nobody}]
  BY AgentTyped DEF LoopInv, LoopTypeOK, Routed, Turn
<1>2. PICK batch \in Batches, pc \in {"record", "tools"} :
        /\ pc = "tools" => batch # <<>>
        /\ agent' = [agent EXCEPT ![r].pc = pc, ![r].uses = batch, ![r].results = <<>>]
  BY DEF Turn
<1> DEFINE a == [agent[r] EXCEPT !.pc = pc, !.uses = batch, !.results = <<>>]
<1>3. /\ a \in Agents /\ a.pc = pc /\ a.specialist = agent[r].specialist /\ a.turn = agent[r].turn /\ a.uses = batch
      /\ a.results = <<>>
  <2>1. <<>> \in Seq({"value", "error"}) BY EmptySeq
  <2>2. PICK nothing \in Seq({"value", "error"}) : nothing = <<>> BY <2>1
  <2>3. [agent[r] EXCEPT !.pc = pc, !.uses = batch, !.results = nothing] \in Agents BY <1>1, <1>2 DEF Agents
  <2>4. a \in Agents BY <2>2, <2>3
  <2> QED BY <1>1, <2>4 DEF Agents
<1>4. agent' = [agent EXCEPT ![r] = a] BY <1>1, <1>2
<1> HIDE DEF a
<1>5. agent'[r] = a BY <1>1, <1>4
<1>6. ASSUME pc = "tools" PROVE InBatch(r)' /\ Len(agent'[r].results) < Runs(r)'
  <2>1. Len(batch) \in Nat \ {0} BY <1>2, <1>6, BatchIsASequence, EmptySeq
  <2>2. Runs(r)' > 0 BY <1>3, <1>5, <2>1, LoopAssumption DEF Runs
  <2>3. agent'[r].results = <<>> BY <1>3, <1>5
  <2>4. InBatch(r)' BY <2>3 DEF InBatch
  <2> QED BY <2>2, <2>3, <2>4
<1>7. MayBecome(r, a) BY <1>1, <1>2, <1>3 DEF MayBecome
<1>8. OfBatch(r)' BY <1>2, <1>3, <1>5, <1>6 DEF OfBatch
<1> QED BY <1>1, <1>4, <1>7, <1>8, NothingWritten, OneAgentKeeps

LEMMA ModelFailsKeeps ==
  ASSUME LoopInv, NEW r \in Requests, ModelFails(r)
  PROVE  LoopInv'
<1>1. /\ agent \in [Requests -> Agents] /\ agent[r] \in Agents
      /\ UNCHANGED <<content, audit, recorded>> /\ content \in [SourceFiles -> Requests \union {Nobody}]
  BY AgentTyped DEF LoopInv, LoopTypeOK, ModelFails
<1> DEFINE a == [agent[r] EXCEPT !.pc = "record", !.failed = TRUE]
<1>2. a \in Agents /\ a.pc = "record" /\ a.specialist = agent[r].specialist BY <1>1 DEF Agents
<1>3. agent' = [agent EXCEPT ![r] = a] BY <1>1 DEF ModelFails
<1> HIDE DEF a
<1>4. agent'[r] = a BY <1>1, <1>3
<1>5. MayBecome(r, a) /\ OfBatch(r)' BY <1>2, <1>4 DEF MayBecome, OfBatch
<1> QED BY <1>1, <1>3, <1>5, NothingWritten, OneAgentKeeps

(* One more result, of the call that is due; the batch may end with it. *)
LEMMA CallToolKeeps ==
  ASSUME LoopInv, NEW r \in Requests, CallTool(r)
  PROVE  LoopInv'
<1> DEFINE k == Len(agent[r].results) + 1
           tool == Calls(r)[k]
<1>1. /\ agent \in [Requests -> Agents] /\ agent[r] \in Agents /\ agent[r].pc = "tools"
      /\ agent[r].specialist \in Specialists /\ agent[r].turn < MaxTurns
      /\ InBatch(r) /\ Len(agent[r].results) < Runs(r)
      /\ UNCHANGED <<audit, recorded>> /\ content \in [SourceFiles -> Requests \union {Nobody}]
  BY AgentTyped DEF LoopInv, LoopTypeOK, Routed, Batched, OfBatch, CallTool
<1>2. agent[r].uses \in Seq(Called) /\ Len(agent[r].uses) \in Nat BY <1>1, BatchIsASequence DEF Agents
<1>3. Runs(r) \in Nat /\ Runs(r) <= Len(agent[r].uses) BY <1>2, LoopAssumption DEF Runs
<1>4. agent[r].results \in Seq({"value", "error"}) /\ k \in Nat \ {0} /\ k <= Runs(r) BY <1>1, <1>3 DEF Agents
<1>5. Len(Calls(r)) = Runs(r) /\ tool = agent[r].uses[k]
  <2>1. \A i \in 1 .. Runs(r) : agent[r].uses[i] \in Called BY <1>2, <1>3
  <2>2. Calls(r) = SubSeq(agent[r].uses, 1, Runs(r)) BY DEF Calls, Runs
  <2> HIDE DEF k
  <2>3. /\ Len(SubSeq(agent[r].uses, 1, Runs(r))) = Runs(r)
        /\ \A i \in 1 .. Runs(r) : SubSeq(agent[r].uses, 1, Runs(r))[i] = agent[r].uses[i]
    BY <1>3, <1>4, <2>1, SubSeqProperties
  <2>4. k \in 1 .. Runs(r) BY <1>3, <1>4
  <2>5. tool = SubSeq(agent[r].uses, 1, Runs(r))[k] BY <2>2
  <2> QED BY <2>2, <2>3, <2>4, <2>5
<1>6. PICK outcome \in {"value", "error"} :
        /\ LET results == Append(agent[r].results, outcome) IN
           agent' = IF Len(results) = Len(Calls(r))
                    THEN [agent EXCEPT ![r].results = results, ![r].pc = "model", ![r].turn = @ + 1]
                    ELSE [agent EXCEPT ![r].results = results]
        /\ outcome = "value" => tool \in Executable(r)
        /\ \/ UNCHANGED content
           \/ outcome = "value" /\ tool = "write_hcl" /\ WriteHCL(r)
  BY DEF CallTool
<1>7. outcome = "value" => MayUse(r, agent[r].uses[k]) BY <1>5, <1>6 DEF Executable, MayUse
<1> DEFINE results == Append(agent[r].results, outcome)
           last == k = Runs(r)
           a == IF last THEN [agent[r] EXCEPT !.results = results, !.pc = "model", !.turn = @ + 1]
                ELSE [agent[r] EXCEPT !.results = results]
<1>8. /\ results \in Seq({"value", "error"}) /\ Len(results) = k /\ DOMAIN results = 1 .. k /\ results[k] = outcome
      /\ \A i \in DOMAIN agent[r].results : results[i] = agent[r].results[i]
      /\ DOMAIN agent[r].results = 1 .. (k - 1)
  BY <1>4
<1>9. agent' = [agent EXCEPT ![r] = a] BY <1>1, <1>5, <1>6, <1>8
<1> HIDE DEF results, k, tool
<1>10. /\ a \in Agents /\ a.results = results /\ a.specialist = agent[r].specialist /\ a.uses = agent[r].uses
       /\ a.pc = IF last THEN "model" ELSE "tools"
       /\ ~last => a.turn = agent[r].turn
  <2>1. agent[r].turn \in 0 .. MaxTurns BY <1>1 DEF Agents
  <2>2. agent[r].turn + 1 \in 0 .. MaxTurns BY <1>1, <2>1, LoopAssumption
  <2> QED BY <1>1, <1>8, <2>2 DEF Agents
<1> HIDE DEF a
<1>11. agent'[r] = a BY <1>1, <1>9
<1>12. Runs(r)' = Runs(r) BY <1>10, <1>11 DEF Runs
<1>13. InBatch(r)'
  <2> SUFFICES ASSUME NEW i \in DOMAIN results
               PROVE  i <= Runs(r) /\ (results[i] = "value" => agent[r].uses[i] \in ToolAllowList[agent[r].specialist])
    BY <1>10, <1>11, <1>12 DEF InBatch, MayUse
  <2>1. CASE i = k BY <1>3, <1>4, <1>7, <1>8, <2>1 DEF MayUse
  <2>2. CASE i # k
    <3>1. i \in DOMAIN agent[r].results BY <1>4, <1>8, <2>2
    <3> QED BY <1>1, <1>8, <3>1 DEF InBatch, MayUse
  <2> QED BY <2>1, <2>2
<1>14. Len(agent'[r].results) = k /\ (last => k = Runs(r)') /\ (~last => k < Runs(r)')
  BY <1>3, <1>4, <1>8, <1>10, <1>11, <1>12
<1>15. /\ content' \in [SourceFiles -> Requests \union {Nobody}]
       /\ \A f \in SourceFiles : content'[f] # content[f] =>
            content'[f] = r /\ "write_hcl" \in ToolAllowList[agent[r].specialist]
  <2>1. CASE UNCHANGED content BY <1>1, <2>1
  <2>2. CASE outcome = "value" /\ tool = "write_hcl" /\ WriteHCL(r)
    <3>1. PICK f \in SourceFiles : content' = [content EXCEPT ![f] = r] BY <2>2 DEF WriteHCL
    <3>2. "write_hcl" \in ToolAllowList[agent[r].specialist] BY <1>5, <1>7, <2>2 DEF MayUse
    <3> QED BY <1>1, <3>1, <3>2
  <2> QED BY <1>6, <2>1, <2>2
<1>16. MayWrite(r, a) BY <1>1, <1>10, <1>15 DEF MayWrite
<1> HIDE DEF last
<1>17. MayBecome(r, a) BY <1>1, <1>10 DEF MayBecome
<1>18. OfBatch(r)' BY <1>10, <1>11, <1>13, <1>14 DEF OfBatch
<1> QED BY <1>1, <1>9, <1>16, <1>17, <1>18, OneAgentKeeps

LEMMA RecordRequestKeeps ==
  ASSUME LoopInv, NEW r \in Requests, RecordRequest(r)
  PROVE  LoopInv'
<1> DEFINE Logs == [request : Requests, specialist : {"none"} \union Specialists, failed : BOOLEAN]
           ended == [request |-> r, specialist |-> IF agent[r].failed THEN "none" ELSE agent[r].specialist,
                     failed |-> agent[r].failed]
           entries == Append(audit, ended)
           n == Len(audit)
           m == Len(recorded)
<1>1. /\ agent \in [Requests -> Agents] /\ agent[r] \in Agents /\ agent' = [agent EXCEPT ![r].pc = "done"]
      /\ agent[r].pc = "record" /\ UNCHANGED content /\ content \in [SourceFiles -> Requests \union {Nobody}]
  BY AgentTyped DEF LoopInv, LoopTypeOK, RecordRequest
<1>2. /\ audit' = IF Len(entries) > AuditSize THEN SubSeq(entries, Len(entries) - AuditSize + 1, Len(entries)) ELSE entries
      /\ recorded' = Append(recorded, r)
  BY DEF RecordRequest
<1>3. /\ audit \in Seq(Logs) /\ n \in Nat /\ n <= AuditSize /\ recorded \in Seq(Requests) /\ m \in Nat /\ n <= m
      /\ n = AuditSize \/ n = m
      /\ \A i \in 1 .. n : audit[i].request = recorded[m - n + i]
      /\ AuditSize \in Nat \ {0}
  <2>1. audit \in Seq(Logs) /\ recorded \in Seq(Requests) /\ n <= AuditSize
    BY DEF LoopInv, LoopTypeOK, Specialists
  <2>2. n <= m /\ (n = AuditSize \/ n = m) /\ \A i \in DOMAIN audit : audit[i].request = recorded[m - n + i]
    BY DEF LoopInv, Logged
  <2>3. AuditSize \in Nat \ {0} BY LoopAssumption
  <2> HIDE DEF Logs
  <2> QED BY <2>1, <2>2, <2>3
<1>4. ended \in Logs /\ ended.request = r BY <1>1 DEF Agents
<1> HIDE DEF Logs, ended
<1>5. /\ entries \in Seq(Logs) /\ Len(entries) = n + 1 /\ entries[n + 1] = ended
      /\ \A i \in 1 .. n : entries[i] = audit[i]
  BY <1>3, <1>4
<1>6. /\ recorded' \in Seq(Requests) /\ Len(recorded') = m + 1 /\ recorded'[m + 1] = r
      /\ \A i \in 1 .. m : recorded'[i] = recorded[i]
  BY <1>2, <1>3
<1> HIDE DEF entries, n, m
<1>7. \A i \in 1 .. n + 1 : entries[i].request = recorded'[m - n + i]
  <2> SUFFICES ASSUME NEW i \in 1 .. n + 1 PROVE entries[i].request = recorded'[m - n + i] OBVIOUS
  <2>1. CASE i = n + 1
    <3>1. m - n + i = m + 1 BY <1>3, <2>1
    <3> QED BY <1>4, <1>5, <1>6, <2>1, <3>1
  <2>2. CASE i # n + 1
    <3>1. i \in 1 .. n /\ m - n + i \in 1 .. m BY <1>3, <2>2
    <3> QED BY <1>3, <1>5, <1>6, <3>1
  <2> QED BY <2>1, <2>2
<1>8. /\ audit' \in Seq(Logs) /\ Len(audit') <= AuditSize /\ Len(audit') <= m + 1
      /\ Len(audit') = AuditSize \/ Len(audit') = m + 1
      /\ \A i \in 1 .. Len(audit') : audit'[i].request = recorded'[m + 1 - Len(audit') + i]
  <2>1. CASE n + 1 <= AuditSize
    <3>1. audit' = entries BY <1>2, <1>3, <1>5, <2>1
    <3>2. Len(audit') = n + 1 /\ n = m BY <1>3, <1>5, <2>1, <3>1
    <3>3. \A i \in 1 .. n + 1 : m + 1 - (n + 1) + i = m - n + i BY <1>3
    <3>4. \A i \in 1 .. n + 1 : audit'[i].request = recorded'[m + 1 - (n + 1) + i] BY <1>7, <3>1, <3>3
    <3>5. Len(audit') <= AuditSize /\ Len(audit') <= m + 1 /\ Len(audit') = m + 1 BY <1>3, <2>1, <3>2
    <3>6. audit' \in Seq(Logs) BY <1>5, <3>1
    <3> QED BY <3>2, <3>4, <3>5, <3>6
  <2>2. CASE n + 1 > AuditSize
    <3>1. n = AuditSize BY <1>3, <2>2
    <3>2. audit' = SubSeq(entries, 2, n + 1) BY <1>2, <1>3, <1>5, <3>1
    <3>3. \A i \in 2 .. n + 1 : entries[i] \in Logs BY <1>3, <1>5
    <3>4. /\ audit' \in Seq(Logs) /\ Len(audit') = n /\ \A i \in 1 .. n : audit'[i] = entries[i + 1]
      <4>1. 2 \in Int /\ n + 1 \in Int /\ 2 <= n + 1 BY <1>3, <3>1
      <4>2. /\ SubSeq(entries, 2, n + 1) \in Seq(Logs)
            /\ Len(SubSeq(entries, 2, n + 1)) = (n + 1) - 2 + 1
            /\ \A i \in 1 .. (n + 1) - 2 + 1 : SubSeq(entries, 2, n + 1)[i] = entries[2 + i - 1]
        BY <3>3, <4>1, SubSeqProperties
      <4>3. (n + 1) - 2 + 1 = n /\ \A i \in 1 .. n : 2 + i - 1 = i + 1 BY <1>3
      <4> QED BY <3>2, <4>2, <4>3
    <3>5. \A i \in 1 .. n : i + 1 \in 1 .. n + 1 /\ m + 1 - n + i = m - n + (i + 1) BY <1>3
    <3>6. \A i \in 1 .. n : audit'[i].request = recorded'[m + 1 - n + i] BY <1>7, <3>4, <3>5
    <3> QED BY <1>3, <3>1, <3>4, <3>6
  <2> QED BY <1>3, <2>1, <2>2
<1>9. /\ agent' \in [Requests -> Agents] /\ agent'[r].pc = "done" /\ agent'[r].specialist = agent[r].specialist
      /\ \A q \in Requests : q # r => agent'[q] = agent[q]
  <2> DEFINE a == [agent[r] EXCEPT !.pc = "done"]
  <2>1. a \in Agents /\ a.pc = "done" /\ a.specialist = agent[r].specialist BY <1>1 DEF Agents
  <2>2. agent' = [agent EXCEPT ![r] = a] BY <1>1
  <2> HIDE DEF a
  <2> QED BY <1>1, <2>1, <2>2
<1>10. LoopTypeOK'
  <2>1. audit' \in Seq([request : Requests, specialist : {"none"} \union DOMAIN ToolAllowList, failed : BOOLEAN])
    BY <1>8 DEF Logs, Specialists
  <2> QED BY <1>1, <1>6, <1>8, <1>9, <2>1 DEF LoopTypeOK, Agents, Specialists
<1>11. Routed' BY <1>9 DEF LoopInv, Routed
<1>12. Written'
  <2> SUFFICES ASSUME NEW f \in SourceFiles, content[f] # Nobody
               PROVE  /\ agent'[content[f]].pc # "idle" /\ agent'[content[f]].specialist \in Specialists
                      /\ "write_hcl" \in ToolAllowList[agent'[content[f]].specialist]
    BY <1>1 DEF Written, MayUse
  <2>1. /\ agent[content[f]].pc # "idle" /\ agent[content[f]].specialist \in Specialists
        /\ "write_hcl" \in ToolAllowList[agent[content[f]].specialist]
    BY DEF LoopInv, Written, MayUse
  <2>2. content[f] \in Requests BY <1>1
  <2> QED BY <1>9, <2>1, <2>2
<1>13. Batched'
  <2> SUFFICES ASSUME NEW q \in Requests, q # r
               PROVE  OfBatch(q)'
    BY <1>9 DEF Batched, OfBatch
  <2>1. agent'[q] = agent[q] BY <1>9
  <2> QED BY <2>1, SameBatch DEF LoopInv, Batched
<1>14. Logged'
  <2>1. DOMAIN audit' = 1 .. Len(audit') BY <1>8
  <2>2. \A i \in DOMAIN audit' : audit'[i].request = recorded'[Len(recorded') - Len(audit') + i]
    <3>1. Len(recorded') = m + 1 BY <1>6
    <3> SUFFICES ASSUME NEW i \in DOMAIN audit'
                 PROVE  audit'[i].request = recorded'[Len(recorded') - Len(audit') + i]
      OBVIOUS
    <3>2. audit'[i].request = recorded'[m + 1 - Len(audit') + i] BY <1>8, <2>1
    <3>3. Len(recorded') - Len(audit') + i = m + 1 - Len(audit') + i
      <4>1. m \in Nat BY <1>3
      <4>2. audit' \in Seq(Logs) BY <1>8
      <4>3. Len(audit') \in Nat /\ i \in Nat BY <4>2
      <4> QED BY <3>1, <4>1, <4>3
    <3> QED BY <3>2, <3>3, Zenon
  <2>3. Len(audit') <= Len(recorded') /\ (Len(audit') = AuditSize \/ Len(audit') = Len(recorded')) BY <1>6, <1>8
  <2> QED BY <2>2, <2>3 DEF Logged
<1> QED BY <1>10, <1>11, <1>12, <1>13, <1>14 DEF LoopInv

LEMMA RestartServerKeeps ==
  ASSUME LoopInv, RestartServer
  PROVE  LoopInv'
<1>1. /\ agent' = [r \in Requests |-> IF agent[r].pc = "idle" THEN agent[r] ELSE [agent[r] EXCEPT !.pc = "done"]]
      /\ audit' = <<>> /\ recorded' = <<>> /\ content' = content
  BY DEF RestartServer
<1>2. agent \in [Requests -> Agents] /\ content \in [SourceFiles -> Requests \union {Nobody}]
  BY AgentTyped DEF LoopInv, LoopTypeOK
<1>3. \A r \in Requests : /\ agent'[r] \in Agents /\ agent'[r].specialist = agent[r].specialist
                          /\ agent'[r].pc = IF agent[r].pc = "idle" THEN "idle" ELSE "done"
                          /\ agent[r].pc = "idle" => agent'[r] = agent[r]
  <2> SUFFICES ASSUME NEW r \in Requests
               PROVE  /\ agent'[r] \in Agents /\ agent'[r].specialist = agent[r].specialist
                      /\ agent'[r].pc = IF agent[r].pc = "idle" THEN "idle" ELSE "done"
                      /\ agent[r].pc = "idle" => agent'[r] = agent[r]
    OBVIOUS
  <2> DEFINE a == [agent[r] EXCEPT !.pc = "done"]
  <2>1. a \in Agents /\ a.pc = "done" /\ a.specialist = agent[r].specialist BY <1>2 DEF Agents
  <2>2. agent'[r] = IF agent[r].pc = "idle" THEN agent[r] ELSE a BY <1>1
  <2> HIDE DEF a
  <2> QED BY <1>2, <2>1, <2>2
<1>4. agent' \in [Requests -> Agents] BY <1>1, <1>3
<1>5. LoopTypeOK'
  <2>1. audit' \in Seq([request : Requests, specialist : {"none"} \union DOMAIN ToolAllowList, failed : BOOLEAN])
    BY <1>1, EmptySeq
  <2>2. recorded' \in Seq(Requests) /\ Len(audit') <= AuditSize BY <1>1, EmptySeq, LoopAssumption
  <2> QED BY <1>1, <1>2, <1>4, <2>1, <2>2 DEF LoopTypeOK, Agents, Specialists
<1>6. Routed' BY <1>3 DEF LoopInv, Routed
<1>7. Batched' BY <1>3 DEF Batched, OfBatch
<1>8. Written'
  <2> SUFFICES ASSUME NEW f \in SourceFiles, content[f] # Nobody
               PROVE  /\ agent'[content[f]].pc # "idle" /\ agent'[content[f]].specialist \in Specialists
                      /\ "write_hcl" \in ToolAllowList[agent'[content[f]].specialist]
    BY <1>1 DEF Written, MayUse
  <2>1. /\ agent[content[f]].pc # "idle" /\ agent[content[f]].specialist \in Specialists
        /\ "write_hcl" \in ToolAllowList[agent[content[f]].specialist]
    BY DEF LoopInv, Written, MayUse
  <2>2. content[f] \in Requests BY <1>2
  <2> QED BY <1>3, <2>1, <2>2
<1>9. Logged' BY <1>1 DEF Logged
<1> QED BY <1>5, <1>6, <1>7, <1>8, <1>9 DEF LoopInv

LEMMA LoopStart == LoopInit => LoopInv
<1> SUFFICES ASSUME LoopInit PROVE LoopInv OBVIOUS
<1>1. /\ agent = [r \in Requests |-> Idle] /\ content = [f \in SourceFiles |-> Nobody]
      /\ audit = <<>> /\ recorded = <<>>
  BY DEF LoopInit
<1>2. Idle \in Agents
  <2>1. PICK nothing : nothing = <<>> OBVIOUS
  <2>2. nothing \in Seq({"value", "error"}) BY <2>1, EmptySeq
  <2>3. nothing \in Batches
    <3>1. 0 \in 0 .. BatchCap + 1 BY LoopAssumption
    <3>2. nothing \in [1 .. 0 -> Called] BY <2>1
    <3> QED BY <3>1, <3>2 DEF Batches
  <2>4. Idle = [pc |-> "idle", specialist |-> "none", turn |-> 0, uses |-> nothing, results |-> nothing, failed |-> FALSE]
    BY <2>1 DEF Idle
  <2>5. 0 \in 0 .. MaxTurns BY LoopAssumption
  <2> QED BY <2>2, <2>3, <2>4, <2>5 DEF Agents
<1>3. LoopTypeOK
  <2>1. /\ audit \in Seq([request : Requests, specialist : {"none"} \union DOMAIN ToolAllowList, failed : BOOLEAN])
        /\ recorded \in Seq(Requests) /\ Len(audit) <= AuditSize
    BY <1>1, EmptySeq, LoopAssumption
  <2> QED BY <1>1, <1>2, <2>1 DEF LoopTypeOK, Agents, Specialists
<1>4. Routed /\ Batched
  <2>1. \A r \in Requests : agent[r].pc = "idle" /\ agent[r].turn = 0 BY <1>1 DEF Idle
  <2> QED BY <2>1 DEF Routed, Batched, OfBatch
<1>5. Written /\ Logged BY <1>1 DEF Written, Logged
<1> QED BY <1>3, <1>4, <1>5 DEF LoopInv

(* The reviewer, and every other specialist, stays within its tools: what  *)
(* was written, and what the model is told next, was allowed; and the log  *)
(* is the end of the history.                                              *)
THEOREM AgentsInLane == LoopInit /\ [][LoopNext]_loopVars => []AgentInLane
<1>1. LoopInv /\ [LoopNext]_loopVars => LoopInv'
  <2>1. LoopInv /\ UNCHANGED loopVars => LoopInv'
    BY DEF loopVars, LoopInv, LoopTypeOK, Routed, Written, Batched, OfBatch, InBatch, Runs, MayUse, Logged
  <2> QED BY <2>1, AskKeeps, TurnKeeps, ModelFailsKeeps, CallToolKeeps, RecordRequestKeeps, RestartServerKeeps DEF LoopNext
<1>2. LoopInv => AgentInLane
  <2> SUFFICES ASSUME LoopInv PROVE AgentInLane OBVIOUS
  <2> DEFINE n == Len(audit)
             m == Len(recorded)
             part == SubSeq(recorded, m - n + 1, m)
             requests == [i \in DOMAIN audit |-> audit[i].request]
  <2>1. \A f \in SourceFiles : content[f] # Nobody => "write_hcl" \in ToolAllowList[agent[content[f]].specialist]
    BY DEF LoopInv, Written, MayUse
  <2>2. \A r \in Requests : agent[r].pc = "model" /\ agent[r].turn > 0 =>
          /\ Len(agent[r].results) = (IF Len(agent[r].uses) > BatchCap THEN BatchCap ELSE Len(agent[r].uses))
          /\ \A i \in DOMAIN agent[r].results :
               agent[r].results[i] = "value" => agent[r].uses[i] \in ToolAllowList[agent[r].specialist]
    BY DEF LoopInv, Batched, OfBatch, InBatch, Runs, MayUse
  <2>3. /\ n \in Nat /\ DOMAIN audit = 1 .. n /\ m \in Nat /\ n <= m /\ recorded \in Seq(Requests)
        /\ \A i \in DOMAIN audit : audit[i].request = recorded[m - n + i]
    BY DEF LoopInv, LoopTypeOK, Logged
  <2> HIDE DEF n, m
  <2>4. requests = part
    <3>1. /\ m - n + 1 \in Int /\ m \in Int /\ m - (m - n + 1) + 1 = n /\ (m - n + 1 <= m <=> n > 0)
          /\ \A i \in 1 .. n : (m - n + 1) + i - 1 = m - n + i
      BY <2>3
    <3>2. \A i \in (m - n + 1) .. m : recorded[i] \in Requests
      <4>1. \A i \in (m - n + 1) .. m : i \in 1 .. m BY <2>3
      <4> QED BY <2>3, <4>1 DEF m
    <3>3. /\ part \in Seq(Requests) /\ Len(part) = n
          /\ \A i \in 1 .. n : part[i] = recorded[(m - n + 1) + i - 1]
      <4>1. /\ part \in Seq(Requests) /\ Len(part) = IF m - n + 1 <= m THEN m - (m - n + 1) + 1 ELSE 0
            /\ \A i \in 1 .. m - (m - n + 1) + 1 : part[i] = recorded[(m - n + 1) + i - 1]
        BY <3>1, <3>2, SubSeqProperties
      <4> QED BY <2>3, <3>1, <4>1
    <3>4. DOMAIN part = 1 .. n /\ part = [i \in 1 .. n |-> part[i]]
      <4> HIDE DEF part
      <4> QED BY <3>3, LenProperties
    <3>5. \A i \in 1 .. n : part[i] = audit[i].request BY <2>3, <3>1, <3>3
    <3> HIDE DEF part
    <3> QED BY <2>3, <3>4, <3>5
  <2>5. Len(audit) = AuditSize \/ Len(audit) = Len(recorded) BY DEF LoopInv, Logged
  <2> QED BY <2>1, <2>2, <2>4, <2>5 DEF AgentInLane, n, m
<1> QED BY LoopStart, <1>1, <1>2, PTL

(***************************************************************************)
(* The cloud connections.                                                  *)
(***************************************************************************)

Writing(r) == progress[r].pc \in {"rewrite", "commit"}

(* A secret is as it was in a file of old, or encrypted with the record's key. *)
EncodedWith(record, k) ==
  /\ Storable(record)
  /\ \A f \in DOMAIN record.secrets :
       \/ record.secrets[f].key = Nothing /\ record.secrets[f].value = Legacy /\ record.refs = {}
       \/ record.secrets[f].key = k /\ k # Nothing /\ (record.secrets[f].value = Legacy => record.refs # {})

(* Its key is the file's or one of an environment, and everybody's as long *)
(* as no two processes were started with different settings.               *)
Encoded(record) ==
  /\ \E k \in Passphrases \union {keyFile} : EncodedWith(record, k)
  /\ ~mixed => \A m \in Managers : EncodedWith(record, KeyOf(m))

RecordsEncoded == \A c \in Connections : Exists(c) => Encoded(records[c])
OwnKeys(m)     == {encryptKey[m], decryptKey[m]} \subseteq {Nothing, Failed, KeyOf(m)}
KeysAgree      ==
  /\ \A m \in Managers : OwnKeys(m)
  /\ ~mixed => /\ \A m, w \in Managers : environment[m] = environment[w]
               /\ \A m \in Managers : decryptKey[m] # Failed

(* A request that is about to write has the mutex of its manager and a     *)
(* snapshot, the current one unless somebody wrote across it.              *)
Migrated(record) == record.store = "other" \/ record.refs = DOMAIN record.secrets
Prepared == \A r \in ConnRequests : Writing(r) =>
              /\ mutationsMu[Manager(r)] = r /\ progress[r].snapshot \in Snapshots
              /\ \A c \in Connections : progress[r].snapshot[c] # NoRecord => Migrated(progress[r].snapshot[c])

IsCurrent(snapshot) == \A c \in Connections : snapshot[c] = IF Exists(c) THEN Loaded(records[c]) ELSE NoRecord
SnapshotsCurrent == ~crossed => \A r \in ConnRequests : Writing(r) => IsCurrent(progress[r].snapshot)

(* What a record holds is what was given last. *)
HasGiven(record, values) ==
  \A f \in Fields : values[f] = IF record # NoRecord /\ f \in DOMAIN record.secrets THEN record.secrets[f].value ELSE Nothing
GivenKept == ~crossed => \A c \in Connections : HasGiven(records[c], given[c])

ConnInv == ConnTypeOK /\ RecordsEncoded /\ KeysAgree /\ Prepared /\ SnapshotsCurrent /\ GivenKept

-----------------------------------------------------------------------------

(* A record is loaded and migrated without losing a value. *)
SameValues(record, other) ==
  /\ DOMAIN record.secrets = DOMAIN other.secrets
  /\ \A f \in DOMAIN record.secrets : record.secrets[f].value = other.secrets[f].value

LEMMA SecretMapping ==
  ASSUME NEW map
  PROVE  map \in SecretMaps <=> \E fields \in SUBSET Fields : map \in [fields -> Secret]
BY DEF SecretMaps

LEMMA RecordIsThere ==
  ASSUME NEW record \in ConnRecord
  PROVE  /\ record # NoRecord /\ record.method \in Methods /\ record.store \in Stores /\ record.refs \in SUBSET Fields
         /\ DOMAIN record.secrets \in SUBSET Fields /\ record.secrets \in [DOMAIN record.secrets -> Secret]
<1>1. record.secrets \in SecretMaps /\ record.method \in Methods BY DEF ConnRecord
<1>2. PICK fields \in SUBSET Fields : record.secrets \in [fields -> Secret] BY <1>1, SecretMapping
<1>3. NoRecord.method = Nothing BY DEF NoRecord
<1>4. record # NoRecord BY <1>1, <1>3, ConnectionAssumption
<1> QED BY <1>2, <1>4 DEF ConnRecord

LEMMA SecretsReplaced ==
  ASSUME NEW record \in ConnRecord, NEW map, map \in [DOMAIN record.secrets -> Secret]
  PROVE  /\ [record EXCEPT !.secrets = map] \in ConnRecord
         /\ [record EXCEPT !.secrets = map].secrets = map
         /\ [record EXCEPT !.secrets = map].refs = record.refs
         /\ [record EXCEPT !.secrets = map].store = record.store
         /\ [record EXCEPT !.secrets = map].method = record.method
<1>1. map \in SecretMaps BY RecordIsThere, SecretMapping
<1> QED BY <1>1 DEF ConnRecord

LEMMA WithRefsMigrates ==
  ASSUME NEW record \in ConnRecord
  PROVE  /\ WithRefs(record) \in ConnRecord /\ Migrated(WithRefs(record))
         /\ WithRefs(record).secrets = record.secrets /\ WithRefs(record).method = record.method
<1>1. CASE record.store = "other"
  <2>1. WithRefs(record) = record BY <1>1 DEF WithRefs
  <2> QED BY <1>1, <2>1 DEF Migrated
<1>2. CASE record.store # "other"
  <2>1. PICK store \in {"", "local_encrypted"} : store = IF DOMAIN record.secrets = {} THEN "" ELSE "local_encrypted"
    OBVIOUS
  <2>2. PICK refs \in SUBSET Fields : refs = DOMAIN record.secrets BY RecordIsThere
  <2> DEFINE new == [record EXCEPT !.store = store, !.refs = refs]
  <2>3. WithRefs(record) = new BY <1>2, <2>1, <2>2 DEF WithRefs
  <2>4. /\ new \in ConnRecord /\ new.secrets = record.secrets /\ new.method = record.method /\ new.refs = refs
    BY DEF ConnRecord, Stores
  <2> HIDE DEF new
  <2> QED BY <2>2, <2>3, <2>4 DEF Migrated
<1> QED BY <1>1, <1>2

LEMMA LoadedKeeps ==
  ASSUME NEW record \in ConnRecord
  PROVE  /\ Loaded(record) \in ConnRecord /\ Migrated(Loaded(record)) /\ SameValues(Loaded(record), record)
         /\ Loaded(record).method = record.method
<1> DEFINE map == Plain(record.secrets)
           new == [record EXCEPT !.secrets = map]
<1>1. record.secrets \in [DOMAIN record.secrets -> Secret] BY RecordIsThere
<1>2. /\ map \in [DOMAIN record.secrets -> Secret] /\ DOMAIN map = DOMAIN record.secrets
      /\ \A f \in DOMAIN record.secrets : map[f].value = record.secrets[f].value
  BY <1>1 DEF Plain, Cipher, Secret
<1> HIDE DEF map
<1>3. new \in ConnRecord /\ new.secrets = map /\ new.method = record.method BY <1>2, SecretsReplaced
<1>4. Loaded(record) = WithRefs(new) BY DEF Loaded, map
<1> HIDE DEF new
<1>5. Loaded(record) \in ConnRecord /\ Migrated(Loaded(record)) /\ Loaded(record).secrets = map /\ Loaded(record).method = record.method
  BY <1>3, <1>4, WithRefsMigrates
<1> QED BY <1>2, <1>5 DEF SameValues

(* A migrated record that the store takes is encoded with the key given. *)
LEMMA EncryptedEncodes ==
  ASSUME NEW record \in ConnRecord, Migrated(record), Storable(record), NEW k, NEW key,
         DOMAIN record.secrets # {} => k = key /\ k \in AnyKey
  PROVE  /\ Encrypted(record, k) \in ConnRecord /\ EncodedWith(Encrypted(record, k), key)
         /\ SameValues(Encrypted(record, k), record)
<1> DEFINE map == [f \in DOMAIN record.secrets |-> Cipher(record.secrets[f].value, k)]
           new == [record EXCEPT !.secrets = map]
<1>1. record.secrets \in [DOMAIN record.secrets -> Secret] /\ Nothing \notin AnyKey
  BY RecordIsThere, ConnectionAssumption DEF AnyKey
<1>2. /\ map \in [DOMAIN record.secrets -> Secret] /\ DOMAIN map = DOMAIN record.secrets
      /\ \A f \in DOMAIN record.secrets : map[f].value = record.secrets[f].value /\ map[f].key = k
  <2> SUFFICES ASSUME NEW f \in DOMAIN record.secrets
               PROVE  map[f] \in Secret /\ map[f].value = record.secrets[f].value /\ map[f].key = k
    OBVIOUS
  <2>1. record.secrets[f] \in Secret /\ k \in AnyKey BY <1>1
  <2> QED BY <2>1 DEF Cipher, Secret
<1>3. Encrypted(record, k) = new BY DEF Encrypted
<1> HIDE DEF map
<1>4. new \in ConnRecord /\ new.secrets = map /\ new.refs = record.refs /\ new.store = record.store
  BY <1>2, SecretsReplaced
<1> HIDE DEF new
<1>5. EncodedWith(new, key)
  <2> SUFFICES ASSUME NEW f \in DOMAIN record.secrets
               PROVE  new.secrets[f].key = key /\ key # Nothing /\ new.refs # {}
    BY <1>2, <1>4 DEF EncodedWith, Storable
  <2>1. record.store # "other" BY DEF Storable
  <2>2. record.refs = DOMAIN record.secrets BY <2>1 DEF Migrated
  <2> QED BY <1>1, <1>2, <1>4, <2>2
<1> QED BY <1>2, <1>3, <1>4, <1>5 DEF SameValues

-----------------------------------------------------------------------------

(* What a step may do to the keys: the file's key is never replaced, and   *)
(* an environment changes only at a start.                                 *)
KeysMove ==
  /\ keyFile' \in Keys \union {Nothing} /\ environment' \in [Managers -> Passphrases \union {Nothing}]
  /\ encryptKey' \in [Managers -> AnyKey \union {Nothing, Failed}]
  /\ decryptKey' \in [Managers -> AnyKey \union {Nothing, Failed}] /\ mixed' \in BOOLEAN
  /\ keyFile # Nothing => keyFile' = keyFile
  /\ ~mixed' => ~mixed /\ environment' = environment
  /\ KeysAgree'

EncodedNext(record) ==
  /\ \E k \in Passphrases \union {keyFile'} : EncodedWith(record, k)
  /\ ~mixed' => \A m \in Managers : EncodedWith(record, KeyOf(m)')

LEMMA KeysTyped ==
  ASSUME ConnInv
  PROVE  /\ keyFile \in Keys \union {Nothing} /\ environment \in [Managers -> Passphrases \union {Nothing}]
         /\ encryptKey \in [Managers -> AnyKey \union {Nothing, Failed}]
         /\ decryptKey \in [Managers -> AnyKey \union {Nothing, Failed}] /\ mixed \in BOOLEAN
         /\ Nothing \notin AnyKey \union {Failed} /\ Failed \notin AnyKey
         /\ Keys \subseteq AnyKey /\ Passphrases \subseteq AnyKey
BY ConnectionAssumption DEF ConnInv, ConnTypeOK, AnyKey

LEMMA KeyOfTyped ==
  ASSUME ConnInv, NEW m \in Managers
  PROVE  KeyOf(m) \in Passphrases \union {keyFile} /\ KeyOf(m) \in AnyKey \union {Nothing}
BY KeysTyped DEF KeyOf

LEMMA KeysStay ==
  ASSUME ConnInv, UNCHANGED keyVars
  PROVE  KeysMove
<1>1. UNCHANGED <<keyFile, environment, encryptKey, decryptKey, mixed>> BY DEF keyVars
<1>2. KeysAgree' BY <1>1 DEF ConnInv, KeysAgree, OwnKeys, KeyOf
<1> QED BY <1>1, <1>2, KeysTyped DEF KeysMove

(* While all processes agree, the key of an encrypted record is there.     *)
LEMMA DecryptKeyMoves ==
  ASSUME ConnInv, NEW m \in Managers, NEW cs \in SUBSET {c \in Connections : Exists(c)}, DecryptKey(m, cs)
  PROVE  KeysMove
<1>1. UNCHANGED <<keyFile, environment, encryptKey, mixed>> BY DEF DecryptKey
<1>2. PICK key : /\ decryptKey' = [decryptKey EXCEPT ![m] = key]
                 /\ key = IF decryptKey[m] # Nothing \/ ~\E c \in cs : IsEncrypted(c) THEN decryptKey[m]
                          ELSE IF KeyOf(m) = Nothing THEN Failed ELSE KeyOf(m)
  BY KeysTyped DEF DecryptKey
<1>3. key \in AnyKey \union {Nothing, Failed} BY <1>2, KeysTyped, KeyOfTyped
<1>4. \A w \in Managers : KeyOf(w)' = KeyOf(w) BY <1>1 DEF KeyOf
<1>5. \A w \in Managers : OwnKeys(w) BY DEF ConnInv, KeysAgree
<1>6. key \in {Nothing, Failed, KeyOf(m)} BY <1>2, <1>5 DEF OwnKeys
<1>7. \A w \in Managers : decryptKey'[w] = IF w = m THEN key ELSE decryptKey[w] BY <1>2, KeysTyped
<1>8. \A w \in Managers : OwnKeys(w)' BY <1>1, <1>4, <1>5, <1>6, <1>7 DEF OwnKeys
<1>9. ASSUME ~mixed PROVE key # Failed
  <2>1. decryptKey[m] # Failed BY <1>9 DEF ConnInv, KeysAgree
  <2>2. ASSUME NEW c \in cs, IsEncrypted(c) PROVE KeyOf(m) # Nothing
    <3>1. EncodedWith(records[c], KeyOf(m)) BY <1>9 DEF ConnInv, RecordsEncoded, Encoded
    <3> QED BY <2>2, <3>1 DEF IsEncrypted, EncodedWith
  <2>3. KeyOf(m) # Failed BY KeysTyped, KeyOfTyped
  <2> QED BY <1>2, <2>1, <2>2, <2>3
<1>10. KeysAgree' BY <1>1, <1>7, <1>8, <1>9 DEF ConnInv, KeysAgree
<1> QED BY <1>1, <1>2, <1>3, <1>10, KeysTyped DEF KeysMove

(* What a manager encrypts with is the key of its environment or the file's. *)
LEMMA FirstKeyMoves ==
  ASSUME ConnInv, NEW m \in Managers, FirstKey(m), UNCHANGED <<environment, decryptKey, mixed>>
  PROVE  KeysMove /\ encryptKey'[m] = KeyOf(m)' /\ encryptKey'[m] \in AnyKey
<1> DEFINE held == Kept(encryptKey[m], m)
<1>1. PICK k \in Keys : /\ held # Failed /\ keyFile' = IF held = Nothing THEN k ELSE keyFile
                        /\ encryptKey' = [encryptKey EXCEPT ![m] = IF held = Nothing THEN k ELSE held]
  BY DEF FirstKey
<1>2. \A w \in Managers : OwnKeys(w) BY DEF ConnInv, KeysAgree
<1>3. held \in {Failed, KeyOf(m)} BY <1>2 DEF Kept, OwnKeys
<1>4. held = KeyOf(m) BY <1>1, <1>3
<1>5. held = Nothing => keyFile = Nothing /\ environment[m] = Nothing BY <1>4 DEF KeyOf
<1>6. PICK key \in AnyKey : /\ encryptKey' = [encryptKey EXCEPT ![m] = key]
                            /\ key = IF held = Nothing THEN k ELSE held
  BY <1>1, <1>4, KeysTyped, KeyOfTyped
<1> HIDE DEF held
<1>7. keyFile # Nothing => keyFile' = keyFile BY <1>1, <1>5
<1>8. \A w \in Managers : KeyOf(w)' = KeyOf(w) \/ (KeyOf(w) = Nothing) BY <1>7 DEF KeyOf
<1>9. key = KeyOf(m)'
  <2>1. CASE held = Nothing BY <1>1, <1>5, <1>6, <2>1 DEF KeyOf
  <2>2. CASE held # Nothing BY <1>1, <1>4, <1>6, <2>2 DEF KeyOf
  <2> QED BY <2>1, <2>2
<1>10. \A w \in Managers : encryptKey'[w] = IF w = m THEN key ELSE encryptKey[w] BY <1>6, KeysTyped
<1>11. \A w \in Managers : OwnKeys(w)' BY <1>2, <1>8, <1>9, <1>10 DEF OwnKeys
<1>12. KeysAgree' BY <1>11 DEF ConnInv, KeysAgree
<1> QED BY <1>1, <1>6, <1>7, <1>9, <1>10, <1>12, KeysTyped DEF KeysMove

LEMMA WithKeyMoves ==
  ASSUME ConnInv, NEW m \in Managers, NEW needed \in BOOLEAN, WithKey(m, needed)
  PROVE  KeysMove /\ (needed => encryptKey'[m] = KeyOf(m)' /\ encryptKey'[m] \in AnyKey)
<1>1. CASE ~needed BY <1>1, KeysStay DEF WithKey, keyVars
<1>2. CASE needed BY <1>2, FirstKeyMoves DEF WithKey
<1> QED BY <1>1, <1>2

LEMMA KeyFailsMoves ==
  ASSUME ConnInv, NEW m \in Managers, KeyFails(m), UNCHANGED <<environment, decryptKey, mixed>>
  PROVE  KeysMove
<1>1. encryptKey' = [encryptKey EXCEPT ![m] = Failed] /\ keyFile' = keyFile BY DEF KeyFails
<1>2. \A w \in Managers : KeyOf(w)' = KeyOf(w) BY <1>1 DEF KeyOf
<1>3. \A w \in Managers : encryptKey'[w] \in {Failed, encryptKey[w]} BY <1>1, KeysTyped
<1>4. \A w \in Managers : OwnKeys(w)' BY <1>2, <1>3 DEF ConnInv, KeysAgree, OwnKeys
<1>5. KeysAgree' BY <1>4 DEF ConnInv, KeysAgree
<1> QED BY <1>1, <1>5, KeysTyped DEF KeysMove

LEMMA StillEncoded ==
  ASSUME ConnInv, KeysMove, NEW record, Encoded(record)
  PROVE  EncodedNext(record)
<1>1. EncodedWith(record, Nothing) => \A k : EncodedWith(record, k) BY DEF EncodedWith
<1>2. \E k \in Passphrases \union {keyFile'} : EncodedWith(record, k) BY <1>1 DEF Encoded, KeysMove
<1>3. ASSUME ~mixed', NEW m \in Managers PROVE EncodedWith(record, KeyOf(m)')
  <2>1. EncodedWith(record, KeyOf(m)) /\ environment' = environment BY <1>3 DEF Encoded, KeysMove
  <2> QED BY <1>1, <2>1 DEF KeysMove, KeyOf
<1> QED BY <1>2, <1>3 DEF EncodedNext

LEMMA NowEncoded ==
  ASSUME ConnInv, KeysMove, NEW m \in Managers, NEW record, EncodedWith(record, KeyOf(m)')
  PROVE  EncodedNext(record)
<1>1. KeyOf(m)' \in Passphrases \union {keyFile'} BY DEF KeysMove, KeyOf
<1>2. ~mixed' => \A w \in Managers : KeyOf(w)' = KeyOf(m)' BY DEF KeysMove, KeysAgree, KeyOf
<1> QED BY <1>1, <1>2 DEF EncodedNext

(* A step that writes no record keeps the invariant if who is about to     *)
(* write afterwards was so before, or has just taken its snapshot.         *)
LEMMA QuietKeeps ==
  ASSUME ConnInv, UNCHANGED <<records, given, crossed>>, KeysMove,
         progress' \in [ConnRequests -> Progress], mutationsMu' \in [Managers -> ConnRequests \union {Nothing}],
         \A q \in ConnRequests : Writing(q)' =>
           /\ mutationsMu'[Manager(q)'] = q
           /\ \/ Writing(q) /\ progress'[q].snapshot = progress[q].snapshot
              \/ progress'[q].snapshot = [c \in Connections |-> IF Exists(c) THEN Loaded(records[c]) ELSE NoRecord]
  PROVE  ConnInv'
<1>1. ConnTypeOK' BY DEF ConnInv, ConnTypeOK, KeysMove
<1>2. RecordsEncoded'
  <2>1. \A c \in Connections : Exists(c) => EncodedNext(records[c]) BY StillEncoded DEF ConnInv, RecordsEncoded
  <2> QED BY <2>1 DEF RecordsEncoded, Encoded, EncodedNext, Exists
<1>3. KeysAgree' BY DEF KeysMove
<1>4. \A c \in Connections : Exists(c) => Loaded(records[c]) \in ConnRecord /\ Migrated(Loaded(records[c]))
  BY LoadedKeeps DEF ConnInv, ConnTypeOK, Snapshots, Exists
<1>5. Prepared' /\ SnapshotsCurrent'
  <2> SUFFICES ASSUME NEW q \in ConnRequests, Writing(q)'
               PROVE  /\ mutationsMu'[Manager(q)'] = q /\ progress'[q].snapshot \in Snapshots
                      /\ \A c \in Connections : progress'[q].snapshot[c] # NoRecord => Migrated(progress'[q].snapshot[c])
                      /\ ~crossed => IsCurrent(progress'[q].snapshot)
    BY DEF Prepared, SnapshotsCurrent, IsCurrent, Exists
  <2>1. CASE Writing(q) /\ progress'[q].snapshot = progress[q].snapshot
    BY <2>1 DEF ConnInv, Prepared, SnapshotsCurrent
  <2>2. CASE progress'[q].snapshot = [c \in Connections |-> IF Exists(c) THEN Loaded(records[c]) ELSE NoRecord]
    BY <1>4, <2>2 DEF Snapshots, IsCurrent
  <2> QED BY <2>1, <2>2
<1>6. GivenKept' BY DEF ConnInv, GivenKept
<1> QED BY <1>1, <1>2, <1>3, <1>5, <1>6 DEF ConnInv

(* A step that writes ends the writing of its request. *)
LEMMA WriteKeeps ==
  ASSUME ConnInv, NEW r \in ConnRequests, Writing(r), KeysMove, Cross(r), Unlocked(r), NEW pc \in {"done", "load"}, At(r, pc),
         records' \in Snapshots, given' \in [Connections -> [Fields -> ConnRequests \union {Legacy, Nothing}]],
         \A c \in Connections : records'[c] # NoRecord => EncodedNext(records'[c]),
         ~crossed => \A c \in Connections : HasGiven(records'[c], given'[c])
  PROVE  ConnInv'
<1>1. /\ progress \in [ConnRequests -> Progress] /\ mutationsMu \in [Managers -> ConnRequests \union {Nothing}]
      /\ crossed \in BOOLEAN
  BY DEF ConnInv, ConnTypeOK
<1>2. /\ progress' \in [ConnRequests -> Progress] /\ progress'[r].pc = pc
      /\ \A q \in ConnRequests : q # r => progress'[q] = progress[q]
  <2> DEFINE p == [progress[r] EXCEPT !.pc = pc]
  <2>1. p \in Progress /\ p.pc = pc BY ZenonT(60), <1>1 DEF Progress
  <2>2. progress' = [progress EXCEPT ![r] = p] BY <1>1 DEF At
  <2> HIDE DEF p
  <2> QED BY <1>1, <2>1, <2>2
<1>3. \A q \in ConnRequests : Writing(q)' => q # r /\ Writing(q) BY <1>2 DEF Writing
<1>4. Manager(r) \in Managers BY <1>1 DEF Manager, Progress
<1>5. ConnTypeOK'
  <2>1. mutationsMu' \in [Managers -> ConnRequests \union {Nothing}] BY <1>1, <1>4 DEF Unlocked
  <2>2. crossed' \in BOOLEAN BY <1>1 DEF Cross
  <2> QED BY <1>2, <2>1, <2>2 DEF ConnTypeOK, KeysMove
<1>6. RecordsEncoded' /\ KeysAgree' BY DEF RecordsEncoded, Encoded, EncodedNext, Exists, KeysMove
<1>7. ASSUME NEW q \in ConnRequests, Writing(q)'
      PROVE  /\ q # r /\ Writing(q) /\ progress'[q] = progress[q] /\ Manager(q) # Manager(r)
             /\ mutationsMu'[Manager(q)] = q
  <2>1. q # r /\ Writing(q) /\ progress'[q] = progress[q] BY <1>2, <1>3, <1>7
  <2>2. mutationsMu[Manager(q)] = q /\ mutationsMu[Manager(r)] = r BY <2>1 DEF ConnInv, Prepared
  <2>3. Manager(q) # Manager(r) /\ Manager(q) \in Managers BY <1>1, <2>1, <2>2 DEF Manager, Progress
  <2>4. mutationsMu'[Manager(q)] = mutationsMu[Manager(q)] BY <1>1, <2>3 DEF Unlocked
  <2> QED BY <2>1, <2>2, <2>3, <2>4
<1>8. Prepared'
  <2> SUFFICES ASSUME NEW q \in ConnRequests, Writing(q)'
               PROVE  /\ mutationsMu'[Manager(q)'] = q /\ progress'[q].snapshot \in Snapshots
                      /\ \A c \in Connections : progress'[q].snapshot[c] # NoRecord => Migrated(progress'[q].snapshot[c])
    BY DEF Prepared
  <2>1. Manager(q)' = Manager(q) BY <1>7 DEF Manager
  <2> QED BY <1>7, <2>1 DEF ConnInv, Prepared
<1>9. SnapshotsCurrent'
  <2>1. ASSUME NEW q \in ConnRequests, Writing(q)' PROVE crossed' = TRUE
    <3>1. q # r /\ Writing(q) /\ Manager(q) # Manager(r) BY <1>7, <2>1
    <3> QED BY <1>1, <3>1 DEF Cross, Writing
  <2> QED BY <2>1 DEF SnapshotsCurrent
<1>10. GivenKept' BY <1>1 DEF GivenKept, Cross
<1> QED BY <1>5, <1>6, <1>8, <1>9, <1>10 DEF ConnInv

-----------------------------------------------------------------------------

LEMMA AtMoves ==
  ASSUME ConnInv, NEW r \in ConnRequests,
         NEW pc \in {"idle", "load", "migrate", "rewrite", "lock", "commit", "done", "failed"}, At(r, pc)
  PROVE  /\ progress' \in [ConnRequests -> Progress] /\ progress'[r].pc = pc
         /\ \A q \in ConnRequests : q # r => progress'[q] = progress[q]
<1> DEFINE p == [progress[r] EXCEPT !.pc = pc]
<1>1. progress \in [ConnRequests -> Progress] BY DEF ConnInv, ConnTypeOK
<1>2. p \in Progress /\ p.pc = pc BY <1>1 DEF Progress
<1>3. progress' = [progress EXCEPT ![r] = p] BY <1>1 DEF At
<1> HIDE DEF p
<1> QED BY <1>1, <1>2, <1>3

LEMMA ManagerTyped ==
  ASSUME ConnInv, NEW r \in ConnRequests
  PROVE  progress[r] \in Progress /\ Manager(r) \in Managers /\ progress[r].connection \in Connections
BY DEF ConnInv, ConnTypeOK, Manager, Progress

(* A request that comes to a place where it does not write. *)
LEMMA ArrivesKeeps ==
  ASSUME ConnInv, NEW r \in ConnRequests, NEW pc \in {"load", "migrate", "lock", "done", "failed"}, At(r, pc),
         UNCHANGED <<records, given, crossed, mutationsMu>>, KeysMove
  PROVE  ConnInv'
<1>1. /\ progress' \in [ConnRequests -> Progress] /\ progress'[r].pc = pc
      /\ \A q \in ConnRequests : q # r => progress'[q] = progress[q]
  BY AtMoves
<1>2. ASSUME NEW q \in ConnRequests, Writing(q)'
      PROVE  mutationsMu'[Manager(q)'] = q /\ Writing(q) /\ progress'[q].snapshot = progress[q].snapshot
  <2>1. progress'[q] = progress[q] BY <1>1, <1>2 DEF Writing
  <2>2. Manager(q)' = Manager(q) /\ Writing(q) BY <1>2, <2>1 DEF Manager, Writing
  <2> QED BY <2>1, <2>2 DEF ConnInv, Prepared
<1>3. mutationsMu' \in [Managers -> ConnRequests \union {Nothing}] BY DEF ConnInv, ConnTypeOK
<1> QED BY <1>1, <1>2, <1>3, QuietKeeps

LEMMA BeginKeeps ==
  ASSUME ConnInv, NEW r \in ConnRequests, Begin(r)
  PROVE  ConnInv'
<1>0. PICK m \in Managers, op \in {"create", "update", "delete", "list", "use"}, c \in Connections :
        \E method \in Methods, store \in Stores, values \in SUBSET Fields, refs \in SUBSET Fields :
          /\ Arrives(m, op, c, method, store, values, refs)
          /\ progress' = [progress EXCEPT ![r] =
               [@ EXCEPT !.op = IF op \in {"create", "update"} THEN "save" ELSE op,
                  !.pc = Starts(op, store, values), !.manager = m, !.connection = c, !.method = method, !.store = store,
                  !.values = values, !.refs = refs \intersect SecretFieldsOf(method)]]
  BY Zenon DEF Begin
<1>1. PICK method \in Methods, store \in Stores, values \in SUBSET Fields, refs \in SUBSET Fields :
        /\ Arrives(m, op, c, method, store, values, refs)
        /\ progress' = [progress EXCEPT ![r] =
             [@ EXCEPT !.op = IF op \in {"create", "update"} THEN "save" ELSE op,
                !.pc = Starts(op, store, values), !.manager = m, !.connection = c, !.method = method, !.store = store,
                !.values = values, !.refs = refs \intersect SecretFieldsOf(method)]]
  BY <1>0, Zenon
<1>2. PICK pc \in {"failed", "lock", "load"} : pc = Starts(op, store, values) BY DEF Starts
<1>3. PICK kind \in {"save", "delete", "list", "use"} : kind = IF op \in {"create", "update"} THEN "save" ELSE op
  OBVIOUS
<1>4. PICK fields \in SUBSET Fields : fields = refs \intersect SecretFieldsOf(method) OBVIOUS
<1> DEFINE p == [progress[r] EXCEPT !.op = kind, !.pc = pc, !.manager = m, !.connection = c, !.method = method,
                   !.store = store, !.values = values, !.refs = fields]
<1>5. progress[r] \in Progress /\ progress \in [ConnRequests -> Progress] BY DEF ConnInv, ConnTypeOK
<1>6. p \in Progress /\ p.pc = pc BY <1>5 DEF Progress
<1>7. progress' = [progress EXCEPT ![r] = p] BY <1>1, <1>2, <1>3, <1>4
<1> HIDE DEF p
<1>8. /\ progress' \in [ConnRequests -> Progress] /\ progress'[r].pc = pc
      /\ \A q \in ConnRequests : q # r => progress'[q] = progress[q]
  BY <1>5, <1>6, <1>7
<1>9. UNCHANGED <<records, keyVars, mutationsMu, given, crossed>> BY DEF Begin
<1>10. ASSUME NEW q \in ConnRequests, Writing(q)'
       PROVE  mutationsMu'[Manager(q)'] = q /\ Writing(q) /\ progress'[q].snapshot = progress[q].snapshot
  <2>1. progress'[q] = progress[q] BY <1>8, <1>10 DEF Writing
  <2>2. Manager(q)' = Manager(q) /\ Writing(q) BY <1>10, <2>1 DEF Manager, Writing
  <2> QED BY <1>9, <2>1, <2>2 DEF ConnInv, Prepared
<1>11. mutationsMu' \in [Managers -> ConnRequests \union {Nothing}] BY <1>9 DEF ConnInv, ConnTypeOK
<1> QED BY <1>8, <1>9, <1>10, <1>11, KeysStay, QuietKeeps

LEMMA ScopeExists ==
  ASSUME NEW r \in ConnRequests
  PROVE  /\ Scope(r) \in SUBSET {c \in Connections : Exists(c)}
         /\ ReadScope(r) \in SUBSET {c \in Connections : Exists(c)}
BY DEF Scope, ReadScope

LEMMA LoadKeeps ==
  ASSUME ConnInv, NEW r \in ConnRequests, Load(r)
  PROVE  ConnInv'
<1>1. UNCHANGED <<records, mutationsMu, given, crossed>> BY DEF Load
<1>2. \E pc \in {"load", "migrate", "lock", "done", "failed"} : At(r, pc) BY DEF Load
<1>3. KeysMove
  <2>1. DecryptKey(Manager(r), ReadScope(r)) BY DEF Load
  <2> QED BY <2>1, ManagerTyped, ScopeExists, DecryptKeyMoves
<1> QED BY <1>1, <1>2, <1>3, ArrivesKeeps

(* A request takes the mutex of its manager and a snapshot. *)
LEMMA TakesSnapshotKeeps ==
  ASSUME ConnInv, NEW r \in ConnRequests, NEW pc \in {"rewrite", "commit"}, mutationsMu[Manager(r)] = Nothing,
         mutationsMu' = [mutationsMu EXCEPT ![Manager(r)] = r],
         progress' = [progress EXCEPT ![r].pc = pc,
           ![r].snapshot = [c \in Connections |-> IF Exists(c) THEN Loaded(records[c]) ELSE NoRecord]],
         UNCHANGED <<records, given, crossed>>, KeysMove
  PROVE  ConnInv'
<1> DEFINE now == [c \in Connections |-> IF Exists(c) THEN Loaded(records[c]) ELSE NoRecord]
           p == [progress[r] EXCEPT !.pc = pc, !.snapshot = now]
<1>1. progress[r] \in Progress /\ progress \in [ConnRequests -> Progress] BY DEF ConnInv, ConnTypeOK
<1>2. now \in Snapshots BY LoadedKeeps DEF ConnInv, ConnTypeOK, Snapshots, Exists
<1>3. progress' = [progress EXCEPT ![r] = p] BY <1>1
<1> HIDE DEF now
<1>4. p \in Progress /\ p.snapshot = now /\ p.manager = Manager(r) BY <1>1, <1>2 DEF Progress, Manager
<1> HIDE DEF p
<1>5. /\ progress' \in [ConnRequests -> Progress] /\ progress'[r] = p
      /\ \A q \in ConnRequests : q # r => progress'[q] = progress[q]
  BY <1>1, <1>3, <1>4
<1>6. mutationsMu \in [Managers -> ConnRequests \union {Nothing}] /\ Manager(r) \in Managers /\ Nothing \notin ConnRequests
  BY ManagerTyped, ConnectionAssumption DEF ConnInv, ConnTypeOK
<1>7. mutationsMu' \in [Managers -> ConnRequests \union {Nothing}] BY <1>6
<1>8. ASSUME NEW q \in ConnRequests, Writing(q)'
      PROVE  /\ mutationsMu'[Manager(q)'] = q
             /\ (Writing(q) /\ progress'[q].snapshot = progress[q].snapshot) \/ progress'[q].snapshot = now
  <2>1. CASE q = r BY <1>4, <1>5, <1>6, <2>1 DEF Manager
  <2>2. CASE q # r
    <3>1. progress'[q] = progress[q] BY <1>5, <2>2
    <3>2. Manager(q)' = Manager(q) /\ Writing(q) BY <1>8, <3>1 DEF Manager, Writing
    <3>3. mutationsMu[Manager(q)] = q BY <3>2 DEF ConnInv, Prepared
    <3>4. Manager(q) # Manager(r) /\ Manager(q) \in Managers BY <1>6, <3>3, ManagerTyped
    <3> QED BY <1>6, <3>1, <3>2, <3>3, <3>4
  <2> QED BY <2>1, <2>2
<1> QED BY <1>5, <1>7, <1>8, QuietKeeps DEF now

LEMMA MigrateKeeps ==
  ASSUME ConnInv, NEW r \in ConnRequests, Migrate(r)
  PROVE  ConnInv'
<1>1. UNCHANGED <<records, given, crossed>> /\ KeysMove
  <2>1. DecryptKey(Manager(r), ReadScope(r)) BY DEF Migrate
  <2> QED BY <2>1, ManagerTyped, ScopeExists, DecryptKeyMoves DEF Migrate
<1>2. CASE UNCHANGED mutationsMu /\ \E pc \in {"failed", "done", "load"} : At(r, pc)
  BY <1>1, <1>2, ArrivesKeeps
<1>3. CASE /\ mutationsMu[Manager(r)] = Nothing /\ mutationsMu' = [mutationsMu EXCEPT ![Manager(r)] = r]
           /\ progress' = [progress EXCEPT ![r].pc = "rewrite",
                ![r].snapshot = [c \in Connections |-> IF Exists(c) THEN Loaded(records[c]) ELSE NoRecord]]
  BY <1>1, <1>3, TakesSnapshotKeeps
<1> QED BY <1>2, <1>3 DEF Migrate

LEMMA LockKeeps ==
  ASSUME ConnInv, NEW r \in ConnRequests, Lock(r)
  PROVE  ConnInv'
<1>1. UNCHANGED <<records, given, crossed>> /\ KeysMove
  <2>1. PICK cs \in {{}, Scope(r)} : DecryptKey(Manager(r), cs) BY DEF Lock
  <2> QED BY <2>1, ManagerTyped, ScopeExists, DecryptKeyMoves DEF Lock
<1>2. CASE At(r, "failed") /\ UNCHANGED mutationsMu BY <1>1, <1>2, ArrivesKeeps
<1>3. CASE /\ mutationsMu[Manager(r)] = Nothing /\ mutationsMu' = [mutationsMu EXCEPT ![Manager(r)] = r]
           /\ progress' = [progress EXCEPT ![r].pc = "commit",
                ![r].snapshot = [c \in Connections |-> IF Exists(c) THEN Loaded(records[c]) ELSE NoRecord]]
  BY <1>1, <1>3, TakesSnapshotKeeps
<1> QED BY <1>2, <1>3 DEF Lock

LEMMA FailKeeps ==
  ASSUME ConnInv, NEW r \in ConnRequests, Writing(r), Fail(r)
  PROVE  ConnInv'
<1>1. At(r, "failed") /\ Unlocked(r) /\ UNCHANGED <<records, given, crossed>> BY DEF Fail
<1>2. KeysMove
  <2>1. CASE \E keyed \in {FALSE, progress[r].op # "delete"} : WithKey(Manager(r), keyed)
    <3>1. PICK keyed \in BOOLEAN : WithKey(Manager(r), keyed) BY <2>1
    <3> QED BY <3>1, ManagerTyped, WithKeyMoves
  <2>2. CASE KeyFails(Manager(r)) /\ UNCHANGED <<environment, decryptKey, mixed>>
    BY <2>2, ManagerTyped, KeyFailsMoves
  <2> QED BY <2>1, <2>2 DEF Fail
<1>3. /\ progress' \in [ConnRequests -> Progress] /\ progress'[r].pc = "failed"
      /\ \A q \in ConnRequests : q # r => progress'[q] = progress[q]
  BY <1>1, AtMoves
<1>4. mutationsMu \in [Managers -> ConnRequests \union {Nothing}] /\ Manager(r) \in Managers
  BY ManagerTyped DEF ConnInv, ConnTypeOK
<1>5. mutationsMu' \in [Managers -> ConnRequests \union {Nothing}] BY <1>1, <1>4 DEF Unlocked
<1>6. ASSUME NEW q \in ConnRequests, Writing(q)'
      PROVE  mutationsMu'[Manager(q)'] = q /\ Writing(q) /\ progress'[q].snapshot = progress[q].snapshot
  <2>1. q # r /\ progress'[q] = progress[q] BY <1>3, <1>6 DEF Writing
  <2>2. Manager(q)' = Manager(q) /\ Writing(q) BY <1>6, <2>1 DEF Manager, Writing
  <2>3. mutationsMu[Manager(q)] = q /\ mutationsMu[Manager(r)] = r BY <2>2 DEF ConnInv, Prepared
  <2>4. Manager(q) # Manager(r) /\ Manager(q) \in Managers BY <2>1, <2>3, ManagerTyped
  <2>5. mutationsMu'[Manager(q)] = q BY <1>1, <1>4, <2>3, <2>4 DEF Unlocked
  <2> QED BY <2>1, <2>2, <2>5
<1> QED BY <1>1, <1>2, <1>3, <1>5, <1>6, QuietKeeps

(* Restart(m) of this module: a process ends and starts again. *)
LEMMA RestartKeeps ==
  ASSUME ConnInv, NEW m \in Managers, Restart(m)
  PROVE  ConnInv'
<1>1. /\ mutationsMu' = [mutationsMu EXCEPT ![m] = Nothing]
      /\ progress' = [r \in ConnRequests |-> IF Manager(r) = m /\ progress[r].pc \notin {"idle", "done"}
                                             THEN [progress[r] EXCEPT !.pc = "failed"] ELSE progress[r]]
      /\ UNCHANGED <<records, given, crossed>>
  BY DEF Restart
<1>2. /\ mutationsMu \in [Managers -> ConnRequests \union {Nothing}] /\ progress \in [ConnRequests -> Progress]
  BY DEF ConnInv, ConnTypeOK
<1>3. KeysMove
  <2>1. PICK k \in Passphrases \union {Nothing} :
          environment' = [environment EXCEPT ![m] = k] /\ mixed' = (mixed \/ k # environment[m])
    BY DEF Restart
  <2>2. /\ keyFile' = keyFile /\ encryptKey' = [encryptKey EXCEPT ![m] = Nothing]
        /\ decryptKey' = [decryptKey EXCEPT ![m] = Nothing]
    BY DEF Restart
  <2>3. mixed' \in BOOLEAN BY <2>1, KeysTyped
  <2>4. ~mixed' => ~mixed /\ environment' = environment BY <2>1, KeysTyped
  <2>5. \A w \in Managers : w # m => KeyOf(w)' = KeyOf(w) BY <2>1, <2>2, KeysTyped DEF KeyOf
  <2>6. \A w \in Managers : OwnKeys(w)' BY <2>2, <2>5, KeysTyped DEF ConnInv, KeysAgree, OwnKeys
  <2>7. \A w \in Managers : decryptKey'[w] \in {Nothing, decryptKey[w]} BY <2>2, KeysTyped
  <2>8. KeysAgree' BY <2>4, <2>6, <2>7, KeysTyped DEF ConnInv, KeysAgree
  <2> QED BY <2>1, <2>2, <2>3, <2>4, <2>8, KeysTyped DEF KeysMove
<1>4. mutationsMu' \in [Managers -> ConnRequests \union {Nothing}] BY <1>1, <1>2
<1>5. \A r \in ConnRequests : /\ progress'[r] \in Progress
                              /\ progress'[r] = progress[r] \/ (Manager(r) = m /\ progress'[r].pc = "failed")
                              /\ Manager(r) = m => ~Writing(r)'
  <2> SUFFICES ASSUME NEW r \in ConnRequests
               PROVE  /\ progress'[r] \in Progress
                      /\ progress'[r] = progress[r] \/ (Manager(r) = m /\ progress'[r].pc = "failed")
                      /\ Manager(r) = m => ~Writing(r)'
    OBVIOUS
  <2> DEFINE p == [progress[r] EXCEPT !.pc = "failed"]
  <2>1. p \in Progress /\ p.pc = "failed" BY <1>2 DEF Progress
  <2>2. progress'[r] = IF Manager(r) = m /\ progress[r].pc \notin {"idle", "done"} THEN p ELSE progress[r] BY <1>1
  <2> HIDE DEF p
  <2> QED BY <1>2, <2>1, <2>2 DEF Writing
<1>6. progress' \in [ConnRequests -> Progress] BY <1>1, <1>5
<1>7. ASSUME NEW q \in ConnRequests, Writing(q)'
      PROVE  mutationsMu'[Manager(q)'] = q /\ Writing(q) /\ progress'[q].snapshot = progress[q].snapshot
  <2>1. progress'[q] = progress[q] /\ Manager(q) # m BY <1>5, <1>7 DEF Writing
  <2>2. Manager(q)' = Manager(q) /\ Writing(q) BY <1>7, <2>1 DEF Manager, Writing
  <2>3. mutationsMu[Manager(q)] = q BY <2>2 DEF ConnInv, Prepared
  <2> QED BY <1>1, <1>2, <2>1, <2>2, <2>3, ManagerTyped
<1> QED BY <1>1, <1>3, <1>4, <1>6, <1>7, QuietKeeps

LEMMA SameGiven ==
  ASSUME NEW record, NEW other, record # NoRecord, other # NoRecord, SameValues(record, other),
         NEW values, HasGiven(other, values)
  PROVE  HasGiven(record, values)
BY DEF SameValues, HasGiven

(* What a writer holds. *)
LEMMA SnapshotHeld ==
  ASSUME ConnInv, NEW r \in ConnRequests, Writing(r), NEW c \in Connections
  PROVE  LET held == progress[r].snapshot[c] IN
         /\ held \in ConnRecord \union {NoRecord} /\ (held # NoRecord => held \in ConnRecord /\ Migrated(held))
         /\ ~crossed => /\ held = NoRecord <=> records[c] = NoRecord
                        /\ held # NoRecord => SameValues(held, records[c])
<1> DEFINE held == progress[r].snapshot[c]
<1>1. held \in ConnRecord \union {NoRecord} /\ (held # NoRecord => held \in ConnRecord /\ Migrated(held))
  BY DEF ConnInv, Prepared, Snapshots
<1>2. ASSUME ~crossed
      PROVE  (held = NoRecord <=> records[c] = NoRecord) /\ (held # NoRecord => SameValues(held, records[c]))
  <2>1. held = IF Exists(c) THEN Loaded(records[c]) ELSE NoRecord
    BY <1>2 DEF ConnInv, SnapshotsCurrent, IsCurrent
  <2>2. records[c] \in ConnRecord \union {NoRecord} BY DEF ConnInv, ConnTypeOK, Snapshots
  <2>3. CASE records[c] = NoRecord BY <2>1, <2>3 DEF Exists
  <2>4. CASE records[c] # NoRecord
    <3>1. records[c] \in ConnRecord BY <2>2, <2>4
    <3>2. held = Loaded(records[c]) BY <2>1, <2>4 DEF Exists
    <3>3. held \in ConnRecord /\ SameValues(held, records[c]) BY <3>1, <3>2, LoadedKeeps
    <3>4. held # NoRecord BY <3>3, RecordIsThere
    <3> QED BY <2>4, <3>3, <3>4
  <2> QED BY <2>3, <2>4
<1> QED BY <1>1, <1>2

LEMMA RewriteKeeps ==
  ASSUME ConnInv, NEW r \in ConnRequests, Rewrite(r)
  PROVE  ConnInv'
<1>0. PICK m \in Managers : m = Manager(r) BY ManagerTyped
<1> DEFINE snap == progress[r].snapshot
           mine == IF progress[r].op = "list" THEN Connections ELSE {progress[r].connection}
           needed == \E c \in mine : snap[c] # NoRecord /\ DOMAIN snap[c].secrets # {}
<1>1. Writing(r) BY DEF Rewrite, Writing
<1>2. CASE Fail(r) BY <1>1, <1>2, FailKeeps
<1>3. CASE /\ \A c \in mine : snap[c] # NoRecord => Storable(snap[c])
           /\ WithKey(m, needed)
           /\ records' = [c \in Connections |->
                IF c \notin mine THEN records[c]
                ELSE IF snap[c] = NoRecord THEN NoRecord ELSE Encrypted(snap[c], encryptKey'[m])]
           /\ At(r, IF progress[r].op = "list" THEN "done" ELSE "load") /\ Unlocked(r) /\ Cross(r)
           /\ UNCHANGED given
  <2>1. mine \subseteq Connections BY ManagerTyped
  <2>2. KeysMove /\ (needed => encryptKey'[m] = KeyOf(m)' /\ encryptKey'[m] \in AnyKey)
    BY <1>3, <2>1, WithKeyMoves
  <2>4. records \in Snapshots /\ given \in [Connections -> [Fields -> ConnRequests \union {Legacy, Nothing}]]
    BY DEF ConnInv, ConnTypeOK
  <2>5. ASSUME NEW c \in Connections
        PROVE  /\ records'[c] \in ConnRecord \union {NoRecord}
               /\ records'[c] # NoRecord => EncodedNext(records'[c])
               /\ ~crossed => HasGiven(records'[c], given'[c])
    <3>1. ~crossed => HasGiven(records[c], given'[c]) BY <1>3 DEF ConnInv, GivenKept
    <3>2. CASE c \notin mine
      <4>1. records'[c] = records[c] BY <1>3, <3>2
      <4>2. records'[c] # NoRecord => EncodedNext(records'[c])
        BY <2>2, <4>1, StillEncoded DEF ConnInv, RecordsEncoded, Exists
      <4>3. records'[c] \in ConnRecord \union {NoRecord} BY <2>4, <4>1 DEF Snapshots
      <4> QED BY <3>1, <4>1, <4>2, <4>3
    <3>3. CASE c \in mine /\ snap[c] = NoRecord
      <4>1. records'[c] = NoRecord BY <1>3, <3>3
      <4>2. ~crossed => records[c] = NoRecord BY <1>1, <3>3, SnapshotHeld
      <4> QED BY <3>1, <4>1, <4>2
    <3>4. CASE c \in mine /\ snap[c] # NoRecord
      <4> DEFINE held == snap[c]
      <4>1. records'[c] = Encrypted(held, encryptKey'[m]) BY <1>3, <3>4
      <4>2. held \in ConnRecord /\ Migrated(held) /\ (~crossed => records[c] # NoRecord /\ SameValues(held, records[c]))
        BY <1>1, <3>4, SnapshotHeld
      <4>3. Storable(held) /\ (DOMAIN held.secrets # {} => encryptKey'[m] = KeyOf(m)' /\ encryptKey'[m] \in AnyKey)
        BY <1>3, <2>2, <3>4
      <4> HIDE DEF held, needed
      <4>4. /\ records'[c] \in ConnRecord /\ EncodedWith(records'[c], KeyOf(m)') /\ SameValues(records'[c], held)
            /\ EncodedNext(records'[c])
        <5>1. PICK k, key : k = encryptKey'[m] /\ key = KeyOf(m)' OBVIOUS
        <5>2. records'[c] \in ConnRecord /\ EncodedWith(records'[c], key) /\ SameValues(records'[c], held)
          BY <4>1, <4>2, <4>3, <5>1, EncryptedEncodes
        <5> QED BY <2>1, <2>2, <5>1, <5>2, NowEncoded
      <4>5. records'[c] # NoRecord /\ held # NoRecord BY <4>2, <4>4, RecordIsThere
      <4>6. ~crossed => HasGiven(records'[c], given'[c]) BY <3>1, <4>2, <4>4, <4>5, SameGiven
      <4> QED BY <4>4, <4>6
    <3> QED BY <3>2, <3>3, <3>4
  <2>6. records' \in Snapshots
    <3>1. records' = [c \in Connections |-> records'[c]] BY <1>3
    <3> QED BY <2>5, <3>1 DEF Snapshots
  <2>7. \E pc \in {"done", "load"} : At(r, pc) BY <1>3
  <2> QED BY <1>1, <1>3, <2>2, <2>4, <2>5, <2>6, <2>7, WriteKeeps
<1> QED BY <1>0, <1>2, <1>3 DEF Rewrite

(* What a save stores: a migrated record with the submitted values, and    *)
(* the existing ones of the method where none was submitted.               *)
LEMMA InputSound ==
  ASSUME ConnInv, NEW r \in ConnRequests, NEW existing \in ConnRecord \union {NoRecord}
  PROVE  /\ Input(r, existing) \in ConnRecord /\ Migrated(Input(r, existing))
         /\ Input(r, existing).secrets = MergedSecrets(r, existing)
<1> DEFINE own == SecretFieldsOf(progress[r].method)
           old == IF existing = NoRecord THEN {} ELSE DOMAIN existing.secrets
           secrets == MergedSecrets(r, existing)
           kept == KeepsRefs(r, existing)
           store == IF kept THEN "other" ELSE progress[r].store
           refs == (IF kept THEN existing.refs \union progress[r].refs ELSE progress[r].refs) \intersect own
           record == [method |-> progress[r].method, secrets |-> secrets, store |-> store, refs |-> refs]
<1>1. /\ progress[r].method \in Methods /\ progress[r].store \in Stores
      /\ progress[r].values \in SUBSET Fields /\ progress[r].refs \in SUBSET Fields
  BY ManagerTyped DEF Progress
<1>2. own \subseteq Fields BY <1>1 DEF Fields
<1>3. \A f \in old : existing.secrets[f] \in Secret BY RecordIsThere
<1>4. Cipher(r, Nothing) \in Secret BY DEF Cipher, Secret
<1>5. secrets \in [(old \union progress[r].values) \intersect own -> Secret]
  BY <1>3, <1>4 DEF MergedSecrets
<1>6. secrets \in SecretMaps BY <1>2, <1>5, SecretMapping
<1>7. store \in Stores BY <1>1 DEF Stores
<1>8. refs \in SUBSET Fields BY <1>2
<1>9. record \in ConnRecord BY <1>1, <1>6, <1>7, <1>8 DEF ConnRecord
<1>10. record.secrets = secrets OBVIOUS
<1>11. Input(r, existing) = WithRefs(record) BY DEF Input
<1> HIDE DEF record
<1> QED BY <1>9, <1>10, <1>11, WithRefsMigrates

LEMMA CommitSaveKeeps ==
  ASSUME ConnInv, NEW r \in ConnRequests, CommitSave(r)
  PROVE  ConnInv'
<1>1. Writing(r) BY DEF CommitSave, Writing
<1>2. CASE Fail(r) BY <1>1, <1>2, FailKeeps
<1>0. PICK m \in Managers : m = Manager(r) BY ManagerTyped
<1> DEFINE c == progress[r].connection
           held == progress[r].snapshot[c]
           input == Input(r, held)
           own == SecretFieldsOf(progress[r].method)
           latest == [f \in Fields |-> IF f \notin own THEN Nothing ELSE IF f \in progress[r].values THEN r ELSE given[c][f]]
<1>3. CASE /\ Storable(input) /\ WithKey(m, DOMAIN input.secrets # {})
           /\ records' = [records EXCEPT ![c] = Encrypted(input, encryptKey'[m])]
           /\ given' = [given EXCEPT ![c] = latest]
           /\ At(r, "done") /\ Unlocked(r) /\ Cross(r)
  <2>1. c \in Connections BY ManagerTyped
  <2>2. /\ held \in ConnRecord \union {NoRecord}
        /\ ~crossed => (held = NoRecord <=> records[c] = NoRecord) /\ (held # NoRecord => SameValues(held, records[c]))
    BY <1>1, <2>1, SnapshotHeld
  <2>3. input \in ConnRecord /\ Migrated(input) /\ input.secrets = MergedSecrets(r, held) BY <2>2, InputSound
  <2>4. records \in Snapshots /\ given \in [Connections -> [Fields -> ConnRequests \union {Legacy, Nothing}]]
    BY DEF ConnInv, ConnTypeOK
  <2> HIDE DEF c, held, input
  <2>5. KeysMove /\ (DOMAIN input.secrets # {} => encryptKey'[m] = KeyOf(m)' /\ encryptKey'[m] \in AnyKey)
    BY <1>3, <2>1, WithKeyMoves
  <2>6. PICK k, key : k = encryptKey'[m] /\ key = KeyOf(m)' OBVIOUS
  <2>7. PICK new : new = Encrypted(input, k) OBVIOUS
  <2>8. new \in ConnRecord /\ EncodedNext(new) /\ SameValues(new, input)
    <3>1. new \in ConnRecord /\ EncodedWith(new, key) /\ SameValues(new, input)
      BY <1>3, <2>3, <2>5, <2>6, <2>7, EncryptedEncodes
    <3> QED BY <2>1, <2>5, <2>6, <3>1, NowEncoded
  <2>9. latest \in [Fields -> ConnRequests \union {Legacy, Nothing}] BY <2>1, <2>4
  <2>10. ~crossed => HasGiven(new, latest)
    <3> SUFFICES ASSUME ~crossed PROVE HasGiven(new, latest) OBVIOUS
    <3> DEFINE old == IF held = NoRecord THEN {} ELSE DOMAIN held.secrets
    <3>1. HasGiven(records[c], given[c]) BY <2>1 DEF ConnInv, GivenKept
    <3>2. \A f \in Fields : given[c][f] = IF f \in old THEN held.secrets[f].value ELSE Nothing
      BY <2>2, <3>1 DEF HasGiven, SameValues
    <3>3. input.secrets = [f \in (old \union progress[r].values) \intersect own |->
                            IF f \in progress[r].values THEN Cipher(r, Nothing) ELSE held.secrets[f]]
      BY <2>3 DEF MergedSecrets
    <3>4. DOMAIN input.secrets = (old \union progress[r].values) \intersect own BY <3>3
    <3>5. \A f \in DOMAIN input.secrets :
            input.secrets[f].value = IF f \in progress[r].values THEN r ELSE held.secrets[f].value
      BY <3>3, <3>4 DEF Cipher
    <3>6. new # NoRecord BY <2>8, RecordIsThere
    <3> HIDE DEF old
    <3>7. ASSUME NEW f \in Fields
          PROVE  latest[f] = IF f \in DOMAIN new.secrets THEN new.secrets[f].value ELSE Nothing
      <4>1. latest[f] = IF f \notin own THEN Nothing ELSE IF f \in progress[r].values THEN r ELSE given[c][f] OBVIOUS
      <4>2. /\ f \in DOMAIN new.secrets <=> f \in DOMAIN input.secrets
            /\ f \in DOMAIN new.secrets => new.secrets[f].value = input.secrets[f].value
        BY <2>8 DEF SameValues
      <4> HIDE DEF latest, own
      <4> QED BY <3>2, <3>4, <3>5, <4>1, <4>2
    <3> QED BY <3>6, <3>7 DEF HasGiven
  <2> HIDE DEF latest
  <2>11. /\ records' = [records EXCEPT ![c] = new] /\ given' = [given EXCEPT ![c] = latest]
         /\ records' \in Snapshots /\ given' \in [Connections -> [Fields -> ConnRequests \union {Legacy, Nothing}]]
    BY <1>3, <2>1, <2>4, <2>6, <2>7, <2>8, <2>9 DEF Snapshots
  <2>12. ASSUME NEW d \in Connections
         PROVE  /\ records'[d] # NoRecord => EncodedNext(records'[d])
                /\ ~crossed => HasGiven(records'[d], given'[d])
    <3>1. CASE d = c
      <4>1. records'[d] = new /\ given'[d] = latest BY <2>1, <2>4, <2>11, <3>1 DEF Snapshots
      <4> QED BY <2>8, <2>10, <4>1
    <3>2. CASE d # c
      <4>1. records'[d] = records[d] /\ given'[d] = given[d] BY <2>4, <2>11, <3>2 DEF Snapshots
      <4>2. records[d] # NoRecord => Encoded(records[d]) BY DEF ConnInv, RecordsEncoded, Exists
      <4>3. ~crossed => HasGiven(records[d], given[d]) BY DEF ConnInv, GivenKept
      <4> QED BY <2>5, <4>1, <4>2, <4>3, StillEncoded
    <3> QED BY <3>1, <3>2
  <2> QED BY <1>1, <1>3, <2>5, <2>11, <2>12, WriteKeeps
<1> QED BY <1>0, <1>2, <1>3 DEF CommitSave

LEMMA CommitDeleteKeeps ==
  ASSUME ConnInv, NEW r \in ConnRequests, CommitDelete(r)
  PROVE  ConnInv'
<1>1. Writing(r) BY DEF CommitDelete, Writing
<1>2. CASE Fail(r) BY <1>1, <1>2, FailKeeps
<1> DEFINE c == progress[r].connection
           none == [f \in Fields |-> Nothing]
<1>3. CASE /\ records' = [records EXCEPT ![c] = NoRecord] /\ given' = [given EXCEPT ![c] = none]
           /\ At(r, "done") /\ Unlocked(r) /\ Cross(r) /\ UNCHANGED keyVars
  <2>1. c \in Connections BY ManagerTyped
  <2>2. records \in Snapshots /\ given \in [Connections -> [Fields -> ConnRequests \union {Legacy, Nothing}]]
    BY DEF ConnInv, ConnTypeOK
  <2>3. KeysMove BY <1>3, KeysStay
  <2>4. none \in [Fields -> ConnRequests \union {Legacy, Nothing}] /\ HasGiven(NoRecord, none) BY DEF HasGiven
  <2> HIDE DEF c, none
  <2>5. records' \in Snapshots /\ given' \in [Connections -> [Fields -> ConnRequests \union {Legacy, Nothing}]]
    BY <1>3, <2>2, <2>4 DEF Snapshots
  <2>6. ASSUME NEW d \in Connections
        PROVE  /\ records'[d] # NoRecord => EncodedNext(records'[d])
               /\ ~crossed => HasGiven(records'[d], given'[d])
    <3>1. CASE d = c
      <4>1. records'[d] = NoRecord /\ given'[d] = none BY <1>3, <2>1, <2>2, <3>1 DEF Snapshots
      <4> QED BY <2>4, <4>1
    <3>2. CASE d # c
      <4>1. records'[d] = records[d] /\ given'[d] = given[d] BY <1>3, <2>2, <3>2 DEF Snapshots
      <4>2. records[d] # NoRecord => Encoded(records[d]) BY DEF ConnInv, RecordsEncoded, Exists
      <4>3. ~crossed => HasGiven(records[d], given[d]) BY DEF ConnInv, GivenKept
      <4> QED BY <2>3, <4>1, <4>2, <4>3, StillEncoded
    <3> QED BY <3>1, <3>2
  <2> QED BY <1>1, <1>3, <2>3, <2>5, <2>6, WriteKeeps
<1> QED BY <1>2, <1>3 DEF CommitDelete

LEMMA ConnStart == ConnInit => ConnInv
<1> SUFFICES ASSUME ConnInit PROVE ConnInv OBVIOUS
<1>1. PICK old \in BOOLEAN, method \in Methods, first \in Connections :
        LET secrets == [f \in SecretFieldsOf(method) |-> Cipher(Legacy, Nothing)] IN
        /\ records = [c \in Connections |-> IF old /\ c = first
             THEN [method |-> method, store |-> "", secrets |-> secrets, refs |-> {}] ELSE NoRecord]
        /\ given = [c \in Connections |-> [f \in Fields |->
             IF old /\ c = first /\ f \in SecretFieldsOf(method) THEN Legacy ELSE Nothing]]
  BY DEF ConnInit
<1> DEFINE own == SecretFieldsOf(method)
           secrets == [f \in own |-> Cipher(Legacy, Nothing)]
           record == [method |-> method, store |-> "", secrets |-> secrets, refs |-> {}]
<1>2. own \subseteq Fields BY DEF Fields
<1>3. secrets \in [own -> Secret] /\ \A f \in own : secrets[f].value = Legacy /\ secrets[f].key = Nothing
  BY DEF Cipher, Secret
<1>4. records = [c \in Connections |-> IF old /\ c = first THEN record ELSE NoRecord] BY <1>1
<1>5. record.secrets = secrets /\ record.refs = {} OBVIOUS
<1>6. record \in ConnRecord
  <2>1. secrets \in SecretMaps BY <1>2, <1>3, SecretMapping
  <2> HIDE DEF secrets
  <2> QED BY <2>1 DEF ConnRecord, Stores
<1>7. DOMAIN secrets = own BY <1>3
<1> HIDE DEF secrets, record
<1>8. record # NoRecord /\ \A k : EncodedWith(record, k)
  <2>1. record.store = "" BY DEF record
  <2> QED BY <1>3, <1>5, <1>6, <1>7, <2>1, RecordIsThere DEF EncodedWith, Storable
<1>9. /\ keyFile = Nothing /\ environment \in [Managers -> Passphrases \union {Nothing}]
      /\ mixed = \E m, w \in Managers : environment[m] # environment[w]
      /\ encryptKey = [m \in Managers |-> Nothing] /\ decryptKey = [m \in Managers |-> Nothing]
      /\ mutationsMu = [m \in Managers |-> Nothing] /\ crossed = FALSE /\ \A r \in ConnRequests : progress[r].pc = "idle"
  BY DEF ConnInit
<1>10. ConnTypeOK
  <2>1. records \in Snapshots BY <1>4, <1>6 DEF Snapshots
  <2>2. given \in [Connections -> [Fields -> ConnRequests \union {Legacy, Nothing}]] BY <1>1
  <2>3. progress \in [ConnRequests -> Progress]
    <3>1. PICK c \in Connections : c = CHOOSE x \in Connections : TRUE BY ConnectionAssumption
    <3>2. PICK x \in Methods : x = CHOOSE y \in Methods : TRUE BY ConnectionAssumption
    <3>3. PICK nothing \in {<<>>} : nothing = <<>> OBVIOUS
    <3>4. progress = [r \in ConnRequests |->
            [pc |-> "idle", op |-> "list", manager |-> Api, connection |-> c, method |-> x, store |-> "",
             values |-> {}, refs |-> {}, snapshot |-> nothing]]
      BY <3>1, <3>2, <3>3 DEF ConnInit
    <3>5. nothing \in Snapshots \union {<<>>} BY <3>3
    <3> QED BY <3>4, <3>5, ConnectionAssumption DEF Progress, Stores
  <2> QED BY <1>9, <2>1, <2>2, <2>3 DEF ConnTypeOK
<1>11. RecordsEncoded /\ KeysAgree
  <2>1. RecordsEncoded BY <1>4, <1>8, <1>9 DEF RecordsEncoded, Encoded, Exists
  <2>2. KeysAgree BY <1>9, ConnectionAssumption DEF KeysAgree, OwnKeys
  <2> QED BY <2>1, <2>2
<1>12. Prepared /\ SnapshotsCurrent BY <1>9 DEF Prepared, SnapshotsCurrent, Writing
<1>13. GivenKept
  <2> SUFFICES ASSUME NEW c \in Connections PROVE HasGiven(records[c], given[c]) BY DEF GivenKept
  <2>1. given[c] = [f \in Fields |-> IF old /\ c = first /\ f \in own THEN Legacy ELSE Nothing] BY <1>1
  <2>2. records[c] = IF old /\ c = first THEN record ELSE NoRecord BY <1>4
  <2>3. CASE old /\ c = first BY <1>3, <1>5, <1>7, <1>8, <2>1, <2>2, <2>3 DEF HasGiven
  <2>4. CASE ~(old /\ c = first) BY <2>1, <2>2, <2>4 DEF HasGiven
  <2> QED BY <2>3, <2>4
<1> QED BY <1>10, <1>11, <1>12, <1>13 DEF ConnInv

(* Whatever requests, migrations and restarts overlap, a record is         *)
(* encrypted as a whole with the key of the file or of an environment, all *)
(* processes can read it while they were started with the same setting,    *)
(* and it holds the values last given unless two processes wrote at the    *)
(* same time.                                                              *)
THEOREM GivenSecretsKept == ConnInit /\ [][ConnNext]_connVars => []ConnectionsKept
<1>1. ConnInv /\ [ConnNext]_connVars => ConnInv'
  <2>1. ASSUME ConnInv, UNCHANGED connVars PROVE ConnInv'
    <3>1. UNCHANGED <<records, keyVars, mutationsMu, progress, given, crossed>> BY <2>1 DEF connVars
    <3>2. /\ progress' \in [ConnRequests -> Progress] /\ mutationsMu' \in [Managers -> ConnRequests \union {Nothing}]
      BY <2>1, <3>1 DEF ConnInv, ConnTypeOK
    <3>3. ASSUME NEW q \in ConnRequests, Writing(q)'
          PROVE  mutationsMu'[Manager(q)'] = q /\ Writing(q) /\ progress'[q].snapshot = progress[q].snapshot
      <4>1. Manager(q)' = Manager(q) /\ Writing(q) BY <3>1, <3>3 DEF Manager, Writing
      <4> QED BY <2>1, <3>1, <4>1 DEF ConnInv, Prepared
    <3> QED BY <2>1, <3>1, <3>2, <3>3, KeysStay, QuietKeeps
  <2> QED BY <2>1, BeginKeeps, LoadKeeps, MigrateKeeps, RewriteKeeps, LockKeeps, CommitSaveKeeps,
             CommitDeleteKeeps, RestartKeeps DEF ConnNext
<1>2. ConnInv => ConnectionsKept
  <2> SUFFICES ASSUME ConnInv PROVE ConnectionsKept OBVIOUS
  <2>1. ASSUME NEW c \in Connections, Exists(c)
        PROVE  /\ \E k \in Passphrases \union {keyFile} :
                    \A f \in DOMAIN records[c].secrets : \/ k # Nothing /\ records[c].secrets[f].key = k
                                                         \/ records[c].secrets[f].value = Legacy /\ records[c].refs = {}
               /\ ~mixed => \A m \in Managers : Loadable(m, records[c])
    <3>1. Encoded(records[c]) BY <2>1 DEF ConnInv, RecordsEncoded
    <3>2. PICK k \in Passphrases \union {keyFile} : EncodedWith(records[c], k) BY <3>1 DEF Encoded
    <3>3. ASSUME ~mixed, NEW m \in Managers PROVE Loadable(m, records[c])
      <4>1. EncodedWith(records[c], KeyOf(m)) BY <3>1, <3>3 DEF Encoded
      <4>2. decryptKey[m] \in {Nothing, KeyOf(m)} BY <3>3 DEF ConnInv, KeysAgree, OwnKeys
      <4>3. Kept(decryptKey[m], m) = KeyOf(m) BY <4>2 DEF Kept
      <4> QED BY <4>1, <4>3 DEF Loadable, EncodedWith, Storable
    <3> QED BY <3>2, <3>3 DEF EncodedWith
  <2>2. \A m \in Managers : {encryptKey[m], decryptKey[m]} \subseteq {Nothing, Failed, KeyOf(m)}
    BY DEF ConnInv, KeysAgree, OwnKeys
  <2>3. ASSUME ~crossed, NEW c \in Connections, Exists(c)
        PROVE  /\ \A f \in Fields : given[c][f] = IF f \in DOMAIN records[c].secrets THEN records[c].secrets[f].value ELSE Nothing
               /\ Missing(c) = {f \in Required(records[c].method) : given[c][f] = Nothing}
    <3>1. \A f \in Fields : given[c][f] = IF f \in DOMAIN records[c].secrets THEN records[c].secrets[f].value ELSE Nothing
      BY <2>3 DEF ConnInv, GivenKept, HasGiven, Exists
    <3>2. records[c] \in ConnRecord BY <2>3 DEF ConnInv, ConnTypeOK, Snapshots, Exists
    <3>3. /\ records[c].method \in Methods /\ records[c].secrets \in [DOMAIN records[c].secrets -> Secret]
      BY <3>2, RecordIsThere
    <3>4. \A f \in DOMAIN records[c].secrets : records[c].secrets[f].value # Nothing
      BY <3>3, ConnectionAssumption DEF Secret
    <3>5. Required(records[c].method) \subseteq Fields BY <3>3 DEF Required, Fields
    <3> QED BY <3>1, <3>4, <3>5 DEF Missing
  <2> QED BY <2>1, <2>2, <2>3 DEF ConnectionsKept
<1> QED BY ConnStart, <1>1, <1>2, PTL

(***************************************************************************)
(* The MCP server.                                                         *)
(***************************************************************************)

IsCall(n)  == lines[n].kind = "call" /\ lines[n].name # "unknown"

(* The records of a call: one, unless it is known to have none, and each   *)
(* tells what the call did.                                                *)
OneEntry(n)   == n \notin unlogged => \E i \in DOMAIN auditLog : EntriesOf(n) = {i}
NoEntry(n)    == n \in unlogged => EntriesOf(n) = {}
TrueEntries(n) == \A i \in EntriesOf(n) : Truthful(auditLog[i].entry, n)
Accounted(n) == OneEntry(n) /\ NoEntry(n) /\ TrueEntries(n)

Answered == \A n \in DOMAIN answers : IsCall(n) => Accounted(n) /\ (n \in unlogged => answers[n] # "result")

(* While a call is handled it is the last line, and nothing is known of it *)
(* before the step that says so.                                           *)
InHand ==
  stage # "read" =>
    /\ serving /\ Len(lines) # 0 /\ IsCall(Len(lines))
    /\ stage # "answer" => EntriesOf(Len(lines)) = {} /\ Len(lines) \notin unlogged
    /\ stage \in {"call", "draft"} => Len(lines) \notin branches
    /\ stage = "draft" => DraftCall(Len(lines))
    /\ stage = "audit" => Truthful(entry, Len(lines))
    /\ stage = "answer" => Accounted(Len(lines)) /\ (Len(lines) \in unlogged => entry.answer # "result")

OneAnswerEach == Len(answers) = IF stage = "read" THEN Len(lines) ELSE Len(lines) - 1
PastLines == \A i \in DOMAIN auditLog : auditLog[i].line \in DOMAIN lines
Drafted ==
  /\ \A p \in McpProjects : drafts[p] > 0 => \E n \in DOMAIN lines : lines[n].project = p /\ DraftCall(n)
  /\ \A n \in branches : n \in DOMAIN lines /\ DraftCall(n)
PlansAsked == \A p \in planFiles : \E n \in DOMAIN lines : lines[n].project = p /\ lines[n].name = "generate_plan"

McpInv == McpTypeOK /\ InHand /\ OneAnswerEach /\ PastLines /\ Drafted /\ PlansAsked /\ Answered

-----------------------------------------------------------------------------

LEMMA OutcomesRecorded ==
  ASSUME NEW call \in Line, call.name # "unknown", NEW asked \in Asked, NEW o \in Outcomes(call, asked)
  PROVE  o \in AuditRecord /\ o.mutated = FALSE /\ (o.approved => call.token # NoToken)
<1> DEFINE Known(x) == x \in AuditRecord /\ x.mutated = FALSE /\ (x.approved => call.token # NoToken)
<1>1. \A x \in {Fails, Outcome("error", "blocked", FALSE, FALSE), Done("allowed"), Done("proposal_generated"),
                Done("runbook_generated"), Outcome("result", "approval_required", TRUE, FALSE)} : Known(x)
  <2>1. \A decision \in {"error", "blocked", "allowed", "approval_required", "proposal_generated", "runbook_generated"},
           answer \in {"result", "error"}, required \in BOOLEAN : Known(Outcome(answer, decision, required, FALSE))
    BY DEF Outcome, AuditRecord
  <2>2. /\ Known(Fails) /\ Known(Outcome("error", "blocked", FALSE, FALSE))
        /\ Known(Outcome("result", "approval_required", TRUE, FALSE))
    BY <2>1 DEF Fails
  <2>3. Known(Done("allowed")) /\ Known(Done("proposal_generated")) /\ Known(Done("runbook_generated"))
    BY <2>1 DEF Done
  <2> HIDE DEF Known
  <2> QED BY <2>2, <2>3
<1>2. Approved(call.token) =>
        /\ Known(Outcome("result", "allowed", TRUE, TRUE)) /\ Known(Outcome("result", "approved_handoff_required", TRUE, TRUE))
        /\ Known([Fails EXCEPT !.required = TRUE, !.approved = TRUE])
  BY DEF Fails, Outcome, AuditRecord, Approved
<1> HIDE DEF Known
<1>3. Known(o)
  BY <1>1, <1>2 DEF Outcomes, Listed, Inspected, Planned, Scanned, ProposedChange, ProposedRemediation, Runbook,
     AirlockCalled, HighRisk, Line, ToolNames, Reads, Proposals, Risky
<1> QED BY <1>3 DEF Known

(* What is said of a call stays while neither its line nor its records nor *)
(* its membership of the two histories change.                             *)
LEMMA SameCall ==
  ASSUME NEW n, McpTypeOK, IsCall(n)', n \in DOMAIN lines, lines'[n] = lines[n], auditLog' = auditLog,
         (n \in branches)' <=> n \in branches, (n \in unlogged)' <=> n \in unlogged, Accounted(n)
  PROVE  Accounted(n)'
<1>1. EntriesOf(n)' = EntriesOf(n) BY DEF EntriesOf
<1> QED BY <1>1 DEF Accounted, OneEntry, NoEntry, TrueEntries, Truthful

LEMMA AnsweredCallsKept ==
  ASSUME McpInv, auditLog' = auditLog, answers' = answers,
         \A n \in DOMAIN answers : /\ n \in DOMAIN lines /\ lines'[n] = lines[n]
                                   /\ (n \in branches)' <=> n \in branches
                                   /\ (n \in unlogged)' <=> n \in unlogged
  PROVE  Answered'
<1> SUFFICES ASSUME NEW n \in DOMAIN answers, IsCall(n)'
             PROVE  Accounted(n)' /\ ((n \in unlogged)' => answers'[n] # "result")
  BY DEF Answered
<1>1. IsCall(n) BY DEF IsCall
<1>2. Accounted(n) /\ (n \in unlogged => answers[n] # "result") BY <1>1 DEF McpInv, Answered
<1>3. Accounted(n)' BY <1>2, SameCall DEF McpInv
<1> QED BY <1>2, <1>3

LEMMA McpStart == McpInit => McpInv
<1> SUFFICES ASSUME McpInit PROVE McpInv OBVIOUS
<1>1. Fails \in AuditRecord BY DEF Fails, Outcome, AuditRecord
<1>2. McpTypeOK BY <1>1 DEF McpInit, McpTypeOK
<1>3. InHand /\ OneAnswerEach /\ PastLines /\ Drafted /\ PlansAsked /\ Answered
  BY DEF McpInit, InHand, OneAnswerEach, PastLines, Drafted, PlansAsked, Answered
<1> QED BY <1>2, <1>3 DEF McpInv

LEMMA ReadLineKeeps ==
  ASSUME McpInv, ReadLine
  PROVE  McpInv'
<1> USE DEF McpInv
<1>1. PICK line \in Line :
        /\ lines' = Append(lines, line)
        /\ IF line.kind = "call" /\ line.name # "unknown" THEN stage' = "call" /\ UNCHANGED answers
           ELSE /\ stage' = stage
                /\ Answer(CASE line.kind = "notification" -> "nothing" [] line.kind = "ping" -> "result" [] OTHER -> "error")
  BY DEF ReadLine
<1>2. /\ stage = "read" /\ serving
      /\ UNCHANGED <<approvalToken, descriptor, serving, entry, auditLog, drafts, planFiles, branches, unlogged>>
  BY DEF ReadLine
<1>0. PICK last \in Nat \ {0} : last = Len(lines) + 1 BY DEF McpTypeOK
<1>3. /\ lines \in Seq(Line) /\ lines' \in Seq(Line) /\ Len(lines) \in Nat /\ Len(lines') = last /\ lines'[last] = line
      /\ DOMAIN lines = 1 .. Len(lines) /\ DOMAIN lines' = 1 .. last
      /\ \A n \in DOMAIN lines : n \in DOMAIN lines' /\ lines'[n] = lines[n]
  BY <1>0, <1>1 DEF McpTypeOK
<1>4. last \notin DOMAIN lines /\ last \notin branches /\ last \notin unlogged /\ EntriesOf(last)' = {}
  BY <1>0, <1>2, <1>3 DEF McpTypeOK, PastLines, EntriesOf
<1>5. answers \in Seq({"result", "error", "nothing"}) /\ DOMAIN answers = DOMAIN lines /\ Len(answers) = Len(lines)
  BY <1>2, <1>3 DEF OneAnswerEach, McpTypeOK
<1>6. PastLines' /\ Drafted' /\ PlansAsked'
  <2>1. PastLines' BY <1>2, <1>3 DEF PastLines
  <2>2. Drafted' BY <1>2, <1>3 DEF Drafted, DraftCall
  <2>3. PlansAsked' BY <1>2, <1>3 DEF PlansAsked
  <2> QED BY <2>1, <2>2, <2>3
<1>7. (branches \union unlogged \subseteq DOMAIN lines)' BY <1>2, <1>3 DEF McpTypeOK
<1>8. CASE line.kind = "call" /\ line.name # "unknown"
  <2>1. stage' = "call" /\ answers' = answers BY <1>1, <1>8
  <2>2. McpTypeOK' BY <1>2, <1>3, <1>7, <2>1 DEF McpTypeOK
  <2>3. OneAnswerEach'
    <3>1. Len(answers') = Len(lines') - 1 /\ stage' # "read" BY <1>0, <1>3, <1>5, <2>1
    <3> QED BY <3>1 DEF OneAnswerEach
  <2>4. InHand'
    <3>1. IsCall(last)' /\ last # 0 BY <1>3, <1>8 DEF IsCall
    <3>2. serving' /\ last \notin branches' /\ last \notin unlogged' BY <1>2, <1>4
    <3> QED BY <1>3, <1>4, <2>1, <3>1, <3>2 DEF InHand
  <2>5. Answered' BY <1>2, <1>3, <1>5, <2>1, AnsweredCallsKept
  <2> QED BY <1>6, <2>2, <2>3, <2>4, <2>5
<1>9. CASE ~(line.kind = "call" /\ line.name # "unknown")
  <2>1. PICK what \in {"result", "error", "nothing"} : stage' = "read" /\ answers' = Append(answers, what)
    BY <1>1, <1>2, <1>9 DEF Answer
  <2>2. /\ answers' \in Seq({"result", "error", "nothing"}) /\ Len(answers') = last /\ DOMAIN answers' = 1 .. last
        /\ \A n \in DOMAIN lines : answers'[n] = answers[n]
    BY <1>0, <1>5, <2>1, <1>3
  <2>3. McpTypeOK' BY <1>2, <1>3, <1>7, <2>1, <2>2 DEF McpTypeOK
  <2>4. OneAnswerEach' /\ InHand' BY <1>3, <2>1, <2>2 DEF OneAnswerEach, InHand
  <2>5. Answered'
    <3> SUFFICES ASSUME NEW n \in 1 .. last, IsCall(n)'
                 PROVE  Accounted(n)' /\ ((n \in unlogged)' => answers'[n] # "result")
      BY <2>2 DEF Answered
    <3>1. n # last BY <1>3, <1>9 DEF IsCall
    <3>2. n \in DOMAIN lines BY <3>1, <1>0, <1>3
    <3>3. IsCall(n) BY <3>2, <1>3 DEF IsCall
    <3>4. Accounted(n) /\ (n \in unlogged => answers[n] # "result") BY <3>2, <3>3, <1>5 DEF Answered
    <3>5. Accounted(n)' BY <3>2, <3>4, <1>2, <1>3, SameCall
    <3> QED BY <1>2, <2>2, <3>2, <3>4, <3>5
  <2> QED BY <1>6, <2>3, <2>4, <2>5
<1> QED BY <1>8, <1>9

LEMMA LastLine ==
  ASSUME McpInv, stage # "read", NEW n, n = Len(lines)
  PROVE  /\ n \in DOMAIN lines /\ n \in Nat \ {0} /\ IsCall(n) /\ lines[n] \in Line /\ Current = lines[n]
         /\ DOMAIN answers = 1 .. (n - 1) /\ Len(answers) = n - 1 /\ DOMAIN lines = 1 .. n
         /\ \A m \in DOMAIN answers : m \in DOMAIN lines /\ m # n
<1> USE DEF McpInv
<1>1. lines \in Seq(Line) /\ n \in Nat /\ DOMAIN lines = 1 .. n BY DEF McpTypeOK
<1>2. n # 0 /\ IsCall(n) BY DEF InHand
<1>3. n \in DOMAIN lines /\ lines[n] \in Line /\ Current = lines[n] BY <1>1, <1>2 DEF Current
<1>4. Len(answers) = n - 1 BY DEF OneAnswerEach
<1>5. DOMAIN answers = 1 .. (n - 1) BY <1>4 DEF McpTypeOK
<1> QED BY <1>1, <1>2, <1>3, <1>4, <1>5

(* The parts of the invariant that no handler changes. *)
LEMMA HandlerKeeps ==
  ASSUME McpInv, stage # "read", stage' # "read",
         UNCHANGED <<approvalToken, descriptor, serving, lines, auditLog, answers, unlogged>>,
         branches' \in {branches, branches \union {Len(lines)}}, planFiles' \subseteq McpProjects,
         stage' \in {"call", "draft", "audit"}, entry' \in AuditRecord, drafts' \in [McpProjects -> 0 .. 3]
  PROVE  McpTypeOK' /\ OneAnswerEach' /\ PastLines' /\ Answered'
<1> USE DEF McpInv
<1>1. PICK n : n = Len(lines) OBVIOUS
<1>2. n \in DOMAIN lines /\ \A m \in DOMAIN answers : m \in DOMAIN lines /\ m # n BY <1>1, LastLine
<1>3. McpTypeOK' BY <1>1, <1>2 DEF McpTypeOK
<1>4. OneAnswerEach' /\ PastLines' BY DEF OneAnswerEach, PastLines
<1>5. \A m \in DOMAIN answers : (m \in branches)' <=> m \in branches BY <1>1, <1>2
<1>6. Answered' BY <1>2, <1>5, AnsweredCallsKept
<1> QED BY <1>3, <1>4, <1>6

(* A handler that only answers, or writes a plan file for a call that asks *)
(* for a plan.                                                             *)
LEMMA OutcomeKeeps ==
  ASSUME McpInv, stage = "call", NEW asked \in Asked, NEW outcome \in Outcomes(Current, asked), Conclude(outcome),
         UNCHANGED <<approvalToken, descriptor, serving, lines, auditLog, answers, drafts, branches, unlogged>>,
         planFiles' = planFiles \/ (planFiles' = planFiles \union {Current.project} /\ Current.name = "generate_plan")
  PROVE  McpInv'
<1> USE DEF McpInv
<1>1. entry' = outcome /\ stage' = "audit" BY DEF Conclude
<1>3. PICK n : n = Len(lines) OBVIOUS
<1>4. n \in DOMAIN lines /\ IsCall(n) /\ lines[n] \in Line /\ Current = lines[n] BY <1>3, LastLine
<1>5. entry' \in AuditRecord /\ entry'.mutated = FALSE /\ (entry'.approved => lines[n].token # NoToken)
  BY <1>1, <1>4, OutcomesRecorded DEF IsCall
<1>6. McpTypeOK' /\ OneAnswerEach' /\ PastLines' /\ Answered'
  <2>1. drafts' \in [McpProjects -> 0 .. 3] BY DEF McpTypeOK
  <2>2. planFiles' \subseteq McpProjects BY <1>4 DEF McpTypeOK, Line
  <2> QED BY <1>1, <1>5, <2>1, <2>2, HandlerKeeps
<1>7. Drafted' BY DEF Drafted, DraftCall
<1>9. PlansAsked' BY <1>4 DEF PlansAsked
<1>8. InHand'
  <2>1. serving /\ n # 0 /\ IsCall(n) /\ EntriesOf(n) = {} /\ n \notin unlogged /\ n \notin branches
    BY <1>3 DEF InHand
  <2>2. IsCall(n)' /\ EntriesOf(n)' = {} BY <2>1 DEF IsCall, EntriesOf
  <2>3. Len(lines)' = n /\ Len(lines') = n BY <1>3
  <2>4. Truthful(entry, n)' BY <1>5, <2>1 DEF Truthful
  <2> QED BY <1>1, <2>1, <2>2, <2>3, <2>4 DEF InHand
<1> QED BY <1>6, <1>7, <1>8, <1>9

LEMMA HandleKeeps ==
  ASSUME McpInv, Handle
  PROVE  McpInv'
<1>1. PICK asked \in Asked : \E outcome \in Outcomes(Current, asked) : Conclude(outcome)
  BY DEF Handle
<1>2. PICK outcome \in Outcomes(Current, asked) : Conclude(outcome)
  BY <1>1
<1> QED BY <1>2, OutcomeKeeps DEF Handle

LEMMA GeneratePlanKeeps ==
  ASSUME McpInv, GeneratePlan
  PROVE  McpInv'
<1>1. PICK asked \in Asked, written \in BOOLEAN :
        \E outcome \in Outcomes(Current, asked) :
          /\ planFiles' = IF written THEN planFiles \union {Current.project} ELSE planFiles
          /\ Conclude(outcome)
  BY DEF GeneratePlan
<1>2. PICK outcome \in Outcomes(Current, asked) :
        /\ planFiles' = IF written THEN planFiles \union {Current.project} ELSE planFiles
        /\ Conclude(outcome)
  BY <1>1
<1> QED BY <1>2, OutcomeKeeps DEF GeneratePlan

LEMMA BeginDraftKeeps ==
  ASSUME McpInv, BeginDraft
  PROVE  McpInv'
<1> USE DEF McpInv
<1>1. /\ stage = "call" /\ stage' = "draft" /\ drafts' = [drafts EXCEPT ![Current.project] = 0]
      /\ UNCHANGED <<approvalToken, descriptor, serving, lines, entry, auditLog, answers, planFiles, branches, unlogged>>
  BY DEF BeginDraft
<1>2. PICK n : n = Len(lines) OBVIOUS
<1>3. n \in DOMAIN lines /\ lines[n] \in Line /\ Current = lines[n] BY <1>1, <1>2, LastLine
<1>4. DraftCall(n) /\ Current.project \in McpProjects
  BY <1>3 DEF BeginDraft, Approved, DraftCall, Line
<1>5. /\ drafts' \in [McpProjects -> 0 .. 3] /\ drafts \in [McpProjects -> 0 .. 3]
      /\ \A p \in McpProjects : drafts'[p] > 0 => drafts[p] > 0
  BY <1>1, <1>4 DEF McpTypeOK
<1>6. McpTypeOK' /\ OneAnswerEach' /\ PastLines' /\ Answered'
  <2>1. entry' \in AuditRecord /\ planFiles' \subseteq McpProjects BY <1>1 DEF McpTypeOK
  <2> QED BY <1>1, <1>5, <2>1, HandlerKeeps
<1>7. Drafted' /\ PlansAsked' BY <1>1, <1>5 DEF Drafted, DraftCall, PlansAsked
<1>8. InHand'
  <2>1. serving /\ n # 0 /\ IsCall(n) /\ EntriesOf(n) = {} /\ n \notin unlogged /\ n \notin branches
    BY <1>1, <1>2 DEF InHand
  <2>2. IsCall(n)' /\ EntriesOf(n)' = {} /\ DraftCall(n)' BY <1>1, <1>4, <2>1 DEF IsCall, EntriesOf, DraftCall
  <2>3. Len(lines') = n BY <1>1, <1>2
  <2> QED BY <1>1, <2>1, <2>2, <2>3 DEF InHand
<1> QED BY <1>6, <1>7, <1>8

LEMMA WriteDraftKeeps ==
  ASSUME McpInv, WriteDraft
  PROVE  McpInv'
<1> USE DEF McpInv
<1>1. /\ stage = "draft" /\ drafts[Current.project] < 3 /\ drafts' = [drafts EXCEPT ![Current.project] = @ + 1]
      /\ UNCHANGED <<approvalToken, descriptor, serving, stage, lines, entry, auditLog, answers, planFiles, branches, unlogged>>
  BY DEF WriteDraft
<1>2. PICK n : n = Len(lines) OBVIOUS
<1>3. n \in DOMAIN lines /\ lines[n] \in Line /\ Current = lines[n] BY <1>1, <1>2, LastLine
<1>4. DraftCall(n) /\ Current.project \in McpProjects BY <1>1, <1>2, <1>3 DEF InHand, Line
<1>5. /\ drafts' \in [McpProjects -> 0 .. 3] /\ drafts \in [McpProjects -> 0 .. 3]
      /\ \A p \in McpProjects : p # Current.project => drafts'[p] = drafts[p]
  <2>1. PICK q \in McpProjects : q = Current.project BY <1>4
  <2>2. drafts \in [McpProjects -> 0 .. 3] BY DEF McpTypeOK
  <2>3. drafts[q] + 1 \in 0 .. 3 BY <1>1, <2>1, <2>2
  <2>4. drafts' = [drafts EXCEPT ![q] = drafts[q] + 1] BY <1>1, <2>1
  <2> QED BY <2>1, <2>2, <2>3, <2>4
<1>6. McpTypeOK' /\ OneAnswerEach' /\ PastLines' /\ Answered'
  <2>1. entry' \in AuditRecord /\ planFiles' \subseteq McpProjects BY <1>1 DEF McpTypeOK
  <2> QED BY <1>1, <1>5, <2>1, HandlerKeeps
<1>9. PlansAsked' BY <1>1 DEF PlansAsked
<1>7. Drafted'
  <2> SUFFICES ASSUME NEW p \in McpProjects, drafts'[p] > 0
               PROVE  \E m \in DOMAIN lines : lines[m].project = p /\ DraftCall(m)
    BY <1>1 DEF Drafted, DraftCall
  <2>1. CASE p = Current.project BY <1>3, <1>4, <2>1
  <2>2. CASE p # Current.project BY <1>5, <2>2 DEF Drafted
  <2> QED BY <2>1, <2>2
<1>8. InHand' BY <1>1 DEF InHand, IsCall, DraftCall, EntriesOf, Accounted, OneEntry, NoEntry, TrueEntries, Truthful
<1> QED BY <1>6, <1>7, <1>8, <1>9

LEMMA DraftEnds ==
  ASSUME McpInv, HandOff \/ DraftFails
  PROVE  McpInv'
<1> USE DEF McpInv
<1>1. /\ stage = "draft" /\ stage' = "audit"
      /\ UNCHANGED <<approvalToken, descriptor, serving, lines, auditLog, answers, drafts, planFiles, unlogged>>
  BY DEF HandOff, DraftFails, Conclude
<1>2. PICK n : n = Len(lines) OBVIOUS
<1>3. /\ n \in DOMAIN lines /\ serving /\ n # 0 /\ IsCall(n) /\ EntriesOf(n) = {} /\ n \notin unlogged /\ n \notin branches
      /\ DraftCall(n)
  BY <1>1, <1>2, LastLine DEF InHand
<1>4. /\ entry' \in AuditRecord /\ branches' \in {branches, branches \union {n}} /\ entry'.approved
      /\ entry'.mutated => n \in branches'
      /\ entry'.mutated \/ entry'.decision = "error"
  <2>1. CASE HandOff BY <1>2, <2>1 DEF HandOff, Conclude, Outcome, AuditRecord
  <2>2. CASE DraftFails
    <3>1. branches' \in {branches, branches \union {n}} BY <1>2, <2>2 DEF DraftFails
    <3> QED BY <2>2, <3>1 DEF DraftFails, Conclude, Outcome, Fails, AuditRecord
  <2> QED BY <2>1, <2>2
<1>5. McpTypeOK' /\ OneAnswerEach' /\ PastLines' /\ Answered'
  <2>1. drafts' \in [McpProjects -> 0 .. 3] /\ planFiles' \subseteq McpProjects BY <1>1 DEF McpTypeOK
  <2> QED BY <1>1, <1>2, <1>4, <2>1, HandlerKeeps
<1>6. Drafted' /\ PlansAsked' BY <1>1, <1>3, <1>4 DEF Drafted, DraftCall, PlansAsked
<1>7. InHand'
  <2>1. IsCall(n)' /\ EntriesOf(n)' = {} BY <1>1, <1>3 DEF IsCall, EntriesOf
  <2>2. Len(lines') = n BY <1>1, <1>2
  <2>3. Truthful(entry, n)' BY <1>1, <1>3, <1>4 DEF Truthful, DraftCall
  <2> QED BY <1>1, <1>3, <2>1, <2>2, <2>3 DEF InHand
<1> QED BY <1>5, <1>6, <1>7

(* One record is appended, or the call is known to have none. *)
LEMMA AppendAuditKeeps ==
  ASSUME McpInv, AppendAudit
  PROVE  McpInv'
<1> USE DEF McpInv
<1>1. /\ serving /\ stage = "audit" /\ stage' = "answer"
      /\ UNCHANGED <<approvalToken, descriptor, serving, lines, answers, drafts, planFiles, branches>>
  BY DEF AppendAudit
<1>2. PICK n : n = Len(lines) OBVIOUS
<1>3. /\ n \in DOMAIN lines /\ n \in Nat /\ IsCall(n) /\ DOMAIN lines = 1 .. n /\ n # 0
      /\ \A m \in DOMAIN answers : m \in DOMAIN lines /\ m # n
  BY <1>1, <1>2, LastLine
<1>4. EntriesOf(n) = {} /\ n \notin unlogged /\ Truthful(entry, n)
  BY <1>1, <1>2 DEF InHand
<1>5. OneAnswerEach' /\ Drafted' /\ PlansAsked' BY <1>1 DEF OneAnswerEach, Drafted, DraftCall, PlansAsked
<1>6. IsCall(n)' /\ serving' /\ Len(lines') = n /\ lines'[n] = lines[n] BY <1>1, <1>2, <1>3 DEF IsCall
<1>7. CASE auditLog' = Append(auditLog, [line |-> n, entry |-> entry]) /\ UNCHANGED <<entry, unlogged>>
  <2> DEFINE r == [line |-> n, entry |-> entry]
  <2>1. /\ auditLog \in Seq([line : Nat, entry : AuditRecord]) /\ r \in [line : Nat, entry : AuditRecord]
        /\ r.line = n /\ r.entry = entry
    BY <1>3 DEF McpTypeOK
  <2> HIDE DEF r
  <2>2. PICK k \in Nat : k = Len(auditLog) + 1 /\ auditLog' = Append(auditLog, r) BY <1>7, <2>1 DEF r
  <2>3. /\ auditLog' \in Seq([line : Nat, entry : AuditRecord]) /\ auditLog'[k] = r
        /\ DOMAIN auditLog' = DOMAIN auditLog \union {k} /\ k \notin DOMAIN auditLog
        /\ \A j \in DOMAIN auditLog : auditLog'[j] = auditLog[j]
    BY <2>1, <2>2
  <2>4. EntriesOf(n)' = {k} BY <1>4, <2>1, <2>3 DEF EntriesOf
  <2>5. \A m : m # n => EntriesOf(m)' = EntriesOf(m) BY <2>1, <2>3 DEF EntriesOf
  <2>6. McpTypeOK' BY <1>1, <1>7, <2>3 DEF McpTypeOK
  <2>7. PastLines' BY <1>1, <1>3, <2>1, <2>3 DEF PastLines
  <2>8. Accounted(n)'
    <3>1. OneEntry(n)' BY <2>3, <2>4 DEF OneEntry
    <3>2. NoEntry(n)' BY <1>4, <1>7 DEF NoEntry
    <3>3. TrueEntries(n)' BY <1>1, <1>4, <2>1, <2>3, <2>4 DEF TrueEntries, Truthful
    <3> QED BY <3>1, <3>2, <3>3 DEF Accounted
  <2>9. InHand' BY <1>1, <1>3, <1>4, <1>6, <1>7, <2>8 DEF InHand
  <2>10. Answered'
    <3> SUFFICES ASSUME NEW m \in DOMAIN answers, IsCall(m)'
                 PROVE  Accounted(m)' /\ ((m \in unlogged)' => answers'[m] # "result")
      BY <1>1 DEF Answered
    <3>1. m # n BY <1>3
    <3>2. Accounted(m) /\ (m \in unlogged => answers[m] # "result") BY <1>1 DEF Answered, IsCall
    <3>3. EntriesOf(m)' = EntriesOf(m) BY <2>5, <3>1
    <3>4. \A j \in EntriesOf(m) : auditLog'[j] = auditLog[j] BY <2>3 DEF EntriesOf
    <3>5. OneEntry(m)' BY <1>7, <2>3, <3>2, <3>3 DEF Accounted, OneEntry
    <3>6. NoEntry(m)' BY <1>7, <3>2, <3>3 DEF Accounted, NoEntry
    <3>7. TrueEntries(m)' BY <1>1, <3>2, <3>3, <3>4 DEF Accounted, TrueEntries, Truthful
    <3> QED BY <1>1, <1>7, <3>2, <3>5, <3>6, <3>7 DEF Accounted
  <2> QED BY <1>5, <2>6, <2>7, <2>9, <2>10
<1>8. CASE /\ entry' = [entry EXCEPT !.answer = "error"] /\ unlogged' = unlogged \union {n}
           /\ UNCHANGED auditLog
  <2>1. entry' \in AuditRecord /\ entry'.answer = "error" BY <1>8 DEF McpTypeOK, AuditRecord
  <2>2. McpTypeOK' BY <1>1, <1>3, <1>8, <2>1 DEF McpTypeOK
  <2>3. PastLines' BY <1>1, <1>8 DEF PastLines
  <2>4. Accounted(n)'
    <3>1. EntriesOf(n)' = {} /\ n \in unlogged' BY <1>4, <1>8 DEF EntriesOf
    <3> QED BY <3>1 DEF Accounted, OneEntry, NoEntry, TrueEntries
  <2>5. InHand' BY <1>1, <1>3, <1>4, <1>6, <2>1, <2>4 DEF InHand
  <2>6. \A m \in DOMAIN answers : (m \in unlogged)' <=> m \in unlogged BY <1>3, <1>8
  <2>7. Answered' BY <1>1, <1>3, <1>8, <2>6, AnsweredCallsKept
  <2> QED BY <1>5, <2>2, <2>3, <2>5, <2>7
<1> QED BY <1>2, <1>7, <1>8 DEF AppendAudit

(* A call has ended: what it was answered, and what is known of it, is as  *)
(* the invariant says of an answered call.                                 *)
LEMMA CallEnds ==
  ASSUME McpInv, NEW what \in {"result", "error", "nothing"}, stage # "read", stage' = "read",
         UNCHANGED <<approvalToken, descriptor, lines, entry, auditLog, drafts, planFiles, branches>>,
         answers' = Append(answers, what), serving' \in BOOLEAN, unlogged' \in {unlogged, unlogged \union {Len(lines)}},
         Accounted(Len(lines))', (Len(lines) \in unlogged)' => what # "result"
  PROVE  McpInv'
<1> USE DEF McpInv
<1>1. PICK n : n = Len(lines) OBVIOUS
<1>2. /\ n \in DOMAIN lines /\ n \in Nat \ {0} /\ DOMAIN answers = 1 .. (n - 1) /\ Len(answers) = n - 1
      /\ \A m \in DOMAIN answers : m \in DOMAIN lines /\ m # n
  BY <1>1, LastLine
<1>3. /\ answers' \in Seq({"result", "error", "nothing"}) /\ Len(answers') = n
      /\ DOMAIN answers' = DOMAIN answers \union {n} /\ answers'[n] = what
      /\ \A m \in DOMAIN answers : answers'[m] = answers[m]
  BY <1>2 DEF McpTypeOK
<1>4. unlogged' \subseteq DOMAIN lines /\ \A m \in DOMAIN answers : (m \in unlogged)' <=> m \in unlogged
  BY <1>1, <1>2 DEF McpTypeOK
<1>5. McpTypeOK' BY <1>3, <1>4 DEF McpTypeOK
<1>6. OneAnswerEach' BY <1>1, <1>3 DEF OneAnswerEach
<1>7. InHand' /\ PastLines' /\ Drafted' /\ PlansAsked' BY DEF InHand, PastLines, Drafted, DraftCall, PlansAsked
<1>8. Answered'
  <2> SUFFICES ASSUME NEW m \in DOMAIN answers', IsCall(m)'
               PROVE  Accounted(m)' /\ ((m \in unlogged)' => answers'[m] # "result")
    BY DEF Answered
  <2>1. CASE m = n
    <3>1. Len(lines') = n BY <1>1
    <3> QED BY <1>1, <1>3, <2>1, <3>1
  <2>2. CASE m # n
    <3>1. m \in DOMAIN answers /\ IsCall(m) BY <1>3, <2>2 DEF IsCall
    <3>2. Accounted(m) /\ (m \in unlogged => answers[m] # "result") BY <3>1 DEF Answered
    <3>3. Accounted(m)' BY <1>2, <1>4, <3>1, <3>2, SameCall
    <3> QED BY <1>3, <1>4, <3>1, <3>2, <3>3
  <2> QED BY <2>1, <2>2
<1> QED BY <1>5, <1>6, <1>7, <1>8

LEMMA WriteAnswerKeeps ==
  ASSUME McpInv, WriteAnswer
  PROVE  McpInv'
<1>1. /\ stage = "answer" /\ stage' = "read" /\ answers' = Append(answers, entry.answer)
      /\ UNCHANGED <<approvalToken, descriptor, serving, lines, entry, auditLog, drafts, planFiles, branches, unlogged>>
  BY DEF WriteAnswer, Answer
<1>2. entry.answer \in {"result", "error", "nothing"} /\ serving' \in BOOLEAN BY <1>1 DEF McpInv, McpTypeOK, AuditRecord
<1>3. Accounted(Len(lines)) /\ (Len(lines) \in unlogged => entry.answer # "result")
  BY <1>1 DEF McpInv, InHand
<1>4. Accounted(Len(lines))' /\ ((Len(lines) \in unlogged)' => entry.answer # "result")
  BY <1>1, <1>3 DEF Accounted, OneEntry, NoEntry, TrueEntries, Truthful, EntriesOf
<1> QED BY <1>1, <1>2, <1>4, CallEnds

LEMMA KillKeeps ==
  ASSUME McpInv, Kill
  PROVE  McpInv'
<1>1. /\ serving' = FALSE /\ stage' = "read"
      /\ UNCHANGED <<approvalToken, descriptor, lines, entry, auditLog, drafts, planFiles, branches>>
  BY DEF Kill
<1>2. CASE stage = "read"
  <2>1. UNCHANGED <<stage, answers, unlogged>> BY <1>1, <1>2 DEF Kill
  <2>2. McpTypeOK' /\ InHand' /\ OneAnswerEach' /\ PastLines'
    BY <1>1, <1>2, <2>1 DEF McpInv, McpTypeOK, InHand, OneAnswerEach, PastLines
  <2>4. Drafted' /\ PlansAsked'
    BY <1>1 DEF McpInv, Drafted, DraftCall, PlansAsked
  <2>3. Answered'
    BY <1>1, <2>1 DEF McpInv, Answered, IsCall, Accounted, OneEntry, NoEntry, TrueEntries, Truthful, EntriesOf
  <2> QED BY <2>2, <2>3, <2>4 DEF McpInv
<1>3. CASE stage = "answer"
  <2>1. answers' = Append(answers, "nothing") /\ unlogged' = unlogged BY <1>3 DEF Kill
  <2>2. Accounted(Len(lines)) BY <1>3 DEF McpInv, InHand
  <2>3. Accounted(Len(lines))'
    BY <1>1, <2>1, <2>2 DEF Accounted, OneEntry, NoEntry, TrueEntries, Truthful, EntriesOf
  <2> QED BY <1>1, <1>3, <2>1, <2>3, CallEnds
<1>4. CASE stage \in {"call", "draft", "audit"}
  <2>1. answers' = Append(answers, "nothing") /\ unlogged' = unlogged \union {Len(lines)} BY <1>4 DEF Kill
  <2>2. EntriesOf(Len(lines)) = {} BY <1>4 DEF McpInv, InHand
  <2>3. EntriesOf(Len(lines))' = {} /\ Len(lines') \in unlogged' BY <1>1, <2>1, <2>2 DEF EntriesOf
  <2>4. Accounted(Len(lines))' BY <2>3 DEF Accounted, OneEntry, NoEntry, TrueEntries
  <2> QED BY <1>1, <1>4, <2>1, <2>4, CallEnds
<1> QED BY <1>2, <1>3, <1>4 DEF McpInv, McpTypeOK

LEMMA ServeKeeps ==
  ASSUME McpInv, Serve
  PROVE  McpInv'
<1>1. /\ serving' = TRUE /\ approvalToken' \in Tokens \union {NoToken}
      /\ UNCHANGED <<descriptor, stage, lines, entry, auditLog, answers, drafts, planFiles, branches, unlogged>>
  BY DEF Serve
<1>2. stage = "read" BY DEF Serve, McpInv, InHand
<1>3. McpTypeOK' /\ InHand' /\ OneAnswerEach' /\ PastLines' /\ Drafted' /\ PlansAsked'
  BY <1>1, <1>2 DEF McpInv, McpTypeOK, InHand, OneAnswerEach, PastLines, Drafted, DraftCall, PlansAsked
<1>4. Answered'
  BY <1>1 DEF McpInv, Answered, IsCall, Accounted, OneEntry, NoEntry, TrueEntries, Truthful, EntriesOf
<1> QED BY <1>3, <1>4 DEF McpInv

LEMMA McpSilent ==
  ASSUME McpInv, UNCHANGED mcpVars
  PROVE  McpInv'
<1>1. McpTypeOK' /\ OneAnswerEach' /\ PastLines'
  BY DEF mcpVars, McpInv, McpTypeOK, OneAnswerEach, PastLines
<1>2. Drafted' /\ PlansAsked'
  BY DEF mcpVars, McpInv, Drafted, DraftCall, PlansAsked
<1>3. InHand'
  BY DEF mcpVars, McpInv, InHand, DraftCall, IsCall, Accounted, OneEntry, NoEntry, TrueEntries, Truthful, EntriesOf
<1>4. Answered'
  BY DEF mcpVars, McpInv, Answered, IsCall, Accounted, OneEntry, NoEntry, TrueEntries, Truthful, EntriesOf
<1> QED BY <1>1, <1>2, <1>3, <1>4 DEF McpInv

(* Artifacts and branches appear by calls that carried a token, plan files *)
(* by calls for a plan; an answered call has exactly one record, unless    *)
(* the log could not be written, and then it is not answered with a        *)
(* result; what a record says of a branch is so, but for that of an        *)
(* approved call that failed.                                              *)
THEOREM CallsAccounted == McpInit /\ [][McpNext]_mcpVars => []McpAccountable
<1>1. McpInv /\ [McpNext]_mcpVars => McpInv'
  BY ReadLineKeeps, HandleKeeps, GeneratePlanKeeps, BeginDraftKeeps, WriteDraftKeeps, DraftEnds, AppendAuditKeeps,
     WriteAnswerKeeps, KillKeeps, ServeKeeps, McpSilent DEF McpNext
<1>2. McpInv => McpAccountable
  <2> SUFFICES ASSUME McpInv PROVE McpAccountable OBVIOUS
  <2>1. /\ \A p \in McpProjects : drafts[p] > 0 => \E n \in DOMAIN lines : lines[n].project = p /\ DraftCall(n)
        /\ \A n \in branches : DraftCall(n)
        /\ \A p \in planFiles : \E n \in DOMAIN lines : lines[n].project = p /\ lines[n].name = "generate_plan"
    BY DEF McpInv, Drafted, PlansAsked
  <2>2. ASSUME NEW n \in DOMAIN answers, lines[n].kind = "call", lines[n].name # "unknown"
        PROVE  /\ Cardinality(EntriesOf(n)) = IF n \in unlogged THEN 0 ELSE 1
               /\ n \in unlogged => answers[n] \in {"error", "nothing"}
               /\ \A i \in EntriesOf(n) : Truthful(auditLog[i].entry, n)
    <3>1. Accounted(n) /\ (n \in unlogged => answers[n] # "result") BY <2>2 DEF McpInv, Answered, IsCall
    <3>2. answers[n] \in {"result", "error", "nothing"} BY DEF McpInv, McpTypeOK
    <3>3. CASE n \in unlogged
      <4>1. EntriesOf(n) = {} BY <3>1, <3>3 DEF Accounted, NoEntry
      <4> QED BY <3>1, <3>2, <3>3, <4>1, FS_EmptySet DEF Accounted, TrueEntries
    <3>4. CASE n \notin unlogged
      <4>1. PICK i : EntriesOf(n) = {i} BY <3>1, <3>4 DEF Accounted, OneEntry
      <4>2. Cardinality(EntriesOf(n)) = 1 BY <4>1, FS_Singleton
      <4> QED BY <3>1, <3>4, <4>2 DEF Accounted, TrueEntries
    <3> QED BY <3>3, <3>4
  <2> QED BY <2>1, <2>2 DEF McpAccountable
<1> QED BY McpStart, <1>1, <1>2, PTL

(***************************************************************************)
(* The provider profiles.                                                  *)
(***************************************************************************)

(* References that need no store of their own name secrets the record has. *)
Referable(record) == IF record.store = "other" THEN DOMAIN record.secrets = {}
                     ELSE record.refs \subseteq DOMAIN record.secrets

Sound(record) == record \in ProfileRecord /\ Referable(record) /\ (record.store = "" => record.refs = {})

(* The record holds exactly the secrets that were last supplied. *)
Holds(record, values) ==
  \A n \in SecretNames : IF n \in DOMAIN record.secrets THEN record.secrets[n] = values[n] ELSE values[n] = 0

ProfileInv ==
  /\ ProfileTypeOK
  /\ \A p \in Profiles : IF HasProfile(p) THEN Sound(profiles[p]) /\ Holds(profiles[p], supplied[p])
                         ELSE supplied[p] = Absent(SecretNames)

-----------------------------------------------------------------------------

LEMMA NoSecretsYet ==
  ASSUME NEW S
  PROVE  NoProfile \notin ProfileRecord /\ DOMAIN NoProfile.secrets = {} /\ NoProfile.secrets \in [{} -> S]
BY DEF NoProfile, ProfileRecord, ProfileStores

LEMMA LocalRefsSound ==
  ASSUME NEW record \in ProfileRecord, Referable(record)
  PROVE  Sound(WithLocalRefs(record)) /\ WithLocalRefs(record).secrets = record.secrets
<1> DEFINE emptied == [record EXCEPT !.store = IF record.refs = {} THEN "" ELSE @]
           local == [record EXCEPT !.store = "local_encrypted", !.refs = @ \union DOMAIN record.secrets]
<1>1. DOMAIN record.secrets \subseteq SecretNames BY DEF ProfileRecord
<1>2. CASE record.store = "other"
  <2>1. WithLocalRefs(record) = record BY <1>2 DEF WithLocalRefs
  <2> QED BY <1>2, <2>1 DEF Sound
<1>3. CASE record.store # "other" /\ DOMAIN record.secrets = {}
  <2>1. record.refs = {} BY <1>3 DEF Referable
  <2>2. WithLocalRefs(record) = emptied BY <1>3 DEF WithLocalRefs
  <2>3. /\ emptied.store = "" /\ emptied.refs = {} /\ emptied.secrets = record.secrets
        /\ emptied \in ProfileRecord
    BY <2>1 DEF ProfileRecord, ProfileStores
  <2> QED BY <2>2, <2>3 DEF Sound, Referable
<1>4. CASE record.store # "other" /\ DOMAIN record.secrets # {}
  <2>1. WithLocalRefs(record) = local BY <1>4 DEF WithLocalRefs
  <2>2. local.store = "local_encrypted" /\ local.refs = record.refs \union DOMAIN record.secrets /\ local.secrets = record.secrets
    BY DEF ProfileRecord
  <2>3. local \in ProfileRecord BY <1>1 DEF ProfileRecord, ProfileStores
  <2>4. local.refs \subseteq DOMAIN local.secrets BY <1>4, <2>2 DEF Referable
  <2> HIDE DEF local
  <2> QED BY <2>1, <2>2, <2>3, <2>4 DEF Sound, Referable
<1> QED BY <1>2, <1>3, <1>4

(* Saving a file keeps every sound record sound, with its secrets. *)
LEMMA SavedSound ==
  ASSUME NEW written \in [Profiles -> ProfileRecord \union {NoProfile}],
         \A p \in Profiles : written[p] # NoProfile => Sound(written[p])
  PROVE  /\ Saved(written) \in [Profiles -> ProfileRecord \union {NoProfile}]
         /\ \A p \in Profiles : IF written[p] = NoProfile THEN Saved(written)[p] = NoProfile
                                ELSE Sound(Saved(written)[p]) /\ Saved(written)[p].secrets = written[p].secrets
<1>1. ASSUME NEW p \in Profiles, written[p] # NoProfile
      PROVE  Sound(Saved(written)[p]) /\ Saved(written)[p].secrets = written[p].secrets
  <2> DEFINE w == WithLocalRefs(written[p])
             e == [w EXCEPT !.encrypted = TRUE]
  <2>1. Sound(w) /\ w.secrets = written[p].secrets BY <1>1, LocalRefsSound DEF Sound
  <2>2. Saved(written)[p] = e BY <1>1 DEF Saved
  <2> HIDE DEF w
  <2>3. e \in ProfileRecord /\ e.secrets = w.secrets /\ e.store = w.store /\ e.refs = w.refs
    BY <2>1 DEF Sound, ProfileRecord
  <2> HIDE DEF e
  <2> QED BY <2>1, <2>2, <2>3 DEF Sound, Referable
<1>2. \A p \in Profiles : written[p] = NoProfile => Saved(written)[p] = NoProfile BY DEF Saved
<1>3. \A p \in Profiles : Saved(written)[p] \in ProfileRecord \union {NoProfile} BY <1>1, <1>2 DEF Sound
<1>4. Saved(written) = [p \in Profiles |-> Saved(written)[p]] BY DEF Saved
<1> QED BY <1>1, <1>2, <1>3, <1>4

(* A merged record that may be stored is sound and holds the secrets the   *)
(* old one had, with the submitted ones in their place.                    *)
Mergeable(old) ==
  /\ old.store \in ProfileStores /\ old.refs \in SUBSET SecretNames
  /\ \E names \in SUBSET SecretNames : old.secrets \in [names -> 0 .. MaxOperations]
  /\ Referable(old) /\ (old.store = "" => old.refs = {})

Submitted(values, last) == [n \in SecretNames |-> IF n \in values THEN operations + 1 ELSE last[n]]



LEMMA MergedSound ==
  ASSUME NEW old, Mergeable(old), operations + 1 \in 0 .. MaxOperations,
         NEW store \in ProfileStores, NEW values \in SUBSET SecretNames, NEW refs \in SUBSET SecretNames,
         Valid(store, values, refs), ProfileStorable(Merged(old, store, values, refs)),
         NEW last, Holds(old, last)
  PROVE  /\ Sound(Merged(old, store, values, refs))
         /\ Holds(Merged(old, store, values, refs), Submitted(values, last))
<1>0. PICK names \in SUBSET SecretNames : old.secrets \in [names -> 0 .. MaxOperations] BY DEF Mergeable
<1> DEFINE kept == IF store = "" THEN old.store ELSE store
           secrets == [n \in DOMAIN old.secrets \union values |-> IF n \in values THEN operations + 1 ELSE old.secrets[n]]
           allRefs == IF kept = "" \/ kept = old.store THEN old.refs \union refs ELSE refs
           record == [store |-> kept, secrets |-> secrets, refs |-> allRefs, encrypted |-> FALSE]
<1>1. DOMAIN old.secrets = names /\ kept \in ProfileStores BY <1>0 DEF Mergeable
<1>2. old.refs \subseteq SecretNames BY DEF Mergeable
<1>3. secrets \in [names \union values -> 0 .. MaxOperations] /\ DOMAIN secrets = names \union values
  BY <1>0, <1>1
<1>4. Merged(old, store, values, refs) = WithLocalRefs(record) BY DEF Merged
<1>5. allRefs \in SUBSET SecretNames BY <1>2
<1>6. \A n \in SecretNames : IF n \in names \union values THEN secrets[n] = Submitted(values, last)[n]
                             ELSE Submitted(values, last)[n] = 0
  BY <1>1 DEF Holds, Submitted
<1>7. kept # "other" => allRefs \subseteq names
  BY <1>1 DEF Mergeable, Valid, Referable, ProfileStores
<1> HIDE DEF kept, secrets, allRefs
<1>8. record \in ProfileRecord
  <2>1. secrets \in UNION {[m -> 0 .. MaxOperations] : m \in SUBSET SecretNames} BY <1>3
  <2> QED BY <1>1, <1>5, <2>1 DEF ProfileRecord
<1>9. Referable(record)
  <2>1. CASE kept = "other"
    <3>1. WithLocalRefs(record) = record BY <2>1 DEF WithLocalRefs
    <3> QED BY <1>4, <2>1, <3>1 DEF ProfileStorable, Referable
  <2>2. CASE kept # "other" BY <1>3, <1>7, <2>2 DEF Referable
  <2> QED BY <2>1, <2>2
<1>10. record.secrets = secrets OBVIOUS
<1> HIDE DEF record
<1>11. Sound(WithLocalRefs(record)) /\ WithLocalRefs(record).secrets = secrets BY <1>8, <1>9, <1>10, LocalRefsSound
<1>12. Holds(WithLocalRefs(record), Submitted(values, last)) BY <1>3, <1>6, <1>11 DEF Holds
<1> QED BY <1>4, <1>11, <1>12

-----------------------------------------------------------------------------

(* After the file is saved every record is sound; those not written by the *)
(* operation hold what they held.                                          *)
LEMMA FileSaved ==
  ASSUME ProfileInv, NEW written \in [Profiles -> ProfileRecord \union {NoProfile}], profiles' = Saved(written),
         supplied' \in [Profiles -> [SecretNames -> 0 .. MaxOperations]], operations' \in 0 .. MaxOperations,
         \A p \in Profiles : IF written[p] = NoProfile THEN supplied'[p] = Absent(SecretNames)
                             ELSE Sound(written[p]) /\ Holds(written[p], supplied'[p])
  PROVE  ProfileInv'
<1>1. /\ Saved(written) \in [Profiles -> ProfileRecord \union {NoProfile}]
      /\ \A p \in Profiles : IF written[p] = NoProfile THEN Saved(written)[p] = NoProfile
                             ELSE Sound(Saved(written)[p]) /\ Saved(written)[p].secrets = written[p].secrets
  BY SavedSound
<1>2. ProfileTypeOK' BY <1>1 DEF ProfileTypeOK
<1>3. ASSUME NEW p \in Profiles
      PROVE  IF HasProfile(p)' THEN Sound(profiles'[p]) /\ Holds(profiles'[p], supplied'[p])
             ELSE supplied'[p] = Absent(SecretNames)
  <2>1. CASE written[p] = NoProfile BY <1>1, <2>1 DEF HasProfile
  <2>2. CASE written[p] # NoProfile
    <3>1. Sound(profiles'[p]) /\ profiles'[p].secrets = written[p].secrets BY <1>1, <2>2
    <3>2. HasProfile(p)' BY <3>1, NoSecretsYet DEF HasProfile, Sound
    <3>3. Holds(profiles'[p], supplied'[p]) BY <2>2, <3>1 DEF Holds
    <3> QED BY <3>1, <3>2, <3>3
  <2> QED BY <2>1, <2>2
<1> QED BY <1>2, <1>3 DEF ProfileInv

LEMMA SaveKeeps ==
  ASSUME ProfileInv, NEW p \in Profiles, Save(p)
  PROVE  ProfileInv'
<1>1. PICK store \in ProfileStores, values \in SUBSET SecretNames, refs \in SUBSET SecretNames :
        LET record == IF HasProfile(p) THEN Merged(profiles[p], store, values, refs)
                      ELSE Merged([NoProfile EXCEPT !.store = ""], store, values, refs) IN
        IF Valid(store, values, refs) /\ ProfileStorable(record)
        THEN /\ profiles' = Saved([profiles EXCEPT ![p] = record])
             /\ supplied' = [supplied EXCEPT ![p] = [n \in SecretNames |-> IF n \in values THEN operations' ELSE @[n]]]
        ELSE UNCHANGED <<profiles, supplied>>
  BY DEF Save
<1>2. operations < MaxOperations /\ operations' = operations + 1 BY DEF Save, Counted
<1>3. operations \in 0 .. MaxOperations /\ MaxOperations \in Nat /\ operations' \in 0 .. MaxOperations
  <2>1. operations \in 0 .. MaxOperations BY DEF ProfileInv, ProfileTypeOK
  <2>2. MaxOperations \in Nat BY ProfileAssumption
  <2> QED BY <1>2, <2>1, <2>2
<1>4. /\ profiles \in [Profiles -> ProfileRecord \union {NoProfile}]
      /\ supplied \in [Profiles -> [SecretNames -> 0 .. MaxOperations]]
  BY DEF ProfileInv, ProfileTypeOK
<1> DEFINE old == IF HasProfile(p) THEN profiles[p] ELSE [NoProfile EXCEPT !.store = ""]
           record == Merged(old, store, values, refs)
           latest == [n \in SecretNames |-> IF n \in values THEN operations' ELSE supplied[p][n]]
<1>5. Mergeable(old) /\ Holds(old, supplied[p])
  <2>1. CASE HasProfile(p)
    <3>1. Sound(old) /\ Holds(old, supplied[p]) /\ old \in ProfileRecord BY <2>1 DEF ProfileInv, Sound
    <3>2. old.secrets \in UNION {[names -> 0 .. MaxOperations] : names \in SUBSET SecretNames} BY <3>1 DEF ProfileRecord
    <3>3. old.store \in ProfileStores /\ old.refs \in SUBSET SecretNames BY <3>1 DEF ProfileRecord
    <3>4. \E names \in SUBSET SecretNames : old.secrets \in [names -> 0 .. MaxOperations] BY <3>2
    <3> QED BY <3>1, <3>3, <3>4 DEF Sound, Mergeable
  <2>2. CASE ~HasProfile(p)
    <3>1. old.store = "" /\ old.refs = {} /\ old.secrets = NoProfile.secrets BY <2>2 DEF NoProfile
    <3>2. supplied[p] = Absent(SecretNames) BY <2>2 DEF ProfileInv
    <3>3. DOMAIN old.secrets = {} BY <3>1, NoSecretsYet
    <3>4. old.secrets \in [{} -> 0 .. MaxOperations] BY <3>1, NoSecretsYet
    <3>5. Holds(old, supplied[p]) BY <3>2, <3>3 DEF Holds, Absent
    <3> HIDE DEF old
    <3> QED BY <3>1, <3>3, <3>4, <3>5 DEF Mergeable, Referable, ProfileStores
  <2> QED BY <2>1, <2>2
<1>6. supplied[p] \in [SecretNames -> 0 .. MaxOperations] BY <1>4
<1>7. latest \in [SecretNames -> 0 .. MaxOperations] BY <1>3, <1>6
<1>8. CASE Valid(store, values, refs) /\ ProfileStorable(record)
  <2>1. profiles' = Saved([profiles EXCEPT ![p] = record]) /\ supplied' = [supplied EXCEPT ![p] = latest]
    BY <1>1, <1>8
  <2> HIDE DEF old
  <2>2. operations + 1 \in 0 .. MaxOperations BY <1>2, <1>3
  <2>3. Sound(record) /\ Holds(record, Submitted(values, supplied[p])) BY <1>5, <1>8, <2>2, MergedSound
  <2>4. latest = Submitted(values, supplied[p]) BY <1>2 DEF Submitted
  <2> HIDE DEF record, latest
  <2>5. Sound(record) /\ Holds(record, latest) BY <2>3, <2>4
  <2> DEFINE written == [profiles EXCEPT ![p] = record]
  <2>6. /\ written \in [Profiles -> ProfileRecord \union {NoProfile}] /\ written[p] = record
        /\ \A q \in Profiles : q # p => written[q] = profiles[q]
    BY <1>4, <2>5 DEF Sound
  <2>7. /\ supplied' \in [Profiles -> [SecretNames -> 0 .. MaxOperations]] /\ supplied'[p] = latest
        /\ \A q \in Profiles : q # p => supplied'[q] = supplied[q]
    BY <1>4, <1>7, <2>1
  <2>8. profiles' = Saved(written) BY <2>1
  <2> HIDE DEF written
  <2>9. ASSUME NEW q \in Profiles
        PROVE  IF written[q] = NoProfile THEN supplied'[q] = Absent(SecretNames)
               ELSE Sound(written[q]) /\ Holds(written[q], supplied'[q])
    <3>1. CASE q = p BY <2>5, <2>6, <2>7, <3>1, NoSecretsYet DEF Sound
    <3>2. CASE q # p BY <2>6, <2>7, <3>2 DEF ProfileInv, HasProfile
    <3> QED BY <3>1, <3>2
  <2> QED BY <1>3, <2>6, <2>7, <2>8, <2>9, FileSaved
<1>9. CASE ~(Valid(store, values, refs) /\ ProfileStorable(record))
  <2>1. UNCHANGED <<profiles, supplied>> BY <1>1, <1>9
  <2> QED BY <1>3, <1>4, <2>1 DEF ProfileInv, ProfileTypeOK, HasProfile
<1> QED BY <1>8, <1>9

LEMMA DeleteKeeps ==
  ASSUME ProfileInv, NEW p \in Profiles, Delete(p)
  PROVE  ProfileInv'
<1>1. operations' \in 0 .. MaxOperations
  <2>1. operations \in 0 .. MaxOperations BY DEF ProfileInv, ProfileTypeOK
  <2>2. operations < MaxOperations /\ operations' = operations + 1 BY DEF Delete, Counted
  <2> QED BY <2>1, <2>2, ProfileAssumption
<1>2. /\ profiles \in [Profiles -> ProfileRecord \union {NoProfile}]
      /\ supplied \in [Profiles -> [SecretNames -> 0 .. MaxOperations]]
  BY DEF ProfileInv, ProfileTypeOK
<1>3. CASE UNCHANGED <<profiles, supplied>> BY <1>1, <1>2, <1>3 DEF ProfileInv, ProfileTypeOK, HasProfile
<1>4. CASE /\ profiles' = Saved([profiles EXCEPT ![p] = NoProfile])
           /\ supplied' = [supplied EXCEPT ![p] = Absent(SecretNames)]
  <2> DEFINE written == [profiles EXCEPT ![p] = NoProfile]
  <2>1. /\ written \in [Profiles -> ProfileRecord \union {NoProfile}] /\ written[p] = NoProfile
        /\ \A q \in Profiles : q # p => written[q] = profiles[q]
    BY <1>2
  <2>2. Absent(SecretNames) \in [SecretNames -> 0 .. MaxOperations] BY ProfileAssumption DEF Absent
  <2>3. /\ supplied' \in [Profiles -> [SecretNames -> 0 .. MaxOperations]] /\ supplied'[p] = Absent(SecretNames)
        /\ \A q \in Profiles : q # p => supplied'[q] = supplied[q]
    BY <1>2, <1>4, <2>2
  <2>4. profiles' = Saved(written) BY <1>4
  <2> HIDE DEF written
  <2>5. \A q \in Profiles : IF written[q] = NoProfile THEN supplied'[q] = Absent(SecretNames)
                            ELSE Sound(written[q]) /\ Holds(written[q], supplied'[q])
    BY <2>1, <2>3 DEF ProfileInv, HasProfile
  <2> QED BY <1>1, <2>1, <2>3, <2>4, <2>5, FileSaved
<1> QED BY <1>3, <1>4 DEF Delete

LEMMA ReadKeeps ==
  ASSUME ProfileInv, Read
  PROVE  ProfileInv'
<1>1. operations' \in 0 .. MaxOperations /\ supplied' = supplied
  <2>1. operations \in 0 .. MaxOperations BY DEF ProfileInv, ProfileTypeOK
  <2>2. operations < MaxOperations /\ operations' = operations + 1 /\ supplied' = supplied
    BY DEF Read, Counted
  <2> QED BY <2>1, <2>2, ProfileAssumption
<1>2. /\ profiles \in [Profiles -> ProfileRecord \union {NoProfile}]
      /\ supplied \in [Profiles -> [SecretNames -> 0 .. MaxOperations]]
  BY DEF ProfileInv, ProfileTypeOK
<1>3. CASE profiles' = profiles BY <1>1, <1>2, <1>3 DEF ProfileInv, ProfileTypeOK, HasProfile
<1>4. CASE profiles' = Saved(profiles)
  <2>1. \A p \in Profiles : IF profiles[p] = NoProfile THEN supplied'[p] = Absent(SecretNames)
                            ELSE Sound(profiles[p]) /\ Holds(profiles[p], supplied'[p])
    BY <1>1 DEF ProfileInv, HasProfile
  <2> QED BY <1>1, <1>2, <1>4, <2>1, FileSaved
<1> QED BY <1>3, <1>4 DEF Read

LEMMA ProfileStart == ProfileInit => ProfileInv
<1> SUFFICES ASSUME ProfileInit PROVE ProfileInv OBVIOUS
<1> DEFINE before == [store |-> "", secrets |-> Legacies, refs |-> {}, encrypted |-> FALSE]
<1>1. PICK old \in SUBSET Profiles :
        /\ profiles = [p \in Profiles |-> IF p \in old THEN before ELSE NoProfile]
        /\ supplied = [p \in Profiles |-> IF p \in old THEN Legacies ELSE Absent(SecretNames)]
  BY DEF ProfileInit
<1>2. operations = 1 BY DEF ProfileInit
<1>3. /\ Legacies \in [SecretNames -> 0 .. MaxOperations] /\ DOMAIN Legacies = SecretNames
      /\ Absent(SecretNames) \in [SecretNames -> 0 .. MaxOperations]
  BY ProfileAssumption DEF Legacies, Absent
<1>4. before \in ProfileRecord /\ before.secrets = Legacies /\ before.store = "" /\ before.refs = {}
  <2>1. Legacies \in UNION {[names -> 0 .. MaxOperations] : names \in SUBSET SecretNames} BY <1>3
  <2> QED BY <2>1 DEF ProfileRecord, ProfileStores
<1> HIDE DEF before
<1>5. Sound(before) BY <1>4 DEF Sound, Referable
<1>6. Holds(before, Legacies) BY <1>3, <1>4 DEF Holds
<1>7. ProfileTypeOK
  <2>1. profiles \in [Profiles -> ProfileRecord \union {NoProfile}] BY <1>1, <1>4
  <2>2. supplied \in [Profiles -> [SecretNames -> 0 .. MaxOperations]] BY <1>1, <1>3
  <2>3. operations \in 0 .. MaxOperations BY <1>2, ProfileAssumption
  <2> QED BY <2>1, <2>2, <2>3 DEF ProfileTypeOK
<1>8. ASSUME NEW p \in Profiles
      PROVE  IF HasProfile(p) THEN Sound(profiles[p]) /\ Holds(profiles[p], supplied[p])
             ELSE supplied[p] = Absent(SecretNames)
  <2>1. before # NoProfile BY <1>4, NoSecretsYet
  <2> QED BY <1>1, <1>5, <1>6, <2>1 DEF HasProfile
<1> QED BY <1>7, <1>8 DEF ProfileInv

(* Whatever the sequence of saves, a profile keeps the secrets it was last *)
(* given, under a store that can hold them, and shows the fields of those. *)
THEOREM SecretsKept == ProfileInit /\ [][ProfileNext]_profileVars => []ProfilesKept
<1>1. ProfileInv /\ [ProfileNext]_profileVars => ProfileInv'
  <2>1. ProfileInv /\ UNCHANGED profileVars => ProfileInv'
    BY DEF ProfileInv, ProfileTypeOK, HasProfile, profileVars
  <2> QED BY <2>1, SaveKeeps, DeleteKeeps, ReadKeeps DEF ProfileNext
<1>2. ProfileInv => ProfilesKept
  <2> SUFFICES ASSUME ProfileInv, NEW p \in Profiles, HasProfile(p)
               PROVE  /\ ProfileStorable(profiles[p]) /\ Holds(profiles[p], supplied[p])
                      /\ profiles[p].store = "local_encrypted" => SecretFields(p) = DOMAIN profiles[p].secrets
                      /\ profiles[p].store = "" => profiles[p].refs = {}
    BY DEF ProfilesKept, Holds
  <2>1. Sound(profiles[p]) /\ Holds(profiles[p], supplied[p]) BY DEF ProfileInv
  <2> QED BY <2>1 DEF Sound, Referable, ProfileStorable, SecretFields
<1> QED BY ProfileStart, <1>1, <1>2, PTL
=============================================================================
