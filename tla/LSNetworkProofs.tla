---------------------------- MODULE LSNetworkProofs ----------------------------
(***************************************************************************)
(* The safety of a network of link-state routers, for every topology,      *)
(* every configuration of events, delays, periods and timeouts, and        *)
(* whatever packets lossy links lose.                                      *)
(*                                                                         *)
(* The routers live in the simulator of DVNetwork, and the first half      *)
(* follows DVNetworkProofs: the packets are what IInv says because sound   *)
(* routers send them, and the routers stay Sound because the packets are;  *)
(* the neighbours are known in time because PINGs and PONGs are (TInv).    *)
(* What is new is how LSPs spread: what a handler does to them (Spread),   *)
(* how old ones come to an end (GInv), their numbers (Numbered), that they *)
(* renew the routes (Renewed), and that they reach everyone (Reached).     *)
(***************************************************************************)
EXTENDS LSNetwork, LSTablesProofs, FiniteSetTheorems, WellFoundedInduction

(* What a packet is that router u has sent to router v. *)
PacketOK(m, u, v) ==
  \/ m.type = "DATA"
  \/ m.type \in {"PING", "PONG"} /\ m.src = u /\ m.stamp \in Nat
  \/ m.type = "LS" /\ m.lsp \in LSP

AlarmOK(e) == /\ e.type = "alarm" /\ e.time \in Nat
              /\ e.router \in Router /\ e.alarm \in DOMAIN Period

RecvOK(e) == /\ e.type = "recv" /\ e.time \in Nat
             /\ e.router \in Router /\ e.port \in DOMAIN Wire[e.router]
             /\ PacketOK(e.pkt, Wire[e.router][e.port], e.router)

EventOK(e) == Listed(e) \/ AlarmOK(e) \/ RecvOK(e)

NodesOK(nodes) == \A u \in Router : Sound(nodes[u], u, Wire[u])

IInv ==
  /\ node \in [Router -> Node] /\ NodesOK(node)
  /\ delay \in [Link -> Nat]
  /\ global_time \in Nat
  /\ IsABag(event_q) /\ \A e \in DOMAIN event_q : EventOK(e)
  /\ QueueSound

(* How router u may end a handler. *)
WayOK(way, u) ==
  /\ Sound(way.node, u, Wire[u])
  /\ \A m \in way.out : m.port \in DOMAIN Wire[u] /\ PacketOK(m.pkt, u, Wire[u][m.port])
--------------------------------------------------------------------------------
(* Every port of a router has its link, and leads to a port that leads     *)
(* back.                                                                   *)
LEMMA WireFacts ==
  ASSUME NEW u \in Router
  PROVE  /\ Wired(u, Wire[u])
         /\ \A p \in DOMAIN Wire[u] :
               /\ LinkAt(u, p) \in Link
               /\ Wire[u][p] \in Router
               /\ get_link_port(Wire[u][p], u) \in DOMAIN Wire[Wire[u][p]]
               /\ Wire[Wire[u][p]][get_link_port(Wire[u][p], u)] = u
<1>1. /\ \A p, q \in DOMAIN Wire[u] : /\ {u, Wire[u][p]} \in Link /\ Wire[u][p] # u
                                      /\ Wire[u][p] = Wire[u][q] => p = q
      /\ \A l \in Link : /\ l \subseteq Router
                         /\ \A x \in l : \E p \in DOMAIN Wire[x] : l = {x, Wire[x][p]}
  BY NetworkAssumption DEF WellWired
<1>2. ASSUME NEW p \in DOMAIN Wire[u]
      PROVE  /\ LinkAt(u, p) \in Link
             /\ Wire[u][p] \in Router \ {u}
             /\ get_link_port(Wire[u][p], u) \in DOMAIN Wire[Wire[u][p]]
             /\ Wire[Wire[u][p]][get_link_port(Wire[u][p], u)] = u
  <2> DEFINE v == Wire[u][p]
  <2>1. {u, v} \in Link /\ v # u /\ v \in Router
    BY <1>1
  <2>2. PICK q \in DOMAIN Wire[v] : {u, v} = {v, Wire[v][q]}
    BY <1>1, <2>1
  <2>3. \E r : r \in DOMAIN Wire[v] /\ Wire[v][r] = u
    BY <2>1, <2>2
  <2>4. get_link_port(v, u) \in DOMAIN Wire[v] /\ Wire[v][get_link_port(v, u)] = u
    BY <2>3 DEF get_link_port
  <2> QED BY <2>1, <2>4 DEF LinkAt
<1> QED BY <1>1, <1>2, WireAssumption DEF Wired

LEMMA PeriodFacts == \A a \in DOMAIN Period : Period[a] \in Nat \ {0}
BY NetworkAssumption DEF WellWired
--------------------------------------------------------------------------------
(* Every packet a handler sends is one that its receiver may get. *)
LEMMA PingsOK ==
  ASSUME NEW u \in Router, NEW t \in Nat, NEW m \in send_ping(u, DOMAIN Wire[u], t)
  PROVE  m.port \in DOMAIN Wire[u] /\ PacketOK(m.pkt, u, Wire[u][m.port])
BY DEF send_ping, PacketOK

LEMMA EndedOK ==
  ASSUME NEW u \in Router, NEW r, Sound(r.node, u, Wire[u]), Posted(r, Wire[u])
  PROVE  WayOK(Ended(r), u)
<1>1. Ended(r).node = r.node
  BY DEF Ended
<1>2. ASSUME NEW x \in Ended(r).out
      PROVE  x.port \in DOMAIN Wire[u] /\ PacketOK(x.pkt, u, Wire[u][x.port])
  <2>1. PICK m \in r.out : x = [port |-> m.port, pkt |-> [type |-> "LS", lsp |-> m.lsp]]
    BY DEF Ended
  <2> QED BY <2>1 DEF PacketOK, Posted
<1> QED BY <1>1, <1>2 DEF WayOK

(* A DATA packet is forwarded as it is, wherever it comes from. *)
LEMMA DataHandled ==
  ASSUME NEW u \in Router, NEW n, Sound(n, u, Wire[u]), NEW port, NEW t,
         NEW msg, msg.type = "DATA", NEW way \in recv(n, u, port, msg, t)
  PROVE  WayOK(way, u)
<1>1. way = [node |-> n, out |-> forward(n, u, msg)]
  BY DEF recv
<1>2. recv_data(n, u, msg.dst) \subseteq DOMAIN Wire[u]
  BY WireFacts, DataForwards
<1>3. \A m \in forward(n, u, msg) : m.port \in recv_data(n, u, msg.dst) /\ m.pkt = msg
  BY DEF forward
<1> QED BY <1>1, <1>2, <1>3 DEF WayOK, PacketOK

LEMMA RecvHandled ==
  ASSUME NEW u \in Router, NEW n, Sound(n, u, Wire[u]), NEW port \in DOMAIN Wire[u],
         NEW t \in Nat, NEW msg, PacketOK(msg, Wire[u][port], u),
         NEW way \in recv(n, u, port, msg, t)
  PROVE  WayOK(way, u)
<1> DEFINE peer == Wire[u]
<1>1. Wired(u, peer)
  BY WireFacts
<1>2. CASE msg.type = "DATA"
  BY <1>2, DataHandled
<1>3. CASE msg.type = "PING" /\ msg.stamp \in Nat
  <2>1. way = [node |-> n, out |-> recv_ping_send_pong(u, port, msg)]
    BY <1>3 DEF recv
  <2> QED BY <1>3, <2>1 DEF recv_ping_send_pong, PacketOK, WayOK
<1>4. CASE msg.type = "PONG" /\ msg.src = peer[port] /\ msg.stamp \in Nat
  <2>1. CASE msg.dst # u
    <3>1. way = [node |-> n, out |-> {}]
      BY <1>4, <2>1 DEF recv
    <3> QED BY <3>1 DEF WayOK
  <2>2. CASE msg.dst = u
    <3> DEFINE cost == RTT(msg, t)
    <3>1. PICK r \in recv_pong_LS(n, u, port, peer[port], cost) : way = Ended(r)
      BY <1>4, <2>2 DEF recv
    <3>2. cost \in Cost
      BY <1>4, CostModAssumption DEF RTT, Cost
    <3> HIDE DEF cost, peer
    <3>3. PICK q : Sound(q, u, peer) /\ Ends(q, r, u)
      BY <1>1, <3>1, <3>2, RecvPongHandled DEF peer
    <3>4. Sound(r.node, u, peer) /\ Posted(r, peer)
      BY <1>1, <3>3, EndsFacts
    <3> QED BY <3>1, <3>4, EndedOK DEF peer
  <2> QED BY <2>1, <2>2
<1>5. CASE msg.type = "LS" /\ msg.lsp \in LSP
  <2> DEFINE lsp == msg.lsp
             r == recv_LS(n, u, port, lsp)
  <2>1. way = Ended(r)
    BY <1>5 DEF recv
  <2>2. lsp \in LSP
    BY <1>5
  <2> HIDE DEF lsp, peer
  <2>3. Sound(r.node, u, peer) /\ Posted(r, peer)
    BY <1>1, <2>2, RecvLSFloods DEF peer
  <2> HIDE DEF r
  <2> QED BY <2>1, <2>3, EndedOK DEF peer
<1> QED BY <1>2, <1>3, <1>4, <1>5 DEF PacketOK

LEMMA AlarmHandled ==
  ASSUME NEW u \in Router, NEW n, Sound(n, u, Wire[u]), NEW t \in Nat,
         NEW a \in DOMAIN Period, NEW way \in handle_alarm(n, u, a, t)
  PROVE  WayOK(way, u)
<1> DEFINE peer == Wire[u]
<1>1. a \in {"Ping", "Port", "LS"} /\ Wired(u, peer)
  BY WireFacts DEF Period
<1>2. CASE a = "Ping"
  <2>1. way = [node |-> n, out |-> send_ping(u, DOMAIN Wire[u], t)]
    BY <1>2 DEF handle_alarm
  <2> QED BY <2>1, PingsOK DEF WayOK
<1>3. CASE a = "LS"
  <2>1. PICK table \in Tables(n) : way = Ended(update_LS(n, u, table))
    BY <1>3 DEF handle_alarm
  <2> HIDE DEF peer
  <2>2. Sound(update_LS(n, u, table).node, u, peer) /\ Posted(update_LS(n, u, table), peer)
    BY <1>1, UpdateAnnounces DEF peer
  <2> QED BY <2>1, <2>2, EndedOK DEF peer
<1>4. CASE a = "Port"
  <2>1. PICK r \in update_timeout_LS(n, u) : way = Ended(r)
    BY <1>4 DEF handle_alarm
  <2> HIDE DEF peer
  <2>2. PICK q : Sound(q, u, peer) /\ Ends(q, r, u)
    BY <1>1, <2>1, UpdateTimeoutHandled DEF peer
  <2>3. Sound(r.node, u, peer) /\ Posted(r, peer)
    BY <1>1, <2>2, EndsFacts
  <2> QED BY <2>1, <2>3, EndedOK DEF peer
<1> QED BY <1>1, <1>2, <1>3, <1>4
--------------------------------------------------------------------------------
LEMMA TakeEvent ==
  ASSUME NEW q, IsABag(q), NEW e \in DOMAIN q
  PROVE  Taken(q, e, q (-) SetToBag({e}))
<1> DEFINE B == [f \in DOMAIN q |-> IF f \in {e} THEN q[f] - 1 ELSE q[f]]
           D == {f \in DOMAIN B : B[f] > 0}
           r == q (-) SetToBag({e})
<1>1. r = [f \in D |-> B[f]]
  BY DEF SetToBag, (-)
<1>2. q \in [DOMAIN q -> {n \in Nat : n > 0}]
  BY DEF IsABag
<1>3. \A f \in DOMAIN q : B[f] \in Nat /\ (f # e => B[f] = q[f] /\ B[f] > 0)
  BY <1>2
<1>4. q[e] = 1 => B[e] = 0
  OBVIOUS
<1>5. DOMAIN B = DOMAIN q
  OBVIOUS
<1> HIDE DEF B, r
<1>6. Taken(q, e, r)
  BY <1>1, <1>3, <1>4, <1>5 DEF IsABag, Taken
<1> QED BY <1>6 DEF r

LEMMA PutEvents ==
  ASSUME NEW q, IsABag(q), NEW S
  PROVE  Joined(q, S, q (+) SetToBag(S))
<1> DEFINE r == q (+) SetToBag(S)
<1>1. r = [f \in DOMAIN q \cup S |-> (IF f \in DOMAIN q THEN q[f] ELSE 0)
                                     + (IF f \in S THEN 1 ELSE 0)]
  BY DEF SetToBag, (+)
<1>2. \A f \in DOMAIN q : q[f] \in Nat /\ q[f] > 0
  BY DEF IsABag
<1> HIDE DEF r
<1>3. Joined(q, S, r)
  BY <1>1, <1>2 DEF IsABag, Joined
<1> QED BY <1>3 DEF r

LEMMA Requeue ==
  ASSUME NEW q, IsABag(q), NEW e \in DOMAIN q, NEW S, NEW T, S \cap T = {}
  PROVE  Requeued(q, e, S \cup T, (q (-) SetToBag({e})) (+) SetToBag(S) (+) SetToBag(T))
<1> DEFINE q1 == q (-) SetToBag({e})
           q2 == q1 (+) SetToBag(S)
           q3 == q2 (+) SetToBag(T)
<1>1. Taken(q, e, q1)
  BY TakeEvent
<1> HIDE DEF q1
<1>2. Joined(q1, S, q2)
  BY <1>1, PutEvents DEF Taken
<1> HIDE DEF q2
<1>3. Joined(q2, T, q3)
  BY <1>2, PutEvents DEF Joined
<1> HIDE DEF q3
<1>4. Requeued(q, e, S \cup T, q3)
  BY <1>1, <1>2, <1>3 DEF Requeued, Taken, Joined
<1> QED BY <1>4 DEF q1, q2, q3

(* Events that arrive later than e leave the queue sound once e is taken. *)
LEMMA QueueStep ==
  ASSUME IInv, NEW e \in DOMAIN event_q, \A f \in DOMAIN event_q : e.time <= f.time,
         NEW S, \A f \in S : RecvOK(f) /\ f.time >= e.time,
         Requeued(event_q, e, S \cup Rearmed(e), event_q'),
         global_time' = e.time
  PROVE  /\ IsABag(event_q') /\ \A f \in DOMAIN event_q' : EventOK(f)
         /\ QueueSound'
         /\ global_time' \in Nat
<1>1. EventOK(e) /\ e.time \in Nat
  BY DEF IInv, EventOK, AlarmOK, RecvOK, Listed
<1> DEFINE A == AlarmEvent(e.router, e.alarm, e.time)
<1>2. ASSUME e.type = "alarm"
      PROVE  /\ AlarmOK(A) /\ A.router = e.router /\ A.alarm = e.alarm
             /\ A.time = e.time + Period[e.alarm] /\ A.time > e.time
             /\ e.alarm \in DOMAIN Period /\ e.router \in Router
  <2>1. e.router \in Router /\ e.alarm \in DOMAIN Period
    BY <1>1, <1>2 DEF EventOK, AlarmOK, RecvOK, Listed
  <2>2. Period[e.alarm] \in Nat \ {0}
    BY <2>1, PeriodFacts
  <2> QED BY <1>1, <2>1, <2>2 DEF AlarmEvent, AlarmOK
<1>3. ASSUME NEW f \in S \cup Rearmed(e)
      PROVE  EventOK(f) /\ f.time >= e.time
  <2>1. CASE f \in S
    BY <2>1 DEF EventOK
  <2>2. CASE f \in Rearmed(e)
    <3>1. e.type = "alarm" /\ f = A
      BY <2>2 DEF Rearmed
    <3> HIDE DEF A
    <3> QED BY <1>1, <1>2, <3>1 DEF EventOK, AlarmOK
  <2> QED BY <2>1, <2>2
<1>4. /\ IsABag(event_q')
      /\ DOMAIN event_q' \subseteq DOMAIN event_q \cup (S \cup Rearmed(e))
  BY DEF Requeued
<1>5. \A f \in DOMAIN event_q' : EventOK(f) /\ f.time >= e.time
  BY <1>3, <1>4 DEF IInv
<1>6. ASSUME NEW u \in Router, NEW a \in DOMAIN Period
      PROVE  \E E \in DOMAIN event_q' :
                /\ E.type = "alarm" /\ E.router = u /\ E.alarm = a
                /\ \A f \in DOMAIN event_q' :
                      f.type = "alarm" /\ f.router = u /\ f.alarm = a => f = E
                /\ event_q'[E] = 1
                /\ E.time <= e.time + Period[a]
  <2>1. PICK E \in DOMAIN event_q :
           /\ E.type = "alarm" /\ E.router = u /\ E.alarm = a
           /\ \A f \in DOMAIN event_q :
                 f.type = "alarm" /\ f.router = u /\ f.alarm = a => f = E
           /\ event_q[E] = 1
           /\ E.time <= global_time + Period[a]
    <3> DEFINE set == {f \in DOMAIN event_q : f.type = "alarm" /\ f.router = u /\ f.alarm = a}
    <3>1. \E E \in set : /\ set = {E} /\ event_q[E] = 1
                         /\ E.time <= global_time + Period[a]
      BY DEF IInv, QueueSound, BagToSet
    <3> QED BY <3>1
  <2>2. \A f \in S : f.type # "alarm"
    BY DEF RecvOK
  <2>3. Period[a] \in Nat /\ global_time <= e.time /\ global_time \in Nat
    BY PeriodFacts DEF IInv, QueueSound, BagToSet
  <2>4. CASE E = e
    <3>1. Rearmed(e) = {A}
      BY <2>1, <2>4 DEF Rearmed
    <3>2. A # e /\ A.type = "alarm" /\ A.router = u /\ A.alarm = a /\ A.time = e.time + Period[a]
      BY <1>1, <1>2, <2>1, <2>4 DEF AlarmOK
    <3> HIDE DEF A
    <3>3. A \notin DOMAIN event_q
      BY <2>1, <2>4, <3>2
    <3>4. A \in DOMAIN event_q' /\ event_q'[A] = 1
      BY <3>1, <3>3 DEF Requeued
    <3>5. e \notin S \cup Rearmed(e)
      BY <2>1, <2>2, <2>4, <3>1, <3>2
    <3>6. e \notin DOMAIN event_q'
      BY <2>1, <2>4, <3>5 DEF Requeued
    <3>7. \A f \in DOMAIN event_q' :
             f.type = "alarm" /\ f.router = u /\ f.alarm = a => f = A
      BY <1>4, <2>1, <2>2, <2>4, <3>1, <3>6
    <3>8. A.time <= e.time + Period[a]
      BY <1>1, <2>3, <3>2
    <3> QED BY <3>2, <3>4, <3>7, <3>8
  <2>5. CASE E # e
    <3>1. ~(e.type = "alarm" /\ e.router = u /\ e.alarm = a)
      BY <2>1, <2>5
    <3>2. \A f \in Rearmed(e) : ~(f.type = "alarm" /\ f.router = u /\ f.alarm = a)
      BY <1>2, <3>1 DEF Rearmed
    <3>3. E \notin S \cup Rearmed(e)
      BY <2>1, <2>2, <3>2
    <3>4. E \in DOMAIN event_q' /\ event_q'[E] = 1
      BY <2>1, <2>5, <3>3 DEF Requeued
    <3>5. \A f \in DOMAIN event_q' :
             f.type = "alarm" /\ f.router = u /\ f.alarm = a => f = E
      BY <1>4, <2>1, <2>2, <3>2
    <3>6. E.time \in Nat /\ E.time <= e.time + Period[a]
      BY <1>1, <2>1, <2>3 DEF IInv, EventOK, AlarmOK, RecvOK, Listed
    <3> QED BY <2>1, <3>4, <3>5, <3>6
  <2> QED BY <2>4, <2>5
<1>7. QueueSound'
  <2>1. ASSUME NEW u \in Router, NEW a \in DOMAIN Period
        PROVE  \E E \in {f \in DOMAIN event_q' :
                           f.type = "alarm" /\ f.router = u /\ f.alarm = a} :
                  /\ {f \in DOMAIN event_q' :
                        f.type = "alarm" /\ f.router = u /\ f.alarm = a} = {E}
                  /\ event_q'[E] = 1
                  /\ E.time <= global_time' + Period[a]
    BY <1>6
  <2> QED BY <1>5, <2>1 DEF QueueSound, BagToSet
<1> QED BY <1>1, <1>4, <1>5, <1>7
--------------------------------------------------------------------------------
(* A packet arrives at the port of the receiver that leads to the sender.  *)
LEMMA DeliveryOK ==
  ASSUME NEW u \in Router, NEW m, m.port \in DOMAIN Wire[u],
         PacketOK(m.pkt, u, Wire[u][m.port]), NEW t \in Nat, NEW delays \in [Link -> Nat]
  PROVE  RecvOK(Delivery(u, m, t, delays)) /\ Delivery(u, m, t, delays).time >= t
<1> DEFINE v == Wire[u][m.port]
           p == get_link_port(v, u)
<1>1. LinkAt(u, m.port) \in Link /\ v \in Router /\ p \in DOMAIN Wire[v] /\ Wire[v][p] = u
  BY WireFacts
<1>2. delays[LinkAt(u, m.port)] \in Nat
  BY <1>1
<1>3. Delivery(u, m, t, delays) =
         [type |-> "recv", time |-> t + delays[LinkAt(u, m.port)], router |-> v,
          port |-> p, pkt |-> m.pkt]
  BY DEF Delivery
<1> DEFINE w == delays[LinkAt(u, m.port)]
<1>4. PacketOK(m.pkt, u, v)
  OBVIOUS
<1> HIDE DEF v, p, w
<1>5. w \in Nat /\ t + w \in Nat /\ t + w >= t
  BY <1>2 DEF w
<1> QED BY <1>1, <1>3, <1>4, <1>5 DEF RecvOK, w

LEMMA XmitSends ==
  ASSUME IInv, NEW u \in Router, NEW t \in Nat, NEW out,
         \A m \in out : m.port \in DOMAIN Wire[u] /\ PacketOK(m.pkt, u, Wire[u][m.port]),
         NEW sent \in xmit(u, out, t)
  PROVE  \E S : /\ sent.events = SetToBag(S)
                /\ \A f \in S : RecvOK(f) /\ f.time >= t
<1> DEFINE carried == {m \in out : LinkAt(u, m.port) \in is_alive}
<1>1. PICK gone : sent = [events |-> SetToBag({Delivery(u, m, t, delay) : m \in carried \ gone}),
                          gone   |-> Cardinality(gone)]
  BY DEF xmit
<1> DEFINE S == carried \ gone
<1>2. S \subseteq out /\ sent.events = SetToBag({Delivery(u, m, t, delay) : m \in S})
  BY <1>1
<1> HIDE DEF S
<1> DEFINE D == {Delivery(u, m, t, delay) : m \in S}
<1>3. \A f \in D : RecvOK(f) /\ f.time >= t
  BY <1>2, DeliveryOK DEF IInv
<1> QED BY <1>2, <1>3

(* Until e is dispatched time has passed for every router.                 *)
LEMMA ElapsedOK ==
  ASSUME IInv, NEW e \in DOMAIN event_q
  PROVE  /\ e.time \in Nat
         /\ Elapsed(e) \in [Router -> Node] /\ NodesOK(Elapsed(e))
<1>1. e.time \in Nat
  BY DEF IInv, EventOK, AlarmOK, RecvOK, Listed
<1> DEFINE d == e.time - global_time
<1>2. d \in Nat
  BY <1>1 DEF IInv, QueueSound, BagToSet
<1>3. Elapsed(e) = [u \in Router |-> Age(node[u], d)]
  BY DEF Elapsed
<1> HIDE DEF d
<1>4. \A u \in Router : Sound(Age(node[u], d), u, Wire[u])
  BY <1>2, AgeSound DEF IInv, NodesOK
<1>5. NodesOK(Elapsed(e))
  BY <1>3, <1>4 DEF NodesOK
<1>6. \A u \in Router : Age(node[u], d) \in Node
  BY <1>4 DEF Sound
<1> QED BY <1>1, <1>3, <1>5, <1>6

LEMMA DispatchIInv ==
  ASSUME IInv, NEW e \in DOMAIN event_q, \A f \in DOMAIN event_q : e.time <= f.time,
         e.router \in Router, NEW ways, \A way \in ways : WayOK(way, e.router),
         Dispatch(e, ways, Rearmed(e))
  PROVE  IInv'
<1>1. PICK way \in ways : \E sent \in xmit(e.router, way.out, e.time) :
         /\ node' = [Elapsed(e) EXCEPT ![e.router] = way.node]
         /\ event_q' = (event_q (-) SetToBag({e})) (+) sent.events (+) SetToBag(Rearmed(e))
         /\ global_time' = e.time
         /\ delay' = delay
  BY DEF Dispatch
<1>2. PICK sent \in xmit(e.router, way.out, e.time) :
         event_q' = (event_q (-) SetToBag({e})) (+) sent.events (+) SetToBag(Rearmed(e))
  BY <1>1
<1>3. /\ e.time \in Nat
      /\ Elapsed(e) \in [Router -> Node] /\ NodesOK(Elapsed(e))
  BY ElapsedOK
<1>4. WayOK(way, e.router)
  OBVIOUS
<1>5. PICK S : /\ sent.events = SetToBag(S)
               /\ \A f \in S : RecvOK(f) /\ f.time >= e.time
  BY <1>3, <1>4, XmitSends DEF WayOK
<1>6. S \cap Rearmed(e) = {}
  BY <1>5 DEF RecvOK, Rearmed, AlarmEvent
<1>7. Requeued(event_q, e, S \cup Rearmed(e), event_q')
  BY <1>2, <1>5, <1>6, Requeue DEF IInv
<1>8. /\ IsABag(event_q') /\ \A f \in DOMAIN event_q' : EventOK(f)
      /\ QueueSound'
      /\ global_time' \in Nat
  BY <1>1, <1>5, <1>7, QueueStep
<1>9. way.node \in Node /\ Sound(way.node, e.router, Wire[e.router])
  BY <1>4 DEF WayOK, Sound
<1>10. node' \in [Router -> Node] /\ NodesOK(node')
  BY <1>1, <1>3, <1>9 DEF NodesOK
<1> QED BY <1>1, <1>8, <1>10 DEF IInv, NodesOK

LEMMA ChangeIInv ==
  ASSUME IInv, NEW e \in DOMAIN event_q, \A f \in DOMAIN event_q : e.time <= f.time,
         e.type # "alarm", ChangeLink(e), delay' \in [Link -> Nat]
  PROVE  IInv'
<1>1. /\ node' = Elapsed(e)
      /\ event_q' = event_q (-) SetToBag({e})
      /\ global_time' = e.time
  BY DEF ChangeLink
<1>2. Taken(event_q, e, event_q')
  BY <1>1, TakeEvent DEF IInv
<1> DEFINE S == {}
<1>3. Requeued(event_q, e, S \cup Rearmed(e), event_q')
  BY <1>2 DEF Requeued, Taken, Rearmed
<1>4. \A f \in S : RecvOK(f) /\ f.time >= e.time
  OBVIOUS
<1> HIDE DEF S
<1>5. /\ IsABag(event_q') /\ \A f \in DOMAIN event_q' : EventOK(f)
      /\ QueueSound'
      /\ global_time' \in Nat
  BY <1>1, <1>3, <1>4, QueueStep
<1>6. node' \in [Router -> Node] /\ NodesOK(node')
  BY <1>1, ElapsedOK
<1> QED BY <1>5, <1>6 DEF IInv, NodesOK
--------------------------------------------------------------------------------
LEMMA InitIInv == Init => IInv
<1> SUFFICES ASSUME Init PROVE IInv
  OBVIOUS
<1> DEFINE As == {AlarmEvent(u, a, 0) : u \in Router, a \in DOMAIN Period}
           Ds == UNION {{Delivery(u, m, 0, InitialDelay) : m \in Hello(u)} : u \in Router}
           Q == scenario.events \cup As \cup Ds
<1>1. /\ node = [u \in Router |-> NewNode]
      /\ scenario \in Scenarios
      /\ event_q = SetToBag(Q)
      /\ global_time = 0 /\ delay = InitialDelay
  BY DEF Init
<1>2. \A e \in scenario.events : Listed(e)
  BY <1>1, NetworkAssumption DEF WellWired
<1>3. InitialDelay \in [Link -> Nat]
  BY NetworkAssumption DEF WellWired
<1>4. ASSUME NEW u \in Router, NEW a \in DOMAIN Period
      PROVE  /\ AlarmOK(AlarmEvent(u, a, 0))
             /\ AlarmEvent(u, a, 0).router = u /\ AlarmEvent(u, a, 0).alarm = a
             /\ AlarmEvent(u, a, 0).time = Period[a]
  <2>1. Period[a] \in Nat /\ 0 + Period[a] = Period[a]
    BY PeriodFacts
  <2> QED BY <2>1 DEF AlarmEvent, AlarmOK
<1>5. \A e \in Ds : RecvOK(e)
  <2> SUFFICES ASSUME NEW u \in Router, NEW m \in Hello(u)
               PROVE  RecvOK(Delivery(u, m, 0, InitialDelay))
    OBVIOUS
  <2>1. m.port \in DOMAIN Wire[u] /\ PacketOK(m.pkt, u, Wire[u][m.port])
    BY PingsOK DEF Hello
  <2> QED BY <1>3, <2>1, DeliveryOK
<1>6. \A e \in As : \E u \in Router, a \in DOMAIN Period : e = AlarmEvent(u, a, 0)
  OBVIOUS
<1>7. \A u \in Router, a \in DOMAIN Period : AlarmEvent(u, a, 0) \in As
  OBVIOUS
<1>8. /\ DOMAIN event_q = Q /\ IsABag(event_q)
      /\ \A e \in Q : event_q[e] = 1
  BY <1>1 DEF SetToBag, IsABag
<1>9. Q = scenario.events \cup As \cup Ds
  OBVIOUS
<1> HIDE DEF As, Ds, Q
<1>10. \A e \in DOMAIN event_q : EventOK(e)
  BY <1>2, <1>4, <1>5, <1>6, <1>8, <1>9 DEF EventOK
<1>11. QueueSound
  <2>1. \A e \in DOMAIN event_q : e.time >= global_time
    BY <1>1, <1>10 DEF EventOK, Listed, AlarmOK, RecvOK
  <2>2. ASSUME NEW u \in Router, NEW a \in DOMAIN Period
        PROVE  \E E \in {f \in DOMAIN event_q :
                           f.type = "alarm" /\ f.router = u /\ f.alarm = a} :
                  /\ {f \in DOMAIN event_q :
                        f.type = "alarm" /\ f.router = u /\ f.alarm = a} = {E}
                  /\ event_q[E] = 1
                  /\ E.time <= global_time + Period[a]
    <3> DEFINE E == AlarmEvent(u, a, 0)
    <3>1. /\ E \in DOMAIN event_q /\ event_q[E] = 1
          /\ E.type = "alarm" /\ E.router = u /\ E.alarm = a /\ E.time = Period[a]
      BY <1>4, <1>7, <1>8, <1>9 DEF AlarmOK
    <3>2. ASSUME NEW f \in DOMAIN event_q, f.type = "alarm", f.router = u, f.alarm = a
          PROVE  f = E
      <4>1. f \in As
        BY <1>2, <1>5, <1>8, <1>9, <3>2 DEF Listed, RecvOK
      <4>2. PICK v \in Router, b \in DOMAIN Period : f = AlarmEvent(v, b, 0)
        BY <1>6, <4>1
      <4> QED BY <1>4, <3>2, <4>2
    <3>3. Period[a] \in Nat
      BY PeriodFacts
    <3> HIDE DEF E
    <3> QED BY <1>1, <3>1, <3>2, <3>3
  <2> QED BY <2>1, <2>2 DEF QueueSound, BagToSet
<1>12. node \in [Router -> Node] /\ NodesOK(node)
  <2>1. \A u \in Router : Sound(NewNode, u, Wire[u])
    BY EmptySound
  <2>2. \A u \in Router : NewNode \in Node
    BY <2>1 DEF Sound
  <2> QED BY <1>1, <2>1, <2>2 DEF NodesOK
<1> QED BY <1>1, <1>3, <1>8, <1>10, <1>11, <1>12 DEF IInv

(* One step: whatever is dispatched, the invariant holds again. *)
LEMMA NextIInv == IInv /\ [Next]_vars => IInv'
<1> SUFFICES ASSUME IInv, [Next]_vars PROVE IInv'
  OBVIOUS
<1>1. ASSUME NEW type, NEW e \in Due(type)
      PROVE  /\ e \in DOMAIN event_q /\ e.type = type /\ EventOK(e)
             /\ \A f \in DOMAIN event_q : e.time <= f.time
             /\ e.time \in Nat
             /\ e.router \in Router => Sound(Elapsed(e)[e.router], e.router, Wire[e.router])
  <2>1. /\ e \in DOMAIN event_q /\ e.type = type
        /\ \A f \in DOMAIN event_q : e.time <= f.time
    BY DEF Due, BagToSet
  <2>2. e.time \in Nat /\ NodesOK(Elapsed(e))
    BY <2>1, ElapsedOK
  <2> QED BY <2>1, <2>2 DEF IInv, NodesOK
<1>2. CASE HandleAlarm
  <2>1. PICK e \in Due("alarm") :
           Dispatch(e, handle_alarm(Elapsed(e)[e.router], e.router, e.alarm, e.time),
                    {AlarmEvent(e.router, e.alarm, e.time)})
    BY <1>2 DEF HandleAlarm
  <2> DEFINE ways == handle_alarm(Elapsed(e)[e.router], e.router, e.alarm, e.time)
  <2>2. e.router \in Router /\ e.alarm \in DOMAIN Period
    BY <1>1 DEF EventOK, Listed, AlarmOK, RecvOK
  <2>3. \A way \in ways : WayOK(way, e.router)
    BY <1>1, <2>2, AlarmHandled
  <2>4. Rearmed(e) = {AlarmEvent(e.router, e.alarm, e.time)}
    BY <1>1 DEF Rearmed
  <2> HIDE DEF ways
  <2>5. Dispatch(e, ways, Rearmed(e))
    BY <2>1, <2>4 DEF ways
  <2> QED BY <1>1, <2>2, <2>3, <2>5, DispatchIInv
<1>3. CASE RecvPacket
  <2>1. PICK e \in Due("recv") :
           Dispatch(e, recv(Elapsed(e)[e.router], e.router, e.port, e.pkt, e.time), {})
    BY <1>3 DEF RecvPacket
  <2> DEFINE ways == recv(Elapsed(e)[e.router], e.router, e.port, e.pkt, e.time)
  <2>2. RecvOK(e)
    BY <1>1 DEF EventOK, Listed, AlarmOK
  <2>3. \A way \in ways : WayOK(way, e.router)
    BY <1>1, <2>2, RecvHandled DEF RecvOK
  <2>4. Rearmed(e) = {}
    BY <1>1 DEF Rearmed
  <2> HIDE DEF ways
  <2>5. Dispatch(e, ways, Rearmed(e))
    BY <2>1, <2>4 DEF ways
  <2> QED BY <1>1, <2>2, <2>3, <2>5, DispatchIInv DEF RecvOK
<1>4. CASE XmitEndToEnd
  <2>1. PICK e \in Due("xmit") :
           Dispatch(e, recv(Elapsed(e)[e.router], e.router, SPECIAL_PORT, e.pkt, e.time), {})
    BY <1>4 DEF XmitEndToEnd
  <2> DEFINE ways == recv(Elapsed(e)[e.router], e.router, SPECIAL_PORT, e.pkt, e.time)
  <2>2. e.router \in Router /\ e.pkt.type = "DATA"
    BY <1>1 DEF EventOK, Listed, AlarmOK, RecvOK
  <2>3. \A way \in ways : WayOK(way, e.router)
    BY <1>1, <2>2, DataHandled
  <2>4. Rearmed(e) = {}
    BY <1>1 DEF Rearmed
  <2> HIDE DEF ways
  <2>5. Dispatch(e, ways, Rearmed(e))
    BY <2>1, <2>4 DEF ways
  <2> QED BY <1>1, <2>2, <2>3, <2>5, DispatchIInv
<1>5. CASE LinkDies
  <2>1. PICK e \in Due("linkdying") : ChangeLink(e) /\ delay' = delay
    BY <1>5 DEF LinkDies
  <2> QED BY <1>1, <2>1, ChangeIInv DEF IInv
<1>6. CASE LinkComesUp
  <2>1. PICK e \in Due("linkcomingup") : ChangeLink(e) /\ delay' = delay
    BY <1>6 DEF LinkComesUp
  <2> QED BY <1>1, <2>1, ChangeIInv DEF IInv
<1>7. CASE ChangeDelay
  <2>1. PICK e \in Due("changedelay") :
           ChangeLink(e) /\ delay' = [delay EXCEPT ![e.link] = e.delay]
    BY <1>7 DEF ChangeDelay
  <2>2. e.link \in Link /\ e.delay \in Nat
    BY <1>1 DEF EventOK, Listed, AlarmOK, RecvOK
  <2>3. delay' \in [Link -> Nat]
    BY <2>1, <2>2 DEF IInv
  <2> QED BY <1>1, <2>1, <2>3, ChangeIInv
<1>8. CASE UNCHANGED vars
  BY <1>8 DEF vars, IInv, NodesOK, QueueSound, BagToSet
<1> QED BY <1>2, <1>3, <1>4, <1>5, <1>6, <1>7, <1>8 DEF Next

(* Every reachable state satisfies the inductive invariant. *)
LEMMA Invariance == Spec => []IInv
<1> QED BY InitIInv, NextIInv, PTL DEF Spec
--------------------------------------------------------------------------------
(* No event ever lies in the past, and no router loses one of its alarms   *)
(* or has one set twice, whatever else is in the queue.                    *)
THEOREM QueueAlwaysSound == Spec => []QueueSound
<1>1. IInv => QueueSound
  BY DEF IInv
<1> QED BY <1>1, Invariance, PTL

--------------------------------------------------------------------------------
(* Alarms ring a period apart, back to the first ones. *)
LEMMA BeforeNext ==
  ASSUME NEW P \in Nat \ {0}, NEW t \in Nat, NEW s \in Before(t, P)
  PROVE  s \in Nat /\ s + P <= t
<1>1. PICK k \in Nat : t = s + (k + 1) * P
  BY DEF Before
<1>2. k * P \in Nat /\ (k + 1) * P = k * P + P
  BY <1>1
<1> QED BY <1>1, <1>2 DEF Before

LEMMA BeforeLast ==
  ASSUME NEW P \in Nat \ {0}, NEW t \in Nat, NEW s \in Before(t + P, P), s # t
  PROVE  s \in Before(t, P)
<1>1. PICK k \in Nat : t + P = s + (k + 1) * P
  BY DEF Before
<1>2. s \in Nat
  BY DEF Before
<1>3. (k + 1) * P = k * P + P /\ k * P \in Nat
  OBVIOUS
<1>4. t = s + k * P
  BY <1>1, <1>2, <1>3
<1>5. k # 0
  BY <1>2, <1>4
<1>6. k - 1 \in Nat /\ k = (k - 1) + 1
  BY <1>5
<1>7. t = s + ((k - 1) + 1) * P
  BY <1>4, <1>6
<1> QED BY <1>2, <1>6, <1>7 DEF Before

(* In the period before any instant x the alarm rang. *)
LEMMA BeforeAny ==
  ASSUME NEW P \in Nat \ {0}, NEW t \in Nat, NEW x \in Nat, x <= t, x >= P
  PROVE  \E s \in Before(t, P) : s < x /\ s + P >= x
<1> DEFINE T == {k \in Nat : t - (k + 1) * P < x}
<1>1. P \in Nat \ {0}
  OBVIOUS
<1>2. T # {}
  <2>1. (t + 1) * P >= t + 1
    BY <1>1
  <2>2. t - (t + 1) * P < x
    BY <2>1
  <2> QED BY <2>2
<1>3. PICK k \in T : \A j \in T : k <= j
  <2>1. T \in SUBSET Nat
    OBVIOUS
  <2> HIDE DEF T
  <2> QED BY <1>2, <2>1, LeastNat
<1>4. k \in Nat /\ (k + 1) * P = k * P + P /\ k * P \in Nat
  BY <1>1, <1>3
<1>5. t - (k + 1) * P < x
  BY <1>3
<1>6. t - k * P >= x
  <2>1. CASE k = 0
    <3>1. k * P = 0
      BY <1>1, <2>1
    <3> QED BY <3>1
  <2>2. CASE k # 0
    <3> DEFINE j == k - 1
    <3>1. j \in Nat /\ j + 1 = k /\ ~(k <= j)
      BY <1>4, <2>2
    <3> HIDE DEF j
    <3>2. j \notin T
      <4> HIDE DEF T
      <4> QED BY <1>3, <3>1
    <3>3. ~(t - (j + 1) * P < x)
      BY <3>1, <3>2
    <3>4. ~(t - k * P < x)
      BY <3>1, <3>3
    <3> QED BY <1>4, <3>4
  <2> QED BY <1>4, <2>1, <2>2
<1> DEFINE s == t - (k + 1) * P
<1>7. s \in Int /\ s + P >= x /\ s < x /\ t = s + (k + 1) * P
  BY <1>1, <1>4, <1>5, <1>6
<1>8. s \in Nat
  BY <1>1, <1>7
<1> HIDE DEF s
<1>9. s \in Before(t, P)
  BY <1>4, <1>7, <1>8 DEF Before
<1> QED BY <1>7, <1>9
--------------------------------------------------------------------------------
(* Each router has each of its alarms once, due within its period. *)
AlarmsOnce ==
  \A u \in Router : \A a \in DOMAIN Period :
    \E e \in DOMAIN event_q :
      /\ IsAlarm(e, u, a) /\ \A f \in DOMAIN event_q : IsAlarm(f, u, a) => f = e
      /\ e.time \in Nat /\ global_time <= e.time /\ e.time <= global_time + Period[a]

LEMMA AlarmsAreOnce == IInv => AlarmsOnce
<1> SUFFICES ASSUME IInv, NEW u \in Router, NEW a \in DOMAIN Period
             PROVE  \E e \in DOMAIN event_q :
                      /\ IsAlarm(e, u, a) /\ \A f \in DOMAIN event_q : IsAlarm(f, u, a) => f = e
                      /\ e.time \in Nat /\ global_time <= e.time
                      /\ e.time <= global_time + Period[a]
  BY DEF AlarmsOnce
<1> DEFINE set == {e \in DOMAIN event_q : e.type = "alarm" /\ e.router = u /\ e.alarm = a}
<1>1. PICK e \in set : set = {e} /\ e.time <= global_time + Period[a]
  BY DEF IInv, QueueSound, BagToSet
<1>2. e \in DOMAIN event_q /\ IsAlarm(e, u, a)
  BY DEF IsAlarm
<1>3. \A f \in DOMAIN event_q : IsAlarm(f, u, a) => f \in set
  BY DEF IsAlarm
<1>4. e.time \in Nat /\ global_time <= e.time
  BY <1>2 DEF IInv, QueueSound, BagToSet, EventOK, AlarmOK, RecvOK, Listed
<1> HIDE DEF set
<1> QED BY <1>1, <1>2, <1>3, <1>4

Times == /\ PING_DURATION \in Nat \ {0} /\ TIMEOUT_DURATION \in Nat \ {0}
         /\ Period["Ping"] = PING_DURATION /\ Period["Port"] = TIMEOUT_DURATION
         /\ "Ping" \in DOMAIN Period /\ "Port" \in DOMAIN Period
         /\ PONG_TIMEOUT \in Nat
LEMMA TimesFacts == Times
BY PeriodFacts, PongTimeoutAssumption DEF Period, Times

(* An entry of a router's neighbours. *)
LEMMA EntryFacts ==
  ASSUME NEW n, NEW u, NEW peer, Sound(n, u, peer), NEW x \in DOMAIN n.neighbor_table
  PROVE  n.neighbor_table[x].timeout \in Nat /\ n.neighbor_table[x].timeout <= PONG_TIMEOUT
<1>1. n.neighbor_table[x] \in Neighbor
  BY NodeFields, MapElim DEF Sound
<1> QED BY <1>1, PongTimeoutAssumption DEF Neighbor

(* Right after a change there is nothing to show. *)
Fresh(D) == IInv /\ Bounded(D) /\ changed = global_time

LEMMA FreshTInv == ASSUME NEW D \in Nat PROVE Fresh(D) => TInv(D)
<1> SUFFICES ASSUME Fresh(D) PROVE TInv(D)
  OBVIOUS
<1>1. IInv /\ Bounded(D) /\ changed = global_time /\ changed \in Nat
  BY DEF Fresh, Bounded
<1>2. AlarmsOnce /\ Times
  BY <1>1, AlarmsAreOnce, TimesFacts
<1>3. ASSUME NEW e \in DOMAIN event_q, e.type = "recv" PROVE InTime(e, D)
  <2>1. e.time \in Nat /\ e.time <= changed + D
    BY <1>1, <1>3 DEF Bounded, IInv, EventOK, AlarmOK, RecvOK, Listed
  <2>2. e.time <= changed + 2 * D
    BY <1>1, <2>1
  <2> QED BY <2>1, <2>2 DEF InTime
<1>4. Expiring(D)
  <2> SUFFICES ASSUME NEW u \in Router, NEW x \in DOMAIN node[u].neighbor_table
               PROVE  /\ global_time + node[u].neighbor_table[x].timeout <= changed + D + PONG_TIMEOUT
                      /\ \A e \in DOMAIN event_q : IsAlarm(e, u, "Port") =>
                            e.time <= changed + D + PONG_TIMEOUT + TIMEOUT_DURATION
    BY DEF Expiring
  <2>1. Sound(node[u], u, Wire[u])
    BY <1>1 DEF IInv, NodesOK
  <2>2. /\ node[u].neighbor_table[x].timeout \in Nat
        /\ node[u].neighbor_table[x].timeout <= PONG_TIMEOUT
    BY <2>1, EntryFacts
  <2>3. ASSUME NEW e \in DOMAIN event_q, IsAlarm(e, u, "Port")
        PROVE  e.time <= changed + D + PONG_TIMEOUT + TIMEOUT_DURATION
    <3>1. e.time \in Nat /\ e.time <= global_time + TIMEOUT_DURATION
      BY <1>2, <2>3 DEF AlarmsOnce, Times
    <3> QED BY <1>1, <1>2, <3>1 DEF Times
  <2> QED BY <1>1, <1>2, <2>2, <2>3 DEF Times
<1>5. Rounds(D)
  <2> SUFFICES ASSUME NEW u \in Router, NEW e \in DOMAIN event_q, IsAlarm(e, u, "Ping"),
                      NEW s \in Before(e.time, PING_DURATION)
               PROVE  ~(s > changed + 2 * D)
    BY DEF Rounds
  <2>1. e.time \in Nat /\ e.time <= global_time + PING_DURATION
    BY <1>2 DEF AlarmsOnce, Times
  <2>2. s \in Nat /\ s + PING_DURATION <= e.time
    BY <1>2, <2>1, BeforeNext DEF Times
  <2> QED BY <1>1, <1>2, <2>1, <2>2 DEF Times
<1> QED BY <1>1, <1>3, <1>4, <1>5 DEF TInv

LEMMA FreshTInvNext == ASSUME NEW D \in Nat PROVE Fresh(D)' => TInv(D)'
<1>1. Fresh(D) => TInv(D)
  BY FreshTInv
<1> QED BY <1>1, PTL
--------------------------------------------------------------------------------
(* What a handler does to the neighbours and what of PINGs and PONGs it    *)
(* sends: n is the router before event e, way how its handler ends.        *)
NoPings(way) == \A m \in way.out : m.pkt.type \notin {"PING", "PONG"}

Did(e, n, way) ==
  \/ /\ e.type = "recv" /\ e.pkt.type = "PONG" /\ e.pkt.dst = e.router
     /\ way.node.neighbor_table
          = Put(n.neighbor_table, Wire[e.router][e.port], Entry(e.port, RTT(e.pkt, e.time)))
     /\ NoPings(way)
  \/ /\ e.type = "recv" /\ e.pkt.type = "PING"
     /\ way.node.neighbor_table = n.neighbor_table
     /\ way.out = recv_ping_send_pong(e.router, e.port, e.pkt)
  \/ /\ IsAlarm(e, e.router, "Ping")
     /\ way.node.neighbor_table = n.neighbor_table
     /\ way.out = send_ping(e.router, DOMAIN Wire[e.router], e.time)
  \/ /\ IsAlarm(e, e.router, "Port")
     /\ way.node.neighbor_table = Erase(n.neighbor_table, Silent(n))
     /\ NoPings(way)
  \/ /\ ~(e.type = "recv" /\ e.pkt.type = "PING")
     /\ ~(e.type = "recv" /\ e.pkt.type = "PONG" /\ e.pkt.dst = e.router)
     /\ ~IsAlarm(e, e.router, "Ping") /\ ~IsAlarm(e, e.router, "Port")
     /\ way.node.neighbor_table = n.neighbor_table
     /\ NoPings(way)

LEMMA EndedNoPings == ASSUME NEW r PROVE Ended(r).node = r.node /\ NoPings(Ended(r))
BY DEF Ended, NoPings

LEMMA DataDid ==
  ASSUME NEW u \in Router, NEW n, NEW port, NEW t, NEW msg, msg.type = "DATA",
         NEW way \in recv(n, u, port, msg, t)
  PROVE  way.node = n /\ NoPings(way)
<1>1. way = [node |-> n, out |-> forward(n, u, msg)]
  BY DEF recv
<1> QED BY <1>1 DEF forward, NoPings

LEMMA RecvDid ==
  ASSUME NEW e, RecvOK(e), e.type = "recv", NEW n, Sound(n, e.router, Wire[e.router]),
         NEW way \in recv(n, e.router, e.port, e.pkt, e.time)
  PROVE  Did(e, n, way)
<1> DEFINE u == e.router
           port == e.port
           msg == e.pkt
           peer == Wire[u]
           t == e.time
<1>1. /\ u \in Router /\ port \in DOMAIN peer /\ t \in Nat
      /\ PacketOK(msg, peer[port], u) /\ way \in recv(n, u, port, msg, t)
      /\ ~IsAlarm(e, u, "Ping") /\ ~IsAlarm(e, u, "Port")
      /\ Sound(n, u, peer)
  BY DEF RecvOK, IsAlarm
<1>2. CASE msg.type = "DATA"
  BY <1>1, <1>2, DataDid DEF Did
<1>3. CASE msg.type = "PING"
  <2>1. way = [node |-> n, out |-> recv_ping_send_pong(u, port, msg)]
    BY <1>1, <1>3 DEF recv
  <2> QED BY <1>1, <1>3, <2>1 DEF Did
<1>4. CASE msg.type = "PONG" /\ msg.src = peer[port] /\ msg.stamp \in Nat
  <2>1. CASE msg.dst # u
    <3>1. way = [node |-> n, out |-> {}]
      BY <1>1, <1>4, <2>1 DEF recv
    <3> QED BY <1>1, <1>4, <2>1, <3>1 DEF Did, NoPings
  <2>2. CASE msg.dst = u
    <3> DEFINE cost == RTT(msg, t)
    <3>1. PICK r \in recv_pong_LS(n, u, port, peer[port], cost) : way = Ended(r)
      BY <1>1, <1>4, <2>2 DEF recv
    <3>2. cost \in Cost
      BY <1>1, <1>4, CostModAssumption DEF RTT, Cost
    <3>3. Wired(u, peer)
      BY <1>1, WireFacts
    <3> HIDE DEF cost, peer, u, port
    <3>4. PICK q : Sound(q, u, peer) /\ Learned(n, q, peer[port], port, cost) /\ Ends(q, r, u)
      BY <1>1, <3>1, <3>2, <3>3, RecvPongHandled
    <3>5. r.node.neighbor_table = Put(n.neighbor_table, peer[port], Entry(port, cost))
      BY <1>1, <3>3, <3>4, EndsFacts DEF Learned, SameLinks
    <3>6. way.node = r.node /\ NoPings(way)
      BY <3>1, EndedNoPings
    <3>7. way.node.neighbor_table = Put(n.neighbor_table, peer[port], Entry(port, cost))
      BY <3>5, <3>6
    <3> QED BY <1>4, <2>2, <3>6, <3>7 DEF Did, cost, peer, u, port
  <2> QED BY <2>1, <2>2
<1>5. CASE msg.type = "LS" /\ msg.lsp \in LSP
  <2> DEFINE d == msg.lsp
             r == recv_LS(n, u, port, d)
  <2>1. way = Ended(r)
    BY <1>1, <1>5 DEF recv
  <2>2. d \in LSP
    BY <1>5
  <2>3. Wired(u, peer)
    BY <1>1, WireFacts
  <2> HIDE DEF d, peer, u, port
  <2>4. r.node.neighbor_table = n.neighbor_table
    BY <1>1, <2>2, <2>3, RecvLSFloods DEF SameLinks
  <2> HIDE DEF r
  <2>5. way.node = r.node /\ NoPings(way)
    BY <2>1, EndedNoPings
  <2> QED BY <1>1, <1>5, <2>4, <2>5 DEF Did, u
<1> QED BY <1>1, <1>2, <1>3, <1>4, <1>5 DEF PacketOK

LEMMA AlarmDid ==
  ASSUME NEW e, AlarmOK(e), NEW n, Sound(n, e.router, Wire[e.router]),
         NEW way \in handle_alarm(n, e.router, e.alarm, e.time)
  PROVE  Did(e, n, way)
<1> DEFINE u == e.router
           a == e.alarm
           peer == Wire[u]
<1>1. /\ u \in Router /\ a \in {"Ping", "Port", "LS"} /\ e.type = "alarm"
      /\ way \in handle_alarm(n, u, a, e.time) /\ Wired(u, peer)
  BY WireFacts DEF AlarmOK, Period
<1>2. CASE a = "Ping"
  <2>1. way = [node |-> n, out |-> send_ping(u, DOMAIN Wire[u], e.time)]
    BY <1>1, <1>2 DEF handle_alarm
  <2> QED BY <1>1, <1>2, <2>1 DEF Did, IsAlarm
<1>3. CASE a = "LS"
  <2>1. PICK table \in Tables(n) : way = Ended(update_LS(n, u, table))
    BY <1>1, <1>3 DEF handle_alarm
  <2> HIDE DEF peer
  <2>2. update_LS(n, u, table).node.neighbor_table = n.neighbor_table
    BY <1>1, UpdateAnnounces DEF SameLinks, peer
  <2>3. way.node.neighbor_table = n.neighbor_table /\ NoPings(way)
    BY <2>1, <2>2, EndedNoPings
  <2> QED BY <1>1, <1>3, <2>3 DEF Did, IsAlarm
<1>4. CASE a = "Port"
  <2>1. PICK r \in update_timeout_LS(n, u) : way = Ended(r)
    BY <1>1, <1>4 DEF handle_alarm
  <2> HIDE DEF peer
  <2>2. PICK q : Sound(q, u, peer) /\ Cleared(n, q) /\ Ends(q, r, u)
    BY <1>1, <2>1, UpdateTimeoutHandled DEF peer
  <2>3. r.node.neighbor_table = Erase(n.neighbor_table, Silent(n))
    BY <1>1, <2>2, EndsFacts DEF Cleared, SameLinks
  <2>4. way.node.neighbor_table = Erase(n.neighbor_table, Silent(n)) /\ NoPings(way)
    BY <2>1, <2>3, EndedNoPings
  <2> QED BY <1>1, <1>4, <2>4 DEF Did, IsAlarm
<1> QED BY <1>1, <1>2, <1>3, <1>4
--------------------------------------------------------------------------------
(***************************************************************************)
(* How LSPs spread: what a handler does to the numbers, the graph and the  *)
(* routes of its router, and which LSPs it sends.                          *)
(***************************************************************************)
IsLSP(e) == e.type = "recv" /\ e.pkt.type = "LS"
NoLSPs(way) == \A m \in way.out : m.pkt.type # "LS"
Copies(n, lsp, S) ==
  {[port |-> n.neighbor_table[x].port, pkt |-> [type |-> "LS", lsp |-> lsp]] : x \in S}

(* A newer LSP is taken in and passed on. *)
TakesIn(e, n, way) ==
  LET m == way.node
      lsp == e.pkt.lsp
  IN  /\ IsLSP(e) /\ ~Seen(n, lsp)
      /\ Ready(m) /\ m.neighbor_table = n.neighbor_table
      /\ m.sequence_num = n.sequence_num
      /\ m.max_sequence_num = Put(n.max_sequence_num, lsp.source, lsp.seq)
      /\ m.graph = Announce(n.graph, lsp.source, lsp.entries)
      /\ way.out = Copies(n, lsp, {x \in DOMAIN n.neighbor_table :
                                     n.neighbor_table[x].port # e.port})

(* Otherwise no number of another router changes, and routes do only where *)
(* a PONG touched one.                                                     *)
Touched(n, m) == \/ m.routing_table = n.routing_table
                 \/ \E x \in DOMAIN m.neighbor_table :
                       m.routing_table = Touch(n.routing_table, x, ZeroRoute)

Kept(e, n, way) == /\ IsLSP(e) => Seen(n, e.pkt.lsp)
                   /\ way.node.max_sequence_num = n.max_sequence_num
                   /\ Touched(n, way.node)

(* The check for silent neighbours lets edges expire. *)
Swept(e, n) == IF IsAlarm(e, e.router, "Port") THEN Expire(n.graph) ELSE n.graph

Calm(e, n, way) ==
  /\ Kept(e, n, way) /\ ~IsAlarm(e, e.router, "LS")
  /\ way.node.graph = Swept(e, n)
  /\ way.node.sequence_num = n.sequence_num
  /\ NoLSPs(way)

(* The router announces its neighbours. *)
Posts(n, u, way) ==
  \E table \in Tables(way.node) :
     way.out = Copies(way.node, Announcement(n, u, table), DOMAIN way.node.neighbor_table)

Announces(e, n, way) ==
  /\ Kept(e, n, way) /\ ~IsLSP(e)
  /\ way.node.graph = Announce(Swept(e, n), e.router, Costs(way.node))
  /\ way.node.sequence_num = (n.sequence_num + 1) % SEQ_MOD
  /\ Posts(n, e.router, way)

Spread(e, n, way) == TakesIn(e, n, way) \/ Calm(e, n, way) \/ Announces(e, n, way)

LEMMA EndedCopies ==
  ASSUME NEW n, NEW lsp, NEW S, NEW r,
         r.out = {[port |-> n.neighbor_table[x].port, lsp |-> lsp] : x \in S}
  PROVE  Ended(r).out = Copies(n, lsp, S)
<1> DEFINE out == {[port |-> m.port, pkt |-> [type |-> "LS", lsp |-> m.lsp]] : m \in r.out}
           copy(x) == [port |-> n.neighbor_table[x].port, pkt |-> [type |-> "LS", lsp |-> lsp]]
           sent(x) == [port |-> n.neighbor_table[x].port, lsp |-> lsp]
<1>1. ASSUME NEW c \in out PROVE c \in {copy(x) : x \in S}
  <2>1. PICK m \in r.out : c = [port |-> m.port, pkt |-> [type |-> "LS", lsp |-> m.lsp]]
    OBVIOUS
  <2>2. PICK x \in S : m = sent(x)
    OBVIOUS
  <2>3. c = copy(x)
    BY <2>1, <2>2
  <2> QED BY <2>3
<1>2. ASSUME NEW x \in S PROVE copy(x) \in out
  <2>1. sent(x) \in r.out /\ sent(x).port = n.neighbor_table[x].port /\ sent(x).lsp = lsp
    OBVIOUS
  <2> QED BY <2>1
<1>3. out = {copy(x) : x \in S}
  <2> HIDE DEF out, copy
  <2> QED BY <1>1, <1>2
<1> QED BY <1>3 DEF Ended, Copies

(* How a handler ends that has brought its router's tables to q. *)
Closed(q, u, way) ==
  /\ way.node.neighbor_table = q.neighbor_table
  /\ way.node.routing_table = q.routing_table
  /\ way.node.max_sequence_num = q.max_sequence_num
  /\ \/ /\ way.node.graph = q.graph /\ way.node.sequence_num = q.sequence_num
        /\ NoLSPs(way)
     \/ /\ way.node.graph = Announce(q.graph, u, Costs(way.node))
        /\ way.node.sequence_num = (q.sequence_num + 1) % SEQ_MOD
        /\ Posts(q, u, way)

LEMMA UpdateCloses ==
  ASSUME NEW u \in Router, NEW q, Sound(q, u, Wire[u]), NEW table \in Tables(q),
         NEW way, way = Ended(update_LS(q, u, table))
  PROVE  /\ way.node.neighbor_table = q.neighbor_table
         /\ way.node.routing_table = q.routing_table
         /\ way.node.max_sequence_num = q.max_sequence_num
         /\ way.node.graph = Announce(q.graph, u, Costs(way.node))
         /\ way.node.sequence_num = (q.sequence_num + 1) % SEQ_MOD
         /\ Posts(q, u, way)
<1> DEFINE peer == Wire[u]
           r == update_LS(q, u, table)
           lsp == Announcement(q, u, table)
<1>1. Wired(u, peer)
  BY WireFacts
<1> HIDE DEF peer
<1>2. /\ r.node.neighbor_table = q.neighbor_table
      /\ r.node.graph = Announce(q.graph, u, Costs(q))
      /\ r.node.routing_table = q.routing_table
      /\ r.node.max_sequence_num = q.max_sequence_num
      /\ r.node.sequence_num = (q.sequence_num + 1) % SEQ_MOD
      /\ r.out = {[port |-> q.neighbor_table[x].port, lsp |-> lsp] : x \in DOMAIN q.neighbor_table}
  BY <1>1, UpdateAnnounces DEF SameLinks, peer
<1> HIDE DEF r, lsp
<1>3. way.out = Copies(q, lsp, DOMAIN q.neighbor_table) /\ way.node = r.node
  <2>1. Ended(r).out = Copies(q, lsp, DOMAIN q.neighbor_table)
    BY <1>2, EndedCopies
  <2> QED BY <2>1 DEF Ended, r
<1>4. Costs(way.node) = Costs(q)
  BY <1>2, <1>3 DEF Costs
<1>5. table \in Tables(way.node)
  BY <1>4 DEF Tables
<1>6. Copies(way.node, lsp, DOMAIN way.node.neighbor_table)
        = Copies(q, lsp, DOMAIN q.neighbor_table)
  BY <1>2, <1>3 DEF Copies
<1> QED BY <1>2, <1>3, <1>4, <1>5, <1>6 DEF Posts, lsp

LEMMA EndsClosed ==
  ASSUME NEW u \in Router, NEW q, Sound(q, u, Wire[u]), NEW r, Ends(q, r, u)
  PROVE  Closed(q, u, Ended(r))
<1>1. CASE r = [node |-> q, out |-> {}]
  BY <1>1 DEF Ended, Closed, NoLSPs
<1>2. ASSUME NEW table \in Tables(q), r = update_LS(q, u, table)
      PROVE  Closed(q, u, Ended(r))
  BY <1>2, UpdateCloses DEF Closed
<1> QED BY <1>1, <1>2 DEF Ends

(* A handler that has kept all but what Kept allows, and swept. *)
LEMMA ClosedSpread ==
  ASSUME NEW e, NEW n, NEW q, NEW way, Closed(q, e.router, way),
         ~IsLSP(e), ~IsAlarm(e, e.router, "LS"),
         SameNumbers(n, q), q.graph = Swept(e, n), Touched(n, q)
  PROVE  Spread(e, n, way)
<1>1. Kept(e, n, way)
  BY DEF Kept, Closed, SameNumbers, Touched
<1>2. CASE /\ way.node.graph = q.graph /\ way.node.sequence_num = q.sequence_num
           /\ NoLSPs(way)
  BY <1>1, <1>2 DEF Calm, Spread, SameNumbers
<1>3. CASE /\ way.node.graph = Announce(q.graph, e.router, Costs(way.node))
           /\ way.node.sequence_num = (q.sequence_num + 1) % SEQ_MOD
           /\ Posts(q, e.router, way)
  <2>1. Posts(n, e.router, way)
    BY <1>3 DEF Posts, Announcement, SameNumbers
  <2> QED BY <1>1, <1>3, <2>1 DEF Announces, Spread, SameNumbers
<1> QED BY <1>2, <1>3 DEF Closed

(* A handler that changes nothing and sends no LSP. *)
LEMMA StillSpread ==
  ASSUME NEW e, NEW n, NEW way, way.node = n, NoLSPs(way), IsLSP(e) => Seen(n, e.pkt.lsp),
         ~IsAlarm(e, e.router, "Port"), ~IsAlarm(e, e.router, "LS")
  PROVE  Spread(e, n, way)
BY DEF Spread, Calm, Kept, Touched, Swept

LEMMA DataSpread ==
  ASSUME NEW e, e.type \in {"recv", "xmit"}, e.router \in Router, e.pkt.type = "DATA",
         NEW port, NEW n, NEW way \in recv(n, e.router, port, e.pkt, e.time)
  PROVE  Spread(e, n, way)
<1>1. way = [node |-> n, out |-> forward(n, e.router, e.pkt)]
  BY DEF recv
<1>2. NoLSPs(way)
  BY <1>1 DEF forward, NoLSPs
<1> QED BY <1>1, <1>2, StillSpread DEF IsLSP, IsAlarm

LEMMA RecvSpread ==
  ASSUME NEW e, RecvOK(e), e.type = "recv", NEW n, Sound(n, e.router, Wire[e.router]),
         NEW way \in recv(n, e.router, e.port, e.pkt, e.time)
  PROVE  Spread(e, n, way)
<1> DEFINE u == e.router
           port == e.port
           msg == e.pkt
           peer == Wire[u]
           t == e.time
<1>1. /\ u \in Router /\ port \in DOMAIN peer /\ t \in Nat
      /\ PacketOK(msg, peer[port], u) /\ way \in recv(n, u, port, msg, t)
      /\ ~IsAlarm(e, u, "LS") /\ ~IsAlarm(e, u, "Port")
      /\ Sound(n, u, peer) /\ Wired(u, peer)
  BY WireFacts DEF RecvOK, IsAlarm
<1>2. CASE msg.type = "DATA"
  BY <1>1, <1>2, DataSpread
<1>3. CASE msg.type = "PING"
  <2>1. way = [node |-> n, out |-> recv_ping_send_pong(u, port, msg)]
    BY <1>1, <1>3 DEF recv
  <2>2. NoLSPs(way) /\ way.node = n
    BY <2>1 DEF recv_ping_send_pong, NoLSPs
  <2> QED BY <1>1, <1>3, <2>2, StillSpread DEF IsLSP
<1>4. CASE msg.type = "PONG" /\ msg.src = peer[port] /\ msg.stamp \in Nat
  <2>1. CASE msg.dst # u
    <3>1. way = [node |-> n, out |-> {}]
      BY <1>1, <1>4, <2>1 DEF recv
    <3>2. NoLSPs(way) /\ way.node = n
      BY <3>1 DEF NoLSPs
    <3> QED BY <1>1, <1>4, <3>2, StillSpread DEF IsLSP
  <2>2. CASE msg.dst = u
    <3> DEFINE cost == RTT(msg, t)
    <3>1. PICK r \in recv_pong_LS(n, u, port, peer[port], cost) : way = Ended(r)
      BY <1>1, <1>4, <2>2 DEF recv
    <3>2. cost \in Cost
      BY <1>1, <1>4, CostModAssumption DEF RTT, Cost
    <3> HIDE DEF cost, peer, u, port
    <3>3. PICK q : Sound(q, u, peer) /\ Learned(n, q, peer[port], port, cost) /\ Ends(q, r, u)
      BY <1>1, <3>1, <3>2, RecvPongHandled
    <3>4. Closed(q, u, way)
      BY <1>1, <3>1, <3>3, EndsClosed DEF peer
    <3>5. peer[port] \in DOMAIN q.neighbor_table
      BY <3>3 DEF Learned, Put
    <3>6. Touched(n, q)
      BY <3>3, <3>5 DEF Learned, Touched
    <3>7. SameNumbers(n, q) /\ q.graph = Swept(e, n)
      BY <1>1, <3>3 DEF Learned, Swept, u
    <3> QED BY <1>1, <1>4, <3>4, <3>6, <3>7, ClosedSpread DEF IsLSP, u
  <2> QED BY <2>1, <2>2
<1>5. CASE msg.type = "LS" /\ msg.lsp \in LSP
  <2> DEFINE d == msg.lsp
             r == recv_LS(n, u, port, d)
  <2>1. way = Ended(r) /\ IsLSP(e) /\ e.pkt.lsp = d
    BY <1>1, <1>5 DEF recv, IsLSP
  <2>2. d \in LSP
    BY <1>5
  <2> HIDE DEF d, peer, u, port
  <2>3. CASE Seen(n, d)
    <3>1. r = [node |-> n, out |-> {}]
      BY <1>1, <2>2, <2>3, RecvLSFloods
    <3>2. way.node = n /\ NoLSPs(way)
      BY <2>1, <3>1 DEF Ended, NoLSPs
    <3> QED BY <1>1, <2>1, <2>3, <3>2, StillSpread DEF u
  <2>4. CASE ~Seen(n, d)
    <3>1. /\ Ready(r.node) /\ r.node.neighbor_table = n.neighbor_table
          /\ r.node.sequence_num = n.sequence_num
          /\ r.node.max_sequence_num = Put(n.max_sequence_num, d.source, d.seq)
          /\ r.node.graph = Announce(n.graph, d.source, d.entries)
          /\ r.out = send_LS(n, d, port)
      BY <1>1, <2>2, <2>4, RecvLSFloods DEF SameLinks
    <3> HIDE DEF r
    <3> DEFINE X == {x \in DOMAIN n.neighbor_table : n.neighbor_table[x].port # port}
    <3>2. r.out = {[port |-> n.neighbor_table[x].port, lsp |-> d] : x \in X}
      BY <3>1, Zenon DEF send_LS
    <3> HIDE DEF X
    <3>3. way.out = Copies(n, d, X) /\ way.node = r.node
      <4>1. Ended(r).out = Copies(n, d, X)
        BY <3>2, EndedCopies
      <4> QED BY <2>1, <4>1 DEF Ended
    <3>4. TakesIn(e, n, way)
      BY <2>1, <2>4, <3>1, <3>3 DEF TakesIn, X, port
    <3> QED BY <3>4 DEF Spread
  <2> QED BY <2>3, <2>4
<1> QED BY <1>1, <1>2, <1>3, <1>4, <1>5 DEF PacketOK

LEMMA AlarmSpread ==
  ASSUME NEW e, AlarmOK(e), NEW n, Sound(n, e.router, Wire[e.router]),
         NEW way \in handle_alarm(n, e.router, e.alarm, e.time)
  PROVE  Spread(e, n, way)
<1> DEFINE u == e.router
           a == e.alarm
           peer == Wire[u]
<1>1. /\ u \in Router /\ a \in {"Ping", "Port", "LS"} /\ e.type = "alarm"
      /\ way \in handle_alarm(n, u, a, e.time) /\ Wired(u, peer) /\ ~IsLSP(e)
  BY WireFacts DEF AlarmOK, Period, IsLSP
<1>2. CASE a = "Ping"
  <2>1. way = [node |-> n, out |-> send_ping(u, DOMAIN Wire[u], e.time)]
    BY <1>1, <1>2 DEF handle_alarm
  <2>2. way.node = n /\ NoLSPs(way)
    BY <2>1 DEF send_ping, NoLSPs
  <2> QED BY <1>1, <1>2, <2>2, StillSpread DEF IsAlarm
<1>3. CASE a = "LS"
  <2>1. PICK table \in Tables(n) : way = Ended(update_LS(n, u, table))
    BY <1>1, <1>3 DEF handle_alarm
  <2> HIDE DEF peer
  <2>2. /\ way.node.routing_table = n.routing_table
        /\ way.node.max_sequence_num = n.max_sequence_num
        /\ way.node.graph = Announce(n.graph, u, Costs(way.node))
        /\ way.node.sequence_num = (n.sequence_num + 1) % SEQ_MOD
        /\ Posts(n, u, way)
    BY <1>1, <2>1, UpdateCloses
  <2>3. Swept(e, n) = n.graph
    BY <1>3 DEF Swept, IsAlarm
  <2> QED BY <1>1, <2>2, <2>3 DEF Spread, Announces, Kept, Touched
<1>4. CASE a = "Port"
  <2>1. PICK r \in update_timeout_LS(n, u) : way = Ended(r)
    BY <1>1, <1>4 DEF handle_alarm
  <2> HIDE DEF peer
  <2>2. PICK q : Sound(q, u, peer) /\ Cleared(n, q) /\ Ends(q, r, u)
    BY <1>1, <2>1, UpdateTimeoutHandled DEF peer
  <2>3. Closed(q, u, way)
    BY <1>1, <2>1, <2>2, EndsClosed DEF peer
  <2>4. SameNumbers(n, q) /\ q.graph = Swept(e, n) /\ Touched(n, q)
    BY <1>1, <1>4, <2>2 DEF Cleared, Swept, IsAlarm, Touched
  <2> QED BY <1>1, <1>4, <2>3, <2>4, ClosedSpread DEF IsAlarm
<1> QED BY <1>1, <1>2, <1>3, <1>4
--------------------------------------------------------------------------------
(* Event e is dispatched, way is how its handler ends, S are the arrivals  *)
(* of the packets it sends; if none of them is lost, all are there that    *)
(* were sent on links that are alive.                                      *)
Dispatching(e, way, S) ==
  /\ e \in DOMAIN event_q /\ e.time \in Nat /\ e.time >= global_time /\ e.router \in Router
  /\ WayOK(way, e.router) /\ Did(e, Elapsed(e)[e.router], way)
  /\ Spread(e, Elapsed(e)[e.router], way)
  /\ node' = [Elapsed(e) EXCEPT ![e.router] = way.node]
  /\ Requeued(event_q, e, S \cup Rearmed(e), event_q')
  /\ \A f \in S : \E m \in way.out : /\ f = Delivery(e.router, m, e.time, delay)
                                     /\ LinkAt(e.router, m.port) \in is_alive
  /\ global_time' = e.time
  /\ is_alive' = is_alive /\ delay' = delay
  /\ \/ changed' = e.time
     \/ /\ changed' = changed
        /\ IsFiniteSet(way.out) =>
             \A m \in way.out : LinkAt(e.router, m.port) \in is_alive =>
                Delivery(e.router, m, e.time, delay) \in S

LEMMA DispatchSums ==
  ASSUME IInv, NEW e \in DOMAIN event_q, e.router \in Router, NEW ways,
         \A way \in ways : /\ WayOK(way, e.router) /\ Did(e, Elapsed(e)[e.router], way)
                           /\ Spread(e, Elapsed(e)[e.router], way),
         Dispatch(e, ways, Rearmed(e))
  PROVE  \E way \in ways : \E S : Dispatching(e, way, S)
<1>1. PICK way \in ways : \E sent \in xmit(e.router, way.out, e.time) :
         /\ node' = [Elapsed(e) EXCEPT ![e.router] = way.node]
         /\ event_q' = (event_q (-) SetToBag({e})) (+) sent.events (+) SetToBag(Rearmed(e))
         /\ changed' = IF sent.gone = 0 THEN changed ELSE e.time
         /\ global_time' = e.time
         /\ is_alive' = is_alive /\ delay' = delay
  BY DEF Dispatch
<1>2. PICK sent \in xmit(e.router, way.out, e.time) :
         /\ event_q' = (event_q (-) SetToBag({e})) (+) sent.events (+) SetToBag(Rearmed(e))
         /\ changed' = IF sent.gone = 0 THEN changed ELSE e.time
  BY <1>1
<1> DEFINE carried == {m \in way.out : LinkAt(e.router, m.port) \in is_alive}
           risky == {m \in carried : /\ e.time <= LossEnd
                                     /\ LinkAt(e.router, m.port) \in scenario.lossy}
<1>3. PICK gone \in SUBSET risky :
         sent = [events |-> SetToBag({Delivery(e.router, m, e.time, delay) : m \in carried \ gone}),
                 gone   |-> Cardinality(gone)]
  BY DEF xmit
<1> DEFINE S == {Delivery(e.router, m, e.time, delay) : m \in carried \ gone}
<1>4. sent.events = SetToBag(S) /\ sent.gone = Cardinality(gone)
  BY <1>3
<1>5. \A f \in S : \E m \in way.out : /\ f = Delivery(e.router, m, e.time, delay)
                                      /\ LinkAt(e.router, m.port) \in is_alive
  OBVIOUS
<1>6. ASSUME IsFiniteSet(way.out), Cardinality(gone) = 0
      PROVE  \A m \in way.out : LinkAt(e.router, m.port) \in is_alive =>
                Delivery(e.router, m, e.time, delay) \in S
  <2>1. gone \subseteq way.out
    OBVIOUS
  <2>2. IsFiniteSet(gone)
    BY <1>6, <2>1, FS_Subset
  <2>3. gone = {}
    BY <1>6, <2>2, FS_EmptySet
  <2> QED BY <2>3
<1>7. S \cap Rearmed(e) = {}
  BY DEF Delivery, Rearmed, AlarmEvent
<1> HIDE DEF S
<1>8. Requeued(event_q, e, S \cup Rearmed(e), event_q')
  BY <1>2, <1>4, <1>7, Requeue DEF IInv
<1>9. e.time \in Nat /\ e.time >= global_time
  BY ElapsedOK DEF IInv, QueueSound, BagToSet
<1>10. \/ changed' = e.time
       \/ /\ changed' = changed
          /\ IsFiniteSet(way.out) =>
             \A m \in way.out : LinkAt(e.router, m.port) \in is_alive =>
                Delivery(e.router, m, e.time, delay) \in S
  BY <1>2, <1>4, <1>6
<1>11. Dispatching(e, way, S)
  BY <1>1, <1>5, <1>8, <1>9, <1>10 DEF Dispatching
<1> QED BY <1>11

(* Event e changes its link. *)
Changing(e) ==
  /\ e \in DOMAIN event_q /\ ChangeLink(e)
  /\ is_alive' \subseteq is_alive \cup Link
  /\ \/ delay' = delay
     \/ e.type = "changedelay" /\ delay' = [delay EXCEPT ![e.link] = e.delay]

(* What a step is: an event is dispatched to a router or changes a link.   *)
LEMMA Steps ==
  ASSUME IInv, [Next]_vars
  PROVE  \/ \E e, way, S : Dispatching(e, way, S)
         \/ \E e : Changing(e)
         \/ UNCHANGED vars
<1> SUFFICES ASSUME Next
             PROVE  (\E e, way, S : Dispatching(e, way, S)) \/ (\E e : Changing(e))
  OBVIOUS
<1>1. ASSUME NEW type, NEW e \in Due(type)
      PROVE  /\ e \in DOMAIN event_q /\ e.type = type /\ EventOK(e)
             /\ e.time \in Nat
             /\ e.router \in Router => Sound(Elapsed(e)[e.router], e.router, Wire[e.router])
  <2>1. e \in DOMAIN event_q /\ e.type = type
    BY DEF Due, BagToSet
  <2>2. e.time \in Nat /\ NodesOK(Elapsed(e))
    BY <2>1, ElapsedOK
  <2> QED BY <2>1, <2>2 DEF IInv, NodesOK
<1>2. ASSUME NEW e \in DOMAIN event_q, e.router \in Router, NEW ways,
             \A way \in ways : /\ WayOK(way, e.router) /\ Did(e, Elapsed(e)[e.router], way)
                               /\ Spread(e, Elapsed(e)[e.router], way),
             Dispatch(e, ways, Rearmed(e))
      PROVE  \E f, way, S : Dispatching(f, way, S)
  <2>1. PICK way \in ways : \E S : Dispatching(e, way, S)
    BY <1>2, DispatchSums
  <2> QED BY <2>1
<1>3. CASE HandleAlarm
  <2>1. PICK e \in Due("alarm") :
           Dispatch(e, handle_alarm(Elapsed(e)[e.router], e.router, e.alarm, e.time),
                    {AlarmEvent(e.router, e.alarm, e.time)})
    BY <1>3 DEF HandleAlarm
  <2> DEFINE ways == handle_alarm(Elapsed(e)[e.router], e.router, e.alarm, e.time)
  <2>2. AlarmOK(e) /\ e.router \in Router /\ e.alarm \in DOMAIN Period
    BY <1>1 DEF EventOK, Listed, AlarmOK, RecvOK
  <2>3. \A way \in ways : WayOK(way, e.router)
    BY <1>1, <2>2, AlarmHandled
  <2>4. \A way \in ways : /\ Did(e, Elapsed(e)[e.router], way)
                           /\ Spread(e, Elapsed(e)[e.router], way)
    BY <1>1, <2>2, AlarmDid, AlarmSpread
  <2>5. Rearmed(e) = {AlarmEvent(e.router, e.alarm, e.time)}
    BY <1>1 DEF Rearmed
  <2> HIDE DEF ways
  <2>6. Dispatch(e, ways, Rearmed(e))
    BY <2>1, <2>5 DEF ways
  <2> QED BY <1>1, <1>2, <2>2, <2>3, <2>4, <2>6
<1>4. CASE RecvPacket
  <2>1. PICK e \in Due("recv") :
           Dispatch(e, recv(Elapsed(e)[e.router], e.router, e.port, e.pkt, e.time), {})
    BY <1>4 DEF RecvPacket
  <2> DEFINE ways == recv(Elapsed(e)[e.router], e.router, e.port, e.pkt, e.time)
  <2>2. RecvOK(e) /\ e.router \in Router
    BY <1>1 DEF EventOK, Listed, AlarmOK, RecvOK
  <2>3. \A way \in ways : WayOK(way, e.router)
    BY <1>1, <2>2, RecvHandled DEF RecvOK
  <2>4. \A way \in ways : /\ Did(e, Elapsed(e)[e.router], way)
                           /\ Spread(e, Elapsed(e)[e.router], way)
    BY <1>1, <2>2, RecvDid, RecvSpread
  <2>5. Rearmed(e) = {}
    BY <1>1 DEF Rearmed
  <2> HIDE DEF ways
  <2>6. Dispatch(e, ways, Rearmed(e))
    BY <2>1, <2>5 DEF ways
  <2> QED BY <1>1, <1>2, <2>2, <2>3, <2>4, <2>6
<1>5. CASE XmitEndToEnd
  <2>1. PICK e \in Due("xmit") :
           Dispatch(e, recv(Elapsed(e)[e.router], e.router, SPECIAL_PORT, e.pkt, e.time), {})
    BY <1>5 DEF XmitEndToEnd
  <2> DEFINE ways == recv(Elapsed(e)[e.router], e.router, SPECIAL_PORT, e.pkt, e.time)
  <2>2. e.router \in Router /\ e.pkt.type = "DATA" /\ e.type = "xmit"
    BY <1>1 DEF EventOK, Listed, AlarmOK, RecvOK
  <2>3. \A way \in ways : WayOK(way, e.router)
    BY <1>1, <2>2, DataHandled
  <2>4. \A way \in ways : way.node = Elapsed(e)[e.router] /\ NoPings(way)
    BY <1>1, <2>2, DataDid
  <2>5. \A way \in ways : /\ Did(e, Elapsed(e)[e.router], way)
                           /\ Spread(e, Elapsed(e)[e.router], way)
    BY <2>2, <2>4, DataSpread DEF Did, IsAlarm
  <2>6. Rearmed(e) = {}
    BY <1>1 DEF Rearmed
  <2> HIDE DEF ways
  <2>7. Dispatch(e, ways, Rearmed(e))
    BY <2>1, <2>6 DEF ways
  <2> QED BY <1>1, <1>2, <2>2, <2>3, <2>5, <2>7
<1>6. CASE LinkDies
  <2>1. PICK e \in Due("linkdying") :
           ChangeLink(e) /\ is_alive' = is_alive \ {e.link} /\ delay' = delay
    BY <1>6 DEF LinkDies
  <2>2. Changing(e)
    BY <1>1, <2>1 DEF Changing
  <2> QED BY <2>2
<1>7. CASE LinkComesUp
  <2>1. PICK e \in Due("linkcomingup") :
           ChangeLink(e) /\ is_alive' = is_alive \cup {e.link} /\ delay' = delay
    BY <1>7 DEF LinkComesUp
  <2>2. e.link \in Link
    BY <1>1 DEF EventOK, Listed, AlarmOK, RecvOK
  <2>3. Changing(e)
    BY <1>1, <2>1, <2>2 DEF Changing
  <2> QED BY <2>3
<1>8. CASE ChangeDelay
  <2>1. PICK e \in Due("changedelay") :
           /\ ChangeLink(e) /\ is_alive' = is_alive
           /\ delay' = [delay EXCEPT ![e.link] = e.delay]
    BY <1>8 DEF ChangeDelay
  <2>2. Changing(e)
    BY <1>1, <2>1 DEF Changing
  <2> QED BY <2>2
<1> QED BY <1>3, <1>4, <1>5, <1>6, <1>7, <1>8 DEF Next
--------------------------------------------------------------------------------
(* The arrivals a handler's packets make. *)
LEMMA ArrivalFacts ==
  ASSUME NEW u \in Router, NEW p \in DOMAIN Wire[u], NEW m, m.port = p, NEW t,
         NEW f, f = Delivery(u, m, t, delay)
  PROVE  /\ f.type = "recv" /\ f.pkt = m.pkt /\ f.router = Wire[u][p] /\ f.router \in Router
         /\ f.port = get_link_port(Wire[u][p], u) /\ f.port \in DOMAIN Wire[f.router]
         /\ Wire[f.router][f.port] = u
         /\ LinkAt(f.router, f.port) = LinkAt(u, p)
         /\ f.time = t + delay[LinkAt(u, p)]
         /\ get_link_port(u, f.router) = p
<1>1. /\ f.type = "recv" /\ f.pkt = m.pkt /\ f.router = Wire[u][p]
      /\ f.port = get_link_port(Wire[u][p], u)
      /\ f.time = t + delay[LinkAt(u, p)]
  BY DEF Delivery
<1>2. /\ Wire[u][p] \in Router
      /\ get_link_port(Wire[u][p], u) \in DOMAIN Wire[Wire[u][p]]
      /\ Wire[Wire[u][p]][get_link_port(Wire[u][p], u)] = u
      /\ Wired(u, Wire[u])
  BY WireFacts
<1>3. LinkAt(f.router, f.port) = LinkAt(u, p)
  BY <1>1, <1>2 DEF LinkAt
<1>4. get_link_port(u, Wire[u][p]) = p
  <2> DEFINE q == get_link_port(u, Wire[u][p])
  <2>1. q \in DOMAIN Wire[u] /\ Wire[u][q] = Wire[u][p]
    BY DEF get_link_port
  <2> HIDE DEF q
  <2>2. q = p
    BY <1>2, <2>1 DEF Wired
  <2> QED BY <2>2 DEF q
<1> QED BY <1>1, <1>2, <1>3, <1>4

LEMMA DelayFacts ==
  ASSUME IInv, NEW u \in Router, NEW p \in DOMAIN Wire[u]
  PROVE  LinkAt(u, p) \in Link /\ delay[LinkAt(u, p)] \in Nat
BY WireFacts DEF IInv

(* What a step keeps of Bounded. *)
LEMMA BoundedStep ==
  ASSUME NEW D \in Nat, IInv, Bounded(D), NEW e, NEW way, NEW S, Dispatching(e, way, S)
  PROVE  Bounded(D)'
<1>1. /\ is_alive' \subseteq Link /\ \A l \in Link : delay'[l] <= D
      /\ global_time \in Nat /\ changed \in Nat /\ changed <= global_time
      /\ e.time \in Nat /\ e.time >= global_time /\ global_time' = e.time
      /\ changed' \in {changed, e.time}
  BY DEF Bounded, Dispatching, IInv
<1>2. changed' \in Nat /\ changed' <= global_time'
  BY <1>1
<1>3. ASSUME NEW f \in DOMAIN event_q' PROVE f \in DOMAIN event_q \/ f \in S \/ f \in Rearmed(e)
  BY <1>3 DEF Dispatching, Requeued
<1>4. ASSUME NEW f \in S
      PROVE  f.type = "recv" /\ f.time <= e.time + D
  <2>1. PICK m \in way.out : f = Delivery(e.router, m, e.time, delay)
    BY DEF Dispatching
  <2>2. e.router \in Router /\ m.port \in DOMAIN Wire[e.router]
    BY DEF Dispatching, WayOK
  <2>3. f.type = "recv" /\ f.time = e.time + delay[LinkAt(e.router, m.port)]
    BY <2>1, <2>2, ArrivalFacts
  <2>4. /\ delay[LinkAt(e.router, m.port)] \in Nat
        /\ delay[LinkAt(e.router, m.port)] <= D
    BY <2>2, DelayFacts DEF Bounded
  <2> QED BY <1>1, <2>3, <2>4
<1>5. \A f \in Rearmed(e) : f.type = "alarm"
  BY DEF Rearmed, AlarmEvent
<1>6. ASSUME NEW f \in DOMAIN event_q', f.type = "recv" PROVE f.time <= global_time' + D
  <2>1. CASE f \in DOMAIN event_q
    <3>1. f.time \in Nat /\ f.time <= global_time + D
      BY <1>6, <2>1 DEF Bounded, IInv, EventOK, AlarmOK, RecvOK, Listed
    <3> QED BY <1>1, <3>1
  <2>2. CASE f \in S
    BY <1>1, <1>4, <2>2
  <2> QED BY <1>3, <1>5, <1>6, <2>1, <2>2
<1>7. ASSUME NEW f \in DOMAIN event_q', f.type = "changedelay" PROVE f.delay <= D
  BY <1>3, <1>4, <1>5, <1>7 DEF Bounded
<1> QED BY <1>1, <1>2, <1>6, <1>7 DEF Bounded
--------------------------------------------------------------------------------
(* A PONG goes out at the time its PING came in, over the same link. *)
LEMMA InTimeStep ==
  ASSUME NEW D \in Nat, IInv, TInv(D), NEW e, NEW way, NEW S, Dispatching(e, way, S),
         changed' = changed, NEW f \in DOMAIN event_q', f.type = "recv"
  PROVE  InTime(f, D)'
<1>1. CASE f \in DOMAIN event_q
  <2>1. InTime(f, D)
    BY <1>1 DEF TInv
  <2> QED BY <2>1 DEF InTime, Dispatching
<1>2. CASE f \in S
  <2>1. PICK m \in way.out : /\ f = Delivery(e.router, m, e.time, delay)
                             /\ LinkAt(e.router, m.port) \in is_alive
    BY <1>2 DEF Dispatching
  <2> DEFINE u == e.router
             p == m.port
             d == delay[LinkAt(u, p)]
  <2>2. u \in Router /\ p \in DOMAIN Wire[u] /\ e.time \in Nat
    BY <2>1 DEF Dispatching, WayOK
  <2>3. /\ LinkAt(f.router, f.port) = LinkAt(u, p) /\ f.pkt = m.pkt /\ f.time = e.time + d
    BY <2>1, <2>2, ArrivalFacts
  <2>4. d \in Nat /\ d <= D
    BY <2>2, DelayFacts DEF TInv, Bounded
  <2>5. ASSUME f.pkt.type = "PING" PROVE f.time = f.pkt.stamp + d
    <3>1. way.out = send_ping(u, DOMAIN Wire[u], e.time)
      BY <2>1, <2>3, <2>5 DEF Dispatching, Did, NoPings, recv_ping_send_pong
    <3>2. m.pkt.stamp = e.time
      BY <2>1, <3>1 DEF send_ping
    <3> QED BY <2>3, <3>2
  <2>6. ASSUME f.pkt.type = "PONG"
        PROVE  f.time <= changed + 2 * D \/ f.time = f.pkt.stamp + 2 * d
    <3>1. /\ way.out = recv_ping_send_pong(u, e.port, e.pkt)
          /\ e.type = "recv" /\ e.pkt.type = "PING"
      BY <2>1, <2>3, <2>6 DEF Dispatching, Did, NoPings, send_ping
    <3>2. p = e.port /\ m.pkt.stamp = e.pkt.stamp
      BY <2>1, <3>1 DEF recv_ping_send_pong
    <3>3. e \in DOMAIN event_q
      BY DEF Dispatching
    <3>4. e.time <= changed + D \/ e.time = e.pkt.stamp + d
      BY <3>1, <3>2, <3>3 DEF TInv, InTime
    <3>5. changed \in Nat
      BY DEF TInv, Bounded
    <3>6. e.pkt.stamp \in Nat
      BY <3>1, <3>3 DEF IInv, EventOK, AlarmOK, Listed, RecvOK, PacketOK
    <3> HIDE DEF d
    <3> QED BY <2>2, <2>3, <2>4, <3>2, <3>4, <3>5, <3>6
  <2>7. changed' = changed /\ delay' = delay /\ is_alive' = is_alive
    BY DEF Dispatching
  <2> HIDE DEF d
  <2> QED BY <2>1, <2>3, <2>5, <2>6, <2>7 DEF InTime, d
<1>3. f \notin Rearmed(e)
  BY DEF Rearmed, AlarmEvent
<1>4. f \in DOMAIN event_q \cup (S \cup Rearmed(e))
  BY DEF Dispatching, Requeued
<1> QED BY <1>1, <1>2, <1>3, <1>4

(* What is left of an entry when time has passed until e. *)
LEMMA ElapsedEntry ==
  ASSUME IInv, NEW e \in DOMAIN event_q, NEW u \in Router
  PROVE  LET n == Elapsed(e)[u]
         IN  /\ Sound(n, u, Wire[u])
             /\ DOMAIN n.neighbor_table = DOMAIN node[u].neighbor_table
             /\ \A x \in DOMAIN node[u].neighbor_table :
                  /\ n.neighbor_table[x].cost = node[u].neighbor_table[x].cost
                  /\ n.neighbor_table[x].timeout \in Nat
                  /\ node[u].neighbor_table[x].timeout \in Nat
                  /\ \/ n.neighbor_table[x].timeout = 0
                     \/ e.time + n.neighbor_table[x].timeout
                          = global_time + node[u].neighbor_table[x].timeout
                  /\ e.time + n.neighbor_table[x].timeout
                          >= global_time + node[u].neighbor_table[x].timeout
<1> DEFINE d == e.time - global_time
           n == Elapsed(e)[u]
           old == node[u].neighbor_table
<1>1. e.time \in Nat /\ global_time \in Nat /\ d \in Nat
  BY ElapsedOK DEF IInv, QueueSound, BagToSet
<1>2. n = Age(node[u], d)
  BY DEF Elapsed
<1>3. Sound(node[u], u, Wire[u])
  BY DEF IInv, NodesOK
<1> HIDE DEF d
<1>4. /\ Sound(n, u, Wire[u])
      /\ DOMAIN n.neighbor_table = DOMAIN old
      /\ \A x \in DOMAIN old :
            /\ old[x].timeout \in 0 .. PONG_TIMEOUT
            /\ n.neighbor_table[x].cost = old[x].cost
            /\ n.neighbor_table[x].timeout = Elapse(old[x].timeout, d)
  <2> DEFINE m == node[u]
             peer == Wire[u]
  <2> HIDE DEF m, peer
  <2>1. Sound(m, u, peer) /\ n = Age(m, d)
    BY <1>2, <1>3 DEF m, peer
  <2> HIDE DEF n
  <2>2. /\ Sound(Age(m, d), u, peer)
        /\ DOMAIN Age(m, d).neighbor_table = DOMAIN m.neighbor_table
        /\ \A x \in DOMAIN m.neighbor_table :
              /\ m.neighbor_table[x].timeout \in 0 .. PONG_TIMEOUT
              /\ Age(m, d).neighbor_table[x].cost = m.neighbor_table[x].cost
              /\ Age(m, d).neighbor_table[x].timeout = Elapse(m.neighbor_table[x].timeout, d)
    <3>1. d \in Nat /\ Sound(m, u, peer)
      BY <1>1, <2>1
    <3> QED BY <3>1, AgeSound
  <2> QED BY <2>1, <2>2 DEF m, peer
<1> HIDE DEF n
<1>5. ASSUME NEW x \in DOMAIN old
      PROVE  /\ n.neighbor_table[x].cost = old[x].cost
             /\ n.neighbor_table[x].timeout \in Nat /\ old[x].timeout \in Nat
             /\ \/ n.neighbor_table[x].timeout = 0
                \/ e.time + n.neighbor_table[x].timeout = global_time + old[x].timeout
             /\ e.time + n.neighbor_table[x].timeout >= global_time + old[x].timeout
  <2> DEFINE t == old[x].timeout
  <2>1. t \in Nat /\ n.neighbor_table[x].timeout = IF t <= d THEN 0 ELSE t - d
    BY <1>4, PongTimeoutAssumption DEF Elapse
  <2>2. n.neighbor_table[x].cost = old[x].cost
    BY <1>4
  <2>3. d = e.time - global_time
    BY DEF d
  <2> QED BY <1>1, <2>1, <2>2, <2>3
<1> QED BY <1>4, <1>5 DEF n

(* The link of an entry. *)
LEMMA NeighborLink ==
  ASSUME NEW u \in Router, NEW n, Sound(n, u, Wire[u]), NEW x \in DOMAIN n.neighbor_table
  PROVE  \E p \in DOMAIN Wire[u] : Wire[u][p] = x /\ LinkAt(u, p) = {u, x}
BY DEF Sound, Linked, LinkAt

(* A router's neighbours after the step: those it had, aged, but for a     *)
(* neighbour whose PONG came in, and without those that fell silent.       *)
LEMMA NeighborsStep ==
  ASSUME IInv, NEW e, NEW way, NEW S, Dispatching(e, way, S), NEW u \in Router
  PROVE  LET n == Elapsed(e)[u]
             after == node'[u].neighbor_table
         IN  \/ /\ e.router = u /\ e.type = "recv" /\ e.pkt.type = "PONG" /\ e.pkt.dst = u
                /\ after = Put(n.neighbor_table, Wire[u][e.port],
                               Entry(e.port, RTT(e.pkt, e.time)))
             \/ /\ IsAlarm(e, u, "Port")
                /\ after = Erase(n.neighbor_table, Silent(n))
             \/ /\ ~(e.router = u /\ e.type = "recv" /\ e.pkt.type = "PONG" /\ e.pkt.dst = u)
                /\ ~IsAlarm(e, u, "Port")
                /\ after = n.neighbor_table
<1> DEFINE n == Elapsed(e)[u]
<1>1. Elapsed(e) \in [Router -> Node]
  BY ElapsedOK DEF Dispatching
<1>2. node' = [Elapsed(e) EXCEPT ![e.router] = way.node] /\ e.router \in Router
  BY DEF Dispatching
<1>3. CASE e.router = u
  <2>1. node'[u] = way.node
    BY <1>1, <1>2, <1>3
  <2>2. Did(e, n, way)
    BY <1>3 DEF Dispatching
  <2> HIDE DEF n
  <2> QED BY <1>3, <2>1, <2>2 DEF Did, IsAlarm, n
<1>4. CASE e.router # u
  <2>1. node'[u] = n
    BY <1>1, <1>2, <1>4
  <2> QED BY <1>4, <2>1 DEF IsAlarm
<1> QED BY <1>3, <1>4
--------------------------------------------------------------------------------
LEMMA AlarmsAreOnceNext == IInv' => AlarmsOnce'
<1> QED BY AlarmsAreOnce, PTL

LEMMA ExpiringStep ==
  ASSUME NEW D \in Nat, IInv, IInv', TInv(D), NEW e, NEW way, NEW S, Dispatching(e, way, S),
         changed' = changed
  PROVE  Expiring(D)'
<1> SUFFICES ASSUME NEW u \in Router, NEW x \in DOMAIN node'[u].neighbor_table,
                    {u, x} \notin is_alive
             PROVE  /\ \/ node'[u].neighbor_table[x].timeout = 0
                       \/ e.time + node'[u].neighbor_table[x].timeout
                            <= changed + D + PONG_TIMEOUT
                    /\ \A f \in DOMAIN event_q' : IsAlarm(f, u, "Port") =>
                         f.time <= changed + D + PONG_TIMEOUT + TIMEOUT_DURATION
  BY DEF Expiring, Dispatching
<1> DEFINE n == Elapsed(e)[u].neighbor_table
           old == node[u].neighbor_table
           after == node'[u].neighbor_table
           B == changed + D + PONG_TIMEOUT
<1>1. /\ e \in DOMAIN event_q /\ e.time \in Nat /\ global_time' = e.time /\ changed \in Nat
      /\ global_time \in Nat /\ global_time <= e.time
      /\ Times /\ AlarmsOnce' /\ B \in Nat
  BY AlarmsAreOnceNext, TimesFacts DEF Dispatching, IInv, TInv, Bounded, Times
<1>2. /\ Sound(Elapsed(e)[u], u, Wire[u])
      /\ DOMAIN n = DOMAIN old
      /\ \A y \in DOMAIN old :
           /\ n[y].timeout \in Nat /\ old[y].timeout \in Nat
           /\ n[y].timeout = 0 \/ e.time + n[y].timeout = global_time + old[y].timeout
  BY <1>1, ElapsedEntry
<1>3. \A f \in DOMAIN event_q' : IsAlarm(f, u, "Port") =>
         f.time \in Nat /\ f.time <= e.time + TIMEOUT_DURATION
  BY <1>1 DEF AlarmsOnce, Times
<1>4. ASSUME NEW f \in DOMAIN event_q', IsAlarm(f, u, "Port"), ~IsAlarm(e, u, "Port")
      PROVE  f \in DOMAIN event_q
  <2>1. f \in DOMAIN event_q \cup (S \cup Rearmed(e))
    BY DEF Dispatching, Requeued
  <2>2. f \notin S
    BY <1>4 DEF Dispatching, Delivery, IsAlarm
  <2>3. f \notin Rearmed(e)
    BY <1>4 DEF Rearmed, AlarmEvent, IsAlarm
  <2> QED BY <2>1, <2>2, <2>3
<1>5. ASSUME x \in DOMAIN old
      PROVE  /\ n[x].timeout = 0 \/ e.time + n[x].timeout <= B
             /\ \A f \in DOMAIN event_q : IsAlarm(f, u, "Port") => f.time <= B + TIMEOUT_DURATION
  <2>1. /\ old[x].timeout = 0 \/ global_time + old[x].timeout <= B
        /\ \A f \in DOMAIN event_q : IsAlarm(f, u, "Port") => f.time <= B + TIMEOUT_DURATION
    BY <1>5 DEF TInv, Expiring
  <2>2. n[x].timeout = 0 \/ e.time + n[x].timeout <= B
    BY <1>1, <1>2, <1>5, <2>1
  <2> QED BY <2>1, <2>2
<1> HIDE DEF n, old, B
<1>6. /\ after[x].timeout = 0 \/ e.time + after[x].timeout <= B
      /\ \A f \in DOMAIN event_q' : IsAlarm(f, u, "Port") => f.time <= B + TIMEOUT_DURATION
  <2>1. CASE /\ e.router = u /\ e.type = "recv" /\ e.pkt.type = "PONG" /\ e.pkt.dst = u
             /\ after = Put(n, Wire[u][e.port], Entry(e.port, RTT(e.pkt, e.time)))
    <3>1. ~IsAlarm(e, u, "Port")
      BY <2>1 DEF IsAlarm
    <3>2. CASE x = Wire[u][e.port]
      <4>1. LinkAt(e.router, e.port) \notin is_alive
        BY <2>1, <3>2 DEF LinkAt
      <4>2. e.time <= changed + D
        BY <1>1, <2>1, <4>1 DEF TInv, InTime
      <4>3. after[x].timeout = PONG_TIMEOUT
        BY <2>1, <3>2 DEF Put, Entry
      <4>4. e.time + PONG_TIMEOUT <= B
        BY <1>1, <4>2 DEF B, Times
      <4>5. \A f \in DOMAIN event_q' : IsAlarm(f, u, "Port") => f.time <= B + TIMEOUT_DURATION
        BY <1>1, <1>3, <4>4 DEF Times
      <4> QED BY <4>3, <4>4, <4>5
    <3>3. CASE x # Wire[u][e.port]
      <4>1. x \in DOMAIN n /\ after[x] = n[x]
        BY <2>1, <3>3 DEF Put
      <4> QED BY <1>2, <1>4, <1>5, <3>1, <4>1
    <3> QED BY <3>2, <3>3
  <2>2. CASE IsAlarm(e, u, "Port") /\ after = Erase(n, Silent(Elapsed(e)[u]))
    <3>1. x \in DOMAIN n /\ after[x] = n[x] /\ x \notin Silent(Elapsed(e)[u])
      BY <2>2 DEF Erase, Restrict
    <3>2. n[x].timeout # 0
      BY <3>1 DEF Silent, n
    <3>3. e.time + n[x].timeout <= B /\ n[x].timeout \in Nat
      BY <1>2, <1>5, <3>1, <3>2
    <3>4. \A f \in DOMAIN event_q' : IsAlarm(f, u, "Port") => f.time <= B + TIMEOUT_DURATION
      BY <1>1, <1>3, <3>3 DEF Times
    <3> QED BY <3>1, <3>3, <3>4
  <2>3. CASE ~IsAlarm(e, u, "Port") /\ after = n
    BY <1>2, <1>4, <1>5, <2>3
  <2> QED BY <2>1, <2>2, <2>3, NeighborsStep DEF n
<1> QED BY <1>6 DEF B
--------------------------------------------------------------------------------
(* A packet that is sent long after the last change arrives in this step   *)
(* or is still on its way.                                                 *)
LEMMA StaysOrDue ==
  ASSUME NEW e, NEW way, NEW S, Dispatching(e, way, S), NEW f \in DOMAIN event_q, f # e
  PROVE  f \in DOMAIN event_q'
BY DEF Dispatching, Requeued

LEMMA SentArrives ==
  ASSUME NEW e, NEW way, NEW S, Dispatching(e, way, S), changed' = changed, changed # e.time,
         IsFiniteSet(way.out), NEW m \in way.out, LinkAt(e.router, m.port) \in is_alive
  PROVE  Delivery(e.router, m, e.time, delay) \in DOMAIN event_q'
<1>1. Delivery(e.router, m, e.time, delay) \in S
  BY DEF Dispatching
<1>2. S \subseteq DOMAIN event_q'
  BY DEF Dispatching, Requeued
<1> QED BY <1>1, <1>2

(* The alarm sends a PING on every live link. *)
LEMMA PingSent ==
  ASSUME NEW e, NEW way, NEW S, Dispatching(e, way, S), changed' = changed, changed # e.time,
         NEW u \in Router, IsAlarm(e, u, "Ping"),
         NEW p \in DOMAIN Wire[u], LinkAt(u, p) \in is_alive
  PROVE  PingOf(u, p, e.time) \in DOMAIN event_q'
<1>1. way.out = send_ping(u, DOMAIN Wire[u], e.time) /\ e.router = u
  BY DEF Dispatching, Did, IsAlarm
<1> DEFINE Ms == {[port |-> q, pkt |-> [type |-> "PING", src |-> u, stamp |-> e.time]] :
                    q \in DOMAIN Wire[u]}
           m == [port |-> p, pkt |-> [type |-> "PING", src |-> u, stamp |-> e.time]]
<1>2. way.out = Ms
  BY <1>1 DEF send_ping
<1>3. IsFiniteSet(DOMAIN Wire[u])
  BY NetworkAssumption DEF WellWired
<1>4. IsFiniteSet(Ms)
  <2> DEFINE f == [q \in DOMAIN Wire[u] |->
                     [port |-> q, pkt |-> [type |-> "PING", src |-> u, stamp |-> e.time]]]
  <2>1. f \in Surjection(DOMAIN Wire[u], Ms)
    BY DEF Surjection
  <2> HIDE DEF f, Ms
  <2> QED BY <1>3, <2>1, FS_Surjection
<1>5. m \in Ms /\ m.port = p
  OBVIOUS
<1> HIDE DEF Ms, m
<1>6. Delivery(u, m, e.time, delay) \in DOMAIN event_q'
  BY <1>1, <1>2, <1>4, <1>5, SentArrives
<1> QED BY <1>6 DEF PingOf, m

(* A PING that came in is answered over the link it came in on. *)
LEMMA PongSent ==
  ASSUME IInv, NEW e, NEW way, NEW S, Dispatching(e, way, S), changed' = changed, changed # e.time,
         NEW u \in Router, NEW p \in DOMAIN Wire[u], LinkAt(u, p) \in is_alive,
         NEW s \in Nat, e = PingOf(u, p, s)
  PROVE  PongOf(u, p, s) \in DOMAIN event_q'
<1> DEFINE v == Wire[u][p]
           q == get_link_port(v, u)
           x == [port |-> p, pkt |-> [type |-> "PING", src |-> u, stamp |-> s]]
           m == [port |-> q, pkt |-> [type |-> "PONG", src |-> v, dst |-> u, stamp |-> s]]
<1>1. e = Delivery(u, x, s, delay) /\ x.port = p /\ x.pkt.type = "PING"
      /\ x.pkt.src = u /\ x.pkt.stamp = s
  BY DEF PingOf
<1> HIDE DEF x
<1>2. /\ e.type = "recv" /\ e.pkt = x.pkt /\ e.router = v /\ e.port = q
      /\ LinkAt(v, q) = LinkAt(u, p)
      /\ e.time = s + delay[LinkAt(u, p)]
  BY <1>1, ArrivalFacts
<1>3. way.out = recv_ping_send_pong(v, q, e.pkt)
  BY <1>1, <1>2 DEF Dispatching, Did, IsAlarm
<1>4. way.out = {m}
  BY <1>1, <1>2, <1>3 DEF recv_ping_send_pong
<1>5. IsFiniteSet(way.out)
  BY <1>4, FS_Singleton
<1>6. m \in way.out /\ m.port = q
  BY <1>4
<1> HIDE DEF m
<1>7. Delivery(v, m, e.time, delay) \in DOMAIN event_q'
  BY <1>2, <1>5, <1>6, SentArrives
<1> QED BY <1>2, <1>7 DEF PongOf, m

(* The PONG makes the neighbour known, with what its link costs. *)
LEMMA PongLearned ==
  ASSUME NEW D \in Nat, IInv, Bounded(D), 2 * D < CostMod,
         NEW e, NEW way, NEW S, Dispatching(e, way, S),
         NEW u \in Router, NEW p \in DOMAIN Wire[u],
         NEW s \in Nat, e = PongOf(u, p, s)
  PROVE  KnownUntil(u, p, Expiry(u, p, s))'
<1> DEFINE v == Wire[u][p]
           q == get_link_port(v, u)
           d == delay[LinkAt(u, p)]
           m == [port |-> q, pkt |-> [type |-> "PONG", src |-> v, dst |-> u, stamp |-> s]]
<1>1. /\ v \in Router /\ q \in DOMAIN Wire[v] /\ Wire[v][q] = u
      /\ Wired(u, Wire[u])
  BY WireFacts
<1>2. LinkAt(v, q) = LinkAt(u, p)
  BY <1>1 DEF LinkAt
<1>3. e = Delivery(v, m, s + d, delay) /\ m.port = q
      /\ m.pkt.type = "PONG" /\ m.pkt.dst = u /\ m.pkt.stamp = s
  BY DEF PongOf
<1>4. d \in Nat /\ d <= D
  BY DelayFacts DEF Bounded
<1> HIDE DEF m, d, q, v
<1>5. /\ e.type = "recv" /\ e.pkt = m.pkt /\ e.router = u /\ e.port \in DOMAIN Wire[u]
      /\ Wire[u][e.port] = v
      /\ e.time = s + d + delay[LinkAt(v, q)]
  BY <1>1, <1>3, ArrivalFacts
<1>6. e.time = s + d + d
  BY <1>2, <1>5 DEF d
<1>7. RTT(e.pkt, e.time) = 2 * d
  <2>1. e.time - s = 2 * d /\ 2 * d < CostMod /\ 2 * d \in Nat
    BY <1>4, <1>6, CostModAssumption
  <2>2. (2 * d) % CostMod = 2 * d
    BY <2>1, CostModAssumption
  <2> QED BY <1>3, <1>5, <2>1, <2>2 DEF RTT
<1> DEFINE after == node'[u].neighbor_table
<1>8. after = Put(Elapsed(e)[u].neighbor_table, v, Entry(e.port, RTT(e.pkt, e.time)))
  <2>1. ~IsAlarm(e, u, "Port")
    BY <1>5 DEF IsAlarm
  <2> QED BY <1>3, <1>5, <2>1, NeighborsStep
<1> HIDE DEF after
<1>9. v \in DOMAIN after /\ after[v].cost = 2 * d /\ after[v].timeout = PONG_TIMEOUT
  BY <1>7, <1>8 DEF Put, Entry
<1>10. global_time' = e.time /\ delay' = delay
  BY DEF Dispatching
<1>11. s + 2 * d + PONG_TIMEOUT = e.time + PONG_TIMEOUT
  BY <1>4, <1>6, PongTimeoutAssumption
<1>12. e.time + PONG_TIMEOUT >= s + 2 * d + PONG_TIMEOUT
  BY <1>4, <1>6, PongTimeoutAssumption
<1> QED BY <1>9, <1>10, <1>12 DEF KnownUntil, Expiry, v, d, after

(* What is known stays known: a later PONG refreshes it, and the check for *)
(* silent neighbours leaves it alone.                                      *)
LEMMA StaysKnown ==
  ASSUME NEW D \in Nat, IInv, TInv(D), 2 * D < CostMod,
         NEW e, NEW way, NEW S, Dispatching(e, way, S), e.time > changed + 2 * D,
         NEW u \in Router, NEW p \in DOMAIN Wire[u],
         NEW t \in Nat, KnownUntil(u, p, t)
  PROVE  KnownUntil(u, p, t)' \/ global_time' >= t
<1> DEFINE v == Wire[u][p]
           d == delay[LinkAt(u, p)]
           n == Elapsed(e)[u].neighbor_table
           old == node[u].neighbor_table
           after == node'[u].neighbor_table
<1>1. /\ e \in DOMAIN event_q /\ e.time \in Nat /\ global_time' = e.time /\ delay' = delay
      /\ changed \in Nat /\ global_time \in Nat /\ global_time <= e.time /\ Times
  BY TimesFacts DEF Dispatching, IInv, TInv, Bounded
<1>2. /\ Sound(node[u], u, Wire[u])
      /\ v \in DOMAIN old /\ old[v].cost = 2 * d /\ global_time + old[v].timeout >= t
  BY DEF KnownUntil, IInv, NodesOK
<1>3. old[v].timeout \in Nat /\ old[v].timeout <= PONG_TIMEOUT
  BY <1>2, EntryFacts
<1>4. /\ v \in DOMAIN n /\ n[v].cost = 2 * d /\ n[v].timeout \in Nat
      /\ e.time + n[v].timeout >= t
  <2>1. /\ DOMAIN n = DOMAIN old
        /\ n[v].cost = old[v].cost /\ n[v].timeout \in Nat
        /\ e.time + n[v].timeout >= global_time + old[v].timeout
    BY <1>1, <1>2, ElapsedEntry
  <2> QED BY <1>1, <1>2, <1>3, <2>1
<1>5. d \in Nat /\ d <= D
  BY DelayFacts DEF TInv, Bounded
<1> HIDE DEF v, d, n, old, after
<1> SUFFICES \/ v \in DOMAIN after /\ after[v].cost = 2 * d /\ e.time + after[v].timeout >= t
             \/ e.time >= t
  BY <1>1 DEF KnownUntil, v, d, after
<1>6. CASE /\ e.router = u /\ e.type = "recv" /\ e.pkt.type = "PONG" /\ e.pkt.dst = u
           /\ after = Put(n, Wire[u][e.port], Entry(e.port, RTT(e.pkt, e.time)))
  <2>1. CASE v = Wire[u][e.port]
    <3>1. LinkAt(e.router, e.port) = LinkAt(u, p)
      BY <1>6, <2>1 DEF LinkAt, v
    <3>2. e.time = e.pkt.stamp + 2 * d
      <4>1. InTime(e, D)
        BY <1>1, <1>6 DEF TInv
      <4>2. e.time <= changed + 2 * D \/ e.time = e.pkt.stamp + 2 * d
        BY <1>6, <3>1, <4>1 DEF InTime, d
      <4> QED BY <1>1, <4>2
    <3>3. e.pkt.stamp \in Nat
      BY <1>1, <1>6 DEF IInv, EventOK, AlarmOK, Listed, RecvOK, PacketOK
    <3>4. RTT(e.pkt, e.time) = 2 * d
      <4>1. e.time - e.pkt.stamp = 2 * d /\ 2 * d < CostMod /\ 2 * d \in Nat
        BY <1>5, <3>2, <3>3, CostModAssumption
      <4>2. (2 * d) % CostMod = 2 * d
        BY <4>1, CostModAssumption
      <4> QED BY <4>1, <4>2 DEF RTT
    <3>5. v \in DOMAIN after /\ after[v].cost = 2 * d /\ after[v].timeout = PONG_TIMEOUT
      BY <1>6, <2>1, <3>4 DEF Put, Entry
    <3>6. e.time + PONG_TIMEOUT >= t
      BY <1>1, <1>2, <1>3 DEF Times
    <3> QED BY <3>5, <3>6
  <2>2. CASE v # Wire[u][e.port]
    <3>1. v \in DOMAIN after /\ after[v] = n[v]
      BY <1>4, <1>6, <2>2 DEF Put
    <3> QED BY <1>4, <3>1
  <2> QED BY <2>1, <2>2
<1>7. CASE IsAlarm(e, u, "Port") /\ after = Erase(n, Silent(Elapsed(e)[u]))
  <2>1. CASE n[v].timeout = 0
    BY <1>1, <1>4, <2>1
  <2>2. CASE n[v].timeout # 0
    <3>1. v \notin Silent(Elapsed(e)[u])
      BY <2>2 DEF Silent, n
    <3>2. v \in DOMAIN after /\ after[v] = n[v]
      BY <1>4, <1>7, <3>1 DEF Erase, Restrict
    <3> QED BY <1>4, <3>2
  <2> QED BY <2>1, <2>2
<1>8. CASE after = n
  BY <1>4, <1>8
<1> QED BY <1>6, <1>7, <1>8, NeighborsStep DEF n, after
--------------------------------------------------------------------------------
LEMMA PingedStep ==
  ASSUME NEW D \in Nat, IInv, TInv(D), 2 * D < CostMod,
         NEW e, NEW way, NEW S, Dispatching(e, way, S), changed' = changed,
         e.time > changed + 2 * D,
         NEW u \in Router, NEW p \in DOMAIN Wire[u], LinkAt(u, p) \in is_alive,
         NEW s \in Nat, Pinged(u, p, s)
  PROVE  Pinged(u, p, s)'
<1>1. /\ PingOf(u, p, s)' = PingOf(u, p, s) /\ PongOf(u, p, s)' = PongOf(u, p, s)
      /\ Expiry(u, p, s)' = Expiry(u, p, s)
  BY DEF PingOf, PongOf, Expiry, Dispatching
<1>2. /\ e.time \in Nat /\ changed \in Nat /\ global_time \in Nat /\ global_time <= e.time
      /\ global_time' = e.time /\ changed # e.time
  BY DEF Dispatching, IInv, TInv, Bounded
<1>3. Expiry(u, p, s) \in Nat
  BY DelayFacts, PongTimeoutAssumption DEF Expiry
<1>4. CASE PingOf(u, p, s) \in DOMAIN event_q
  <2>1. CASE PingOf(u, p, s) # e
    BY <1>1, <1>4, <2>1, StaysOrDue DEF Pinged
  <2>2. CASE PingOf(u, p, s) = e
    <3>1. PongOf(u, p, s) \in DOMAIN event_q'
      BY <1>2, <2>2, PongSent
    <3> QED BY <1>1, <3>1 DEF Pinged
  <2> QED BY <2>1, <2>2
<1>5. CASE PongOf(u, p, s) \in DOMAIN event_q
  <2>1. CASE PongOf(u, p, s) # e
    BY <1>1, <1>5, <2>1, StaysOrDue DEF Pinged
  <2>2. CASE PongOf(u, p, s) = e
    <3>1. KnownUntil(u, p, Expiry(u, p, s))'
      BY <2>2, PongLearned DEF TInv
    <3> QED BY <3>1 DEF Pinged
  <2> QED BY <2>1, <2>2
<1>6. CASE KnownUntil(u, p, Expiry(u, p, s))
  <2> DEFINE t == Expiry(u, p, s)
  <2>1. t \in Nat /\ KnownUntil(u, p, t) /\ t' = t
    BY <1>1, <1>3, <1>6
  <2>2. KnownUntil(u, p, t)' \/ global_time' >= t
    BY <2>1, StaysKnown
  <2> QED BY <1>1, <2>2 DEF Pinged
<1>7. CASE global_time >= Expiry(u, p, s)
  <2>1. global_time' >= Expiry(u, p, s)
    BY <1>2, <1>3, <1>7
  <2> QED BY <1>1, <2>1 DEF Pinged
<1> QED BY <1>4, <1>5, <1>6, <1>7 DEF Pinged

(* When an alarm rang before a step: at the step, or before.               *)
LEMMA RangBefore ==
  ASSUME IInv, IInv', NEW e, NEW way, NEW S, Dispatching(e, way, S),
         NEW u \in Router, NEW a \in DOMAIN Period,
         NEW f \in DOMAIN event_q', IsAlarm(f, u, a), NEW s \in Before(f.time, Period[a])
  PROVE  /\ s \in Nat /\ s <= e.time
         /\ \/ IsAlarm(e, u, a) /\ s = e.time
            \/ \E g \in DOMAIN event_q : /\ IsAlarm(g, u, a) /\ s \in Before(g.time, Period[a])
                                         /\ s <= global_time
<1> DEFINE P == Period[a]
<1>1. /\ e \in DOMAIN event_q /\ e.time \in Nat /\ global_time' = e.time /\ global_time \in Nat
      /\ AlarmsOnce /\ AlarmsOnce' /\ P \in Nat \ {0}
  BY AlarmsAreOnce, AlarmsAreOnceNext, PeriodFacts DEF Dispatching, IInv
<1> HIDE DEF P
<1>2. f.time \in Nat /\ f.time <= e.time + P
  BY <1>1 DEF AlarmsOnce, P
<1>3. s \in Nat /\ s + P <= f.time /\ s \in Before(f.time, P)
  BY <1>1, <1>2, BeforeNext DEF P
<1>4. s <= e.time
  BY <1>1, <1>2, <1>3
<1>5. ASSUME ~(IsAlarm(e, u, a) /\ s = e.time)
      PROVE  \E g \in DOMAIN event_q : IsAlarm(g, u, a) /\ s \in Before(g.time, P)
  <2>1. CASE IsAlarm(e, u, a)
    <3> DEFINE A == AlarmEvent(u, a, e.time)
    <3>1. A \in DOMAIN event_q'
      BY <2>1 DEF Dispatching, Requeued, Rearmed, IsAlarm
    <3>2. IsAlarm(A, u, a) /\ A.time = e.time + P
      BY <1>1 DEF IsAlarm, AlarmEvent, P
    <3> HIDE DEF A
    <3>3. f = A
      BY <1>1, <3>1, <3>2 DEF AlarmsOnce
    <3>4. s \in Before(e.time + P, P) /\ s # e.time
      BY <1>3, <1>5, <2>1, <3>2, <3>3
    <3>5. s \in Before(e.time, P)
      BY <1>1, <3>4, BeforeLast
    <3> QED BY <1>1, <2>1, <3>5
  <2>2. CASE ~IsAlarm(e, u, a)
    <3>1. f \in DOMAIN event_q \cup (S \cup Rearmed(e))
      BY DEF Dispatching, Requeued
    <3>2. f \notin S
      BY DEF Dispatching, Delivery, IsAlarm
    <3>3. f \notin Rearmed(e)
      BY <2>2 DEF Rearmed, AlarmEvent, IsAlarm
    <3> QED BY <1>3, <3>1, <3>2, <3>3
  <2> QED BY <2>1, <2>2
<1>6. ASSUME NEW g \in DOMAIN event_q, IsAlarm(g, u, a), s \in Before(g.time, P)
      PROVE  s <= global_time
  <2>1. g.time \in Nat /\ g.time <= global_time + P
    BY <1>1, <1>6 DEF AlarmsOnce, P
  <2>2. s + P <= g.time
    BY <1>1, <1>6, <2>1, BeforeNext
  <2> QED BY <1>1, <1>3, <2>1, <2>2
<1> QED BY <1>3, <1>4, <1>5, <1>6 DEF P
LEMMA RoundsStep ==
  ASSUME NEW D \in Nat, IInv, IInv', TInv(D), 2 * D < CostMod,
         NEW e, NEW way, NEW S, Dispatching(e, way, S), changed' = changed
  PROVE  Rounds(D)'
<1> SUFFICES ASSUME NEW u \in Router, NEW p \in DOMAIN Wire[u], LinkAt(u, p) \in is_alive,
                    NEW f \in DOMAIN event_q', IsAlarm(f, u, "Ping"),
                    NEW s \in Before(f.time, PING_DURATION), s > changed + 2 * D
             PROVE  Pinged(u, p, s)'
  BY DEF Rounds, Dispatching
<1>1. /\ s \in Nat /\ s <= e.time
      /\ \/ IsAlarm(e, u, "Ping") /\ s = e.time
         \/ \E g \in DOMAIN event_q : IsAlarm(g, u, "Ping") /\ s \in Before(g.time, PING_DURATION)
  BY RangBefore DEF Period
<1>2. changed \in Nat /\ e.time \in Nat /\ e.time > changed + 2 * D /\ changed # e.time
  BY <1>1 DEF Dispatching, TInv, Bounded
<1>3. CASE IsAlarm(e, u, "Ping") /\ s = e.time
  <2>1. PingOf(u, p, s) \in DOMAIN event_q'
    BY <1>2, <1>3, PingSent
  <2>2. PingOf(u, p, s)' = PingOf(u, p, s)
    BY DEF PingOf, Dispatching
  <2> QED BY <2>1, <2>2 DEF Pinged
<1>4. CASE \E g \in DOMAIN event_q : IsAlarm(g, u, "Ping") /\ s \in Before(g.time, PING_DURATION)
  <2>1. Pinged(u, p, s)
    BY <1>4 DEF TInv, Rounds
  <2> QED BY <1>1, <1>2, <2>1, PingedStep
<1> QED BY <1>1, <1>3, <1>4
--------------------------------------------------------------------------------
(* A step that dispatches an event to a router, and one that changes a     *)
(* link.                                                                   *)
LEMMA DispatchTInv ==
  ASSUME NEW D \in Nat, IInv, IInv', TInv(D), 2 * D < CostMod,
         NEW e, NEW way, NEW S, Dispatching(e, way, S)
  PROVE  TInv(D)'
<1>1. Bounded(D)'
  BY BoundedStep DEF TInv
<1>2. CASE changed' = e.time
  <2>1. changed' = global_time'
    BY <1>2 DEF Dispatching
  <2>2. Fresh(D)'
    BY <1>1, <2>1 DEF Fresh
  <2> QED BY <2>2, FreshTInvNext
<1>3. CASE changed' = changed
  <2>1. ASSUME NEW f \in DOMAIN event_q', f.type = "recv" PROVE InTime(f, D)'
    BY <1>3, <2>1, InTimeStep
  <2>2. Expiring(D)'
    BY <1>3, ExpiringStep
  <2>3. Rounds(D)'
    BY <1>3, RoundsStep
  <2> QED BY <1>1, <2>1, <2>2, <2>3 DEF TInv
<1> QED BY <1>2, <1>3 DEF Dispatching

LEMMA ChangeTInv ==
  ASSUME NEW D \in Nat, IInv, IInv', TInv(D), NEW e \in DOMAIN event_q, ChangeLink(e),
         is_alive' \subseteq Link, \A l \in Link : delay'[l] <= D
  PROVE  TInv(D)'
<1>1. /\ global_time' = e.time /\ changed' = e.time /\ e.time \in Nat
      /\ global_time \in Nat /\ global_time <= e.time
  BY ElapsedOK DEF ChangeLink, IInv, QueueSound, BagToSet
<1>2. DOMAIN event_q' \subseteq DOMAIN event_q
  BY TakeEvent DEF ChangeLink, IInv, Taken
<1>3. ASSUME NEW f \in DOMAIN event_q', f.type = "recv" PROVE f.time <= e.time + D
  <2>1. f \in DOMAIN event_q
    BY <1>2
  <2>2. f.time \in Nat /\ f.time <= global_time + D
    BY <1>3, <2>1 DEF TInv, Bounded, IInv, EventOK, AlarmOK, RecvOK, Listed
  <2> QED BY <1>1, <2>2
<1>4. \A f \in DOMAIN event_q' : f.type = "changedelay" => f.delay <= D
  BY <1>2 DEF TInv, Bounded
<1>5. Bounded(D)'
  BY <1>1, <1>3, <1>4 DEF Bounded
<1>6. Fresh(D)'
  BY <1>1, <1>5 DEF Fresh
<1> QED BY <1>6, FreshTInvNext
--------------------------------------------------------------------------------
LEMMA InitTInv ==
  ASSUME NEW D \in Nat, Timely(D)
  PROVE  Init => TInv(D)
<1> SUFFICES ASSUME Init PROVE TInv(D)
  OBVIOUS
<1> DEFINE As == {AlarmEvent(u, a, 0) : u \in Router, a \in DOMAIN Period}
           Ds == UNION {{Delivery(u, m, 0, InitialDelay) : m \in Hello(u)} : u \in Router}
           Q == scenario.events \cup As \cup Ds
<1>1. /\ scenario \in Scenarios /\ event_q = SetToBag(Q)
      /\ global_time = 0 /\ changed = 0 /\ is_alive = Link /\ delay = InitialDelay
  BY DEF Init
<1>2. DOMAIN event_q = Q
  BY <1>1 DEF SetToBag
<1>3. /\ \A l \in Link : InitialDelay[l] <= D
      /\ \A e \in scenario.events : e.type = "changedelay" => e.delay <= D
      /\ \A e \in scenario.events : Listed(e)
  BY <1>1, NetworkAssumption DEF Timely, WellWired
<1>4. \A e \in As : e.type = "alarm"
  BY DEF AlarmEvent
<1>5. ASSUME NEW e \in Ds PROVE e.type = "recv" /\ e.time <= D
  <2>1. PICK u \in Router : \E m \in Hello(u) : e = Delivery(u, m, 0, InitialDelay)
    OBVIOUS
  <2>2. PICK m \in Hello(u) : e = Delivery(u, m, 0, InitialDelay)
    BY <2>1
  <2>3. m.port \in DOMAIN Wire[u]
    BY <2>2 DEF Hello, send_ping
  <2>4. e = Delivery(u, m, 0, delay)
    BY <1>1, <2>2
  <2> DEFINE w == delay[LinkAt(u, m.port)]
  <2>5. w \in Nat /\ w <= D
    BY <1>1, <1>3, <2>3, WireFacts, NetworkAssumption DEF WellWired
  <2>6. e.type = "recv" /\ e.time = 0 + w
    BY <2>3, <2>4, ArrivalFacts
  <2> HIDE DEF w
  <2> QED BY <2>5, <2>6
<1> HIDE DEF As, Ds
<1>6. \A e \in DOMAIN event_q : e.type = "changedelay" => e.delay <= D
  BY <1>2, <1>3, <1>4, <1>5
<1>7. \A e \in DOMAIN event_q : e.type = "recv" => e.time <= D
  BY <1>2, <1>3, <1>4, <1>5 DEF Listed
<1>8. Bounded(D)
  <2>1. global_time + D = D /\ changed <= global_time /\ changed \in Nat
    BY <1>1
  <2>2. /\ is_alive \subseteq Link
        /\ \A l \in Link : delay[l] <= D
        /\ \A e \in DOMAIN event_q : e.type = "recv" => e.time <= global_time + D
    BY <1>1, <1>3, <1>7, <2>1
  <2> QED BY <1>6, <2>1, <2>2 DEF Bounded
<1>9. Fresh(D)
  BY <1>1, <1>8, InitIInv DEF Fresh
<1> QED BY <1>9, FreshTInv

LEMMA NextTInv ==
  ASSUME NEW D \in Nat, 2 * D < CostMod
  PROVE  IInv /\ IInv' /\ TInv(D) /\ [Next]_vars => TInv(D)'
<1> SUFFICES ASSUME IInv, IInv', TInv(D), [Next]_vars PROVE TInv(D)'
  OBVIOUS
<1>1. ASSUME NEW e, NEW way, NEW S, Dispatching(e, way, S) PROVE TInv(D)'
  BY <1>1, DispatchTInv
<1>2. ASSUME NEW e, Changing(e) PROVE TInv(D)'
  <2>1. is_alive' \subseteq Link
    BY <1>2 DEF Changing, TInv, Bounded
  <2>2. \A l \in Link : delay'[l] <= D
    <3>1. CASE delay' = delay
      BY <3>1 DEF TInv, Bounded
    <3>2. CASE e.type = "changedelay" /\ delay' = [delay EXCEPT ![e.link] = e.delay]
      <4>1. e.delay <= D
        BY <1>2, <3>2 DEF Changing, TInv, Bounded
      <4> QED BY <3>2, <4>1 DEF TInv, Bounded, IInv
    <3> QED BY <1>2, <3>1, <3>2 DEF Changing
  <2> QED BY <1>2, <2>1, <2>2, ChangeTInv DEF Changing
<1>3. CASE UNCHANGED vars
  BY <1>3 DEF vars, TInv, Bounded, InTime, Expiring, Rounds, Pinged, KnownUntil,
              PingOf, PongOf, Expiry
<1> QED BY <1>1, <1>2, <1>3, Steps
--------------------------------------------------------------------------------
(* Long after a change: dead links have expired, and of the PINGs sent on  *)
(* a live link one was answered and has not expired yet.                   *)
LEMMA DeadForgotten ==
  ASSUME NEW D \in Nat, Timely(D), IInv, TInv(D), QuietFor(DETECT),
         NEW u \in Router, NEW x \in DOMAIN node[u].neighbor_table
  PROVE  x \in Router \ {u} /\ {u, x} \in is_alive
<1>1. Sound(node[u], u, Wire[u])
  BY DEF IInv, NodesOK
<1>2. PICK p \in DOMAIN Wire[u] : Wire[u][p] = x /\ LinkAt(u, p) = {u, x}
  BY <1>1, NeighborLink
<1>3. x \in Router /\ x # u
  BY <1>2, NetworkAssumption, WireFacts DEF WellWired
<1>4. ASSUME {u, x} \notin is_alive PROVE FALSE
  <2>1. AlarmsOnce /\ Times /\ changed \in Nat /\ global_time \in Nat
    BY AlarmsAreOnce, TimesFacts DEF IInv, TInv, Bounded
  <2>2. PICK e \in DOMAIN event_q :
           IsAlarm(e, u, "Port") /\ e.time \in Nat /\ global_time <= e.time
    BY <2>1 DEF AlarmsOnce, Times
  <2>3. e.time <= changed + D + PONG_TIMEOUT + TIMEOUT_DURATION
    BY <1>4, <2>2 DEF TInv, Expiring
  <2>4. PONG_TIMEOUT + TIMEOUT_DURATION + D <= DETECT /\ DETECT \in Nat
    BY DEF Timely
  <2>5. global_time > changed + DETECT
    BY DEF QuietFor
  <2> QED BY <2>1, <2>2, <2>3, <2>4, <2>5 DEF Times
<1> QED BY <1>3, <1>4

LEMMA LiveKnown ==
  ASSUME NEW D \in Nat, Timely(D), IInv, TInv(D), QuietFor(DETECT),
         NEW u \in Router, NEW v \in Router \ {u}, {u, v} \in is_alive
  PROVE  /\ v \in DOMAIN node[u].neighbor_table
         /\ node[u].neighbor_table[v].cost = 2 * delay[{u, v}]
<1>1. {u, v} \in Link
  BY DEF TInv, Bounded
<1>2. PICK p \in DOMAIN Wire[u] : {u, v} = {u, Wire[u][p]}
  BY <1>1, NetworkAssumption DEF WellWired
<1>3. Wire[u][p] = v /\ LinkAt(u, p) = {u, v}
  BY <1>2 DEF LinkAt
<1> DEFINE d == delay[LinkAt(u, p)]
<1>4. d \in Nat /\ d <= D
  BY DelayFacts DEF TInv, Bounded
<1> HIDE DEF d
<1>5. AlarmsOnce /\ Times /\ changed \in Nat /\ global_time \in Nat
  BY AlarmsAreOnce, TimesFacts DEF IInv, TInv, Bounded
<1>6. PICK e \in DOMAIN event_q :
         IsAlarm(e, u, "Ping") /\ e.time \in Nat /\ global_time <= e.time
  BY <1>5 DEF AlarmsOnce, Times
<1>7. /\ PING_DURATION + 4 * D <= DETECT /\ DETECT \in Nat /\ PING_DURATION < PONG_TIMEOUT
      /\ global_time > changed + DETECT
  BY DEF Timely, QuietFor
<1> DEFINE x == global_time - 2 * d
<1>8. x \in Nat /\ x <= e.time /\ x >= PING_DURATION /\ x > changed + 2 * D + PING_DURATION
  BY <1>4, <1>5, <1>6, <1>7 DEF Times
<1>9. PICK s \in Before(e.time, PING_DURATION) : s < x /\ s + PING_DURATION >= x
  <2> HIDE DEF x
  <2> QED BY <1>5, <1>6, <1>8, BeforeAny DEF Times
<1>10. s \in Nat
  BY DEF Before
<1>11. s > changed + 2 * D /\ s + 2 * d < global_time
       /\ global_time < s + 2 * d + PONG_TIMEOUT
  BY <1>4, <1>5, <1>7, <1>8, <1>9, <1>10 DEF Times
<1>12. Pinged(u, p, s)
  BY <1>1, <1>3, <1>6, <1>9, <1>11 DEF TInv, Rounds
<1>13. \A f \in DOMAIN event_q : f.time >= global_time
  BY DEF IInv, QueueSound, BagToSet
<1>14. PingOf(u, p, s) \notin DOMAIN event_q
  <2> DEFINE m == [port |-> p, pkt |-> [type |-> "PING", src |-> u, stamp |-> s]]
  <2>1. PingOf(u, p, s) = Delivery(u, m, s, delay) /\ m.port = p
    BY DEF PingOf
  <2> HIDE DEF m
  <2>2. PingOf(u, p, s).time = s + d
    BY <2>1, ArrivalFacts DEF d
  <2> QED BY <1>4, <1>5, <1>10, <1>11, <1>13, <2>2
<1>15. PongOf(u, p, s) \notin DOMAIN event_q
  <2> DEFINE q == get_link_port(v, u)
             m == [port |-> q, pkt |-> [type |-> "PONG", src |-> v, dst |-> u, stamp |-> s]]
  <2>1. PongOf(u, p, s) = Delivery(v, m, s + d, delay) /\ m.port = q
    BY <1>3 DEF PongOf, d
  <2>2. q \in DOMAIN Wire[v] /\ Wire[v][q] = u
    BY <1>3, WireFacts
  <2>3. LinkAt(v, q) = LinkAt(u, p)
    BY <1>3, <2>2 DEF LinkAt
  <2> HIDE DEF m, q
  <2>4. PongOf(u, p, s).time = s + d + d
    BY <2>1, <2>2, <2>3, ArrivalFacts DEF d
  <2> QED BY <1>4, <1>5, <1>10, <1>11, <1>13, <2>4
<1>16. ~(global_time >= Expiry(u, p, s))
  BY <1>4, <1>5, <1>10, <1>11 DEF Expiry, d, Times
<1>17. KnownUntil(u, p, Expiry(u, p, s))
  BY <1>12, <1>14, <1>15, <1>16 DEF Pinged
<1> QED BY <1>3, <1>17 DEF KnownUntil

LEMMA NeighborsRight ==
  ASSUME NEW D \in Nat, Timely(D)
  PROVE  IInv /\ TInv(D) => NeighborsKnown
<1> SUFFICES ASSUME IInv, TInv(D), QuietFor(DETECT), NEW u \in Router
             PROVE  LET known == node[u].neighbor_table
                    IN  /\ DOMAIN known = DOMAIN Edges[u]
                        /\ \A v \in DOMAIN known : known[v].cost = Edges[u][v]
  BY DEF NeighborsKnown
<1> DEFINE known == node[u].neighbor_table
           near == {x \in Router \ {u} : {u, x} \in is_alive}
<1>1. DOMAIN Edges[u] = near /\ \A v \in near : Edges[u][v] = 2 * delay[{u, v}]
  BY DEF Edges
<1>2. \A x \in DOMAIN known : x \in near
  BY DeadForgotten
<1>3. \A v \in near : v \in DOMAIN known /\ known[v].cost = 2 * delay[{u, v}]
  BY LiveKnown
<1> HIDE DEF known, near
<1>4. DOMAIN known = near /\ \A v \in DOMAIN known : known[v].cost = 2 * delay[{u, v}]
  BY <1>2, <1>3
<1> QED BY <1>1, <1>4 DEF known

(* In every network whose times leave room for a delay of D, the routers'  *)
(* neighbours are right so long after a change: each router knows exactly  *)
(* the routers its live links lead to, with what those links cost.  A dead *)
(* link is noticed and a live one is never forgotten between two PONGs,    *)
(* whatever order the events of one instant are dispatched in.             *)
THEOREM NeighborsAlwaysKnown ==
  ASSUME NEW D \in Nat, Timely(D)
  PROVE  Spec => []NeighborsKnown
<1>1. IInv /\ TInv(D) => NeighborsKnown
  BY NeighborsRight
<1>2. Init => TInv(D)
  BY InitTInv
<1>3. IInv /\ IInv' /\ TInv(D) /\ [Next]_vars => TInv(D)'
  BY NextTInv DEF Timely
<1> QED BY <1>1, <1>2, <1>3, Invariance, PTL DEF Spec
--------------------------------------------------------------------------------
(***************************************************************************)
(* The graphs.  An LSP that was not true when it was sent, or is not any   *)
(* more, is passed on by each router once only: the later it arrives, the  *)
(* more routers have had it.                                               *)
(***************************************************************************)
TrueLSP(lsp) == \A y \in DOMAIN lsp.entries : /\ y \in DOMAIN Edges[lsp.source]
                                              /\ lsp.entries[y] = Edges[lsp.source][y]
Had(lsp) == {w \in Router : Seen(node[w], lsp)}
Known == changed + DETECT                 \* from then on the neighbours are
Hops(D, k) == D * (1 + k)                 \* k routers have passed it on

OldLSPs(D) ==
  \A f \in DOMAIN event_q : IsLSP(f) =>
    \/ TrueLSP(f.pkt.lsp)
    \/ f.time <= Known + Hops(D, Cardinality(Had(f.pkt.lsp)))

(* The life of false edges, and until when they are found to have expired. *)
Life(D) == Known + Hops(D, Cardinality(Router)) + DV_LS_TIMEOUT

TrueEdge(g, x, y) == y \in DOMAIN Edges[x] /\ g[x][y].cost = Edges[x][y]

Passing(D, u) ==
  \A x \in Router : \A y \in DOMAIN node[u].graph[x] :
    \/ TrueEdge(node[u].graph, x, y)
    \/ /\ \/ node[u].graph[x][y].timeout = 0
          \/ global_time + node[u].graph[x][y].timeout <= Life(D)
       /\ \A f \in DOMAIN event_q : IsAlarm(f, u, "Port") => f.time <= Life(D) + TIMEOUT_DURATION

GInv(D) == OldLSPs(D) /\ \A u \in Router : Passing(D, u)

LEMMA HopsFacts ==
  ASSUME NEW D \in Nat, NEW j \in Nat, NEW k \in Nat
  PROVE  /\ Hops(D, k) \in Nat /\ Hops(D, k) >= D
         /\ Hops(D, k + 1) = Hops(D, k) + D
         /\ j <= k => Hops(D, j) <= Hops(D, k)
<1>1. D * k \in Nat /\ D * j \in Nat
  OBVIOUS
<1>2. D * (1 + k) = D + D * k /\ D * (1 + j) = D + D * j /\ D * (1 + (k + 1)) = D + D * k + D
  OBVIOUS
<1>3. ASSUME j <= k PROVE D * j <= D * k
  <2>1. PICK i \in Nat : k = j + i
    <3>1. k - j \in Nat /\ k = j + (k - j)
      BY <1>3
    <3> QED BY <3>1
  <2>2. D * (j + i) = D * j + D * i /\ D * i \in Nat
    OBVIOUS
  <2> QED BY <1>1, <2>1, <2>2
<1> QED BY <1>1, <1>2, <1>3 DEF Hops

(* The routers after a step. *)
LEMMA NodeStep ==
  ASSUME IInv, NEW e, NEW way, NEW S, Dispatching(e, way, S), NEW u \in Router
  PROVE  node'[u] = IF u = e.router THEN way.node ELSE Elapsed(e)[u]
<1>1. Elapsed(e) \in [Router -> Node]
  BY ElapsedOK DEF Dispatching
<1> QED BY <1>1 DEF Dispatching

(* Time only makes neighbours and edges older. *)
LEMMA ElapsedTables ==
  ASSUME IInv, NEW e \in DOMAIN event_q, NEW u \in Router, NEW n, n = Elapsed(e)[u]
  PROVE  /\ Sound(n, u, Wire[u]) /\ SameNumbers(node[u], n)
         /\ n.routing_table = node[u].routing_table
         /\ \A x \in Router :
              /\ DOMAIN n.graph[x] = DOMAIN node[u].graph[x]
              /\ \A y \in DOMAIN n.graph[x] :
                   /\ n.graph[x][y].cost = node[u].graph[x][y].cost
                   /\ n.graph[x][y].timeout \in Nat
                   /\ \/ n.graph[x][y].timeout = 0
                      \/ e.time + n.graph[x][y].timeout
                           = global_time + node[u].graph[x][y].timeout
<1> DEFINE d == e.time - global_time
           m == node[u]
           peer == Wire[u]
<1>0. e.time \in Nat /\ global_time \in Nat /\ d \in Nat
  BY ElapsedOK DEF IInv, QueueSound, BagToSet
<1>1. n = Age(m, d)
  BY DEF Elapsed
<1>2. Sound(m, u, peer)
  BY DEF IInv, NodesOK
<1>3. d = e.time - global_time
  OBVIOUS
<1> HIDE DEF d, m, peer
<1>4. /\ Sound(Age(m, d), u, peer) /\ SameNumbers(m, Age(m, d))
      /\ Age(m, d).routing_table = m.routing_table
      /\ \A x \in Router :
           /\ DOMAIN Age(m, d).graph[x] = DOMAIN m.graph[x]
           /\ \A y \in DOMAIN m.graph[x] :
                /\ m.graph[x][y].timeout \in 0 .. DV_LS_TIMEOUT
                /\ Age(m, d).graph[x][y].cost = m.graph[x][y].cost
                /\ Age(m, d).graph[x][y].timeout = Elapse(m.graph[x][y].timeout, d)
  <2>1. d \in Nat
    BY <1>0
  <2> QED BY <1>2, <2>1, AgeSound
<1>5. ASSUME NEW x \in Router, NEW y \in DOMAIN n.graph[x]
      PROVE  /\ n.graph[x][y].timeout \in Nat
             /\ \/ n.graph[x][y].timeout = 0
                \/ e.time + n.graph[x][y].timeout = global_time + m.graph[x][y].timeout
  <2> DEFINE t == m.graph[x][y].timeout
  <2>1. t \in Nat /\ n.graph[x][y].timeout = IF t <= d THEN 0 ELSE t - d
    BY <1>1, <1>4, LSTimeoutAssumption DEF Elapse
  <2> QED BY <1>0, <1>3, <2>1
<1> QED BY <1>1, <1>4, <1>5 DEF m, peer

(* The LSP that was waiting. *)
LEMMA LSPOK ==
  ASSUME IInv, NEW f \in DOMAIN event_q, IsLSP(f)
  PROVE  /\ RecvOK(f) /\ f.pkt.lsp \in LSP /\ f.time \in Nat /\ f.router \in Router
         /\ f.port \in DOMAIN Wire[f.router]
         /\ f.pkt.lsp.source \in Router /\ f.pkt.lsp.seq \in Nat
<1>1. RecvOK(f) /\ f.pkt.lsp \in LSP
  BY DEF IInv, EventOK, Listed, AlarmOK, RecvOK, PacketOK, IsLSP
<1> QED BY <1>1, SeqModAssumption DEF RecvOK, LSP

(* No router forgets what it has had. *)
LEMMA SeenGrows ==
  ASSUME IInv, NEW e, NEW way, NEW S, Dispatching(e, way, S), NEW u \in Router,
         NEW lsp, lsp.seq \in Nat, Seen(node[u], lsp)
  PROVE  Seen(node'[u], lsp)
<1> DEFINE n == Elapsed(e)[u]
<1>1. e \in DOMAIN event_q
  BY DEF Dispatching
<1>2. n \in Node /\ n.max_sequence_num = node[u].max_sequence_num
  BY <1>1, ElapsedTables DEF SameNumbers, Sound
<1>3. Seen(n, lsp)
  BY <1>2 DEF Seen
<1>4. CASE u # e.router
  BY <1>3, <1>4, NodeStep
<1>5. CASE u = e.router
  <2>1. node'[u] = way.node
    BY <1>5, NodeStep
  <2>a. Spread(e, n, way)
    BY <1>5 DEF Dispatching
  <2> HIDE DEF n
  <2>2. CASE Kept(e, n, way)
    BY <1>3, <2>1, <2>2 DEF Kept, Seen
  <2>3. CASE TakesIn(e, n, way)
    <3>1. e.pkt.lsp.seq \in Nat
      BY <1>1, <2>3, LSPOK DEF TakesIn
    <3>2. \A x \in DOMAIN n.max_sequence_num : n.max_sequence_num[x] \in Nat
      BY <1>2, NumberFacts
    <3> QED BY <1>3, <2>1, <2>3, <3>1, <3>2 DEF TakesIn, Seen, Put
  <2> QED BY <2>a, <2>2, <2>3 DEF Spread, Calm, Announces
<1> QED BY <1>4, <1>5

(* The router that takes an LSP in has had it then, and had not before. *)
LEMMA HadGrows ==
  ASSUME IInv, NEW e, NEW way, NEW S, Dispatching(e, way, S),
         NEW lsp, lsp.seq \in Nat
  PROVE  /\ Cardinality(Had(lsp)) \in Nat /\ Cardinality(Had(lsp)') \in Nat
         /\ Cardinality(Had(lsp)) <= Cardinality(Had(lsp)')
         /\ IsLSP(e) /\ lsp = e.pkt.lsp /\ TakesIn(e, Elapsed(e)[e.router], way)
              => Cardinality(Had(lsp)) + 1 <= Cardinality(Had(lsp)')
<1> DEFINE u == e.router
           A == Had(lsp)
           B == Had(lsp)'
<1>1. A \subseteq Router /\ B \subseteq Router /\ A \subseteq B
  BY SeenGrows DEF Had
<1>2. IsFiniteSet(A) /\ IsFiniteSet(B) /\ Cardinality(A) \in Nat /\ Cardinality(B) \in Nat
      /\ Cardinality(A) <= Cardinality(B)
  <2>1. IsFiniteSet(Router)
    BY RouterIdAssumption
  <2> HIDE DEF A, B
  <2> QED BY <1>1, <2>1, FS_Subset, FS_CardinalityType
<1>3. ASSUME IsLSP(e), lsp = e.pkt.lsp, TakesIn(e, Elapsed(e)[u], way)
      PROVE  Cardinality(A) + 1 <= Cardinality(B)
  <2>1. e \in DOMAIN event_q /\ u \in Router
    BY DEF Dispatching
  <2>2. u \notin A
    <3>1. Elapsed(e)[u].max_sequence_num = node[u].max_sequence_num
      BY <2>1, ElapsedTables DEF SameNumbers
    <3>2. ~Seen(node[u], lsp)
      BY <1>3, <3>1 DEF TakesIn, Seen
    <3> QED BY <3>2 DEF Had
  <2>3. u \in B
    <3>1. node'[u] = way.node
      BY <2>1, NodeStep
    <3>2. Seen(node'[u], lsp)
      BY <1>3, <3>1 DEF TakesIn, Seen, Put
    <3> QED BY <2>1, <3>2 DEF Had
  <2> HIDE DEF A, B, u
  <2>4. A \cup {u} \subseteq B
    BY <1>1, <2>3
  <2>5. Cardinality(A \cup {u}) = Cardinality(A) + 1 /\ IsFiniteSet(A \cup {u})
    BY <1>2, <2>2, FS_AddElement
  <2> QED BY <1>2, <2>4, <2>5, FS_Subset
<1> QED BY <1>2, <1>3
--------------------------------------------------------------------------------
(* The routers' count, and the times. *)
LSTimes == /\ Cardinality(Router) \in Nat
           /\ DETECT \in Nat /\ DV_LS_TIMEOUT \in Nat
           /\ LS_DURATION \in Nat \ {0}
           /\ Period["LS"] = LS_DURATION /\ "LS" \in DOMAIN Period
           /\ \A S \in SUBSET Router : Cardinality(S) \in Nat /\ Cardinality(S) <= Cardinality(Router)

LEMMA LSTimesFacts == ASSUME NEW D \in Nat, Timely(D) PROVE LSTimes
<1>1. \A S \in SUBSET Router : Cardinality(S) \in Nat /\ Cardinality(S) <= Cardinality(Router)
  BY RouterIdAssumption, FS_Subset, FS_CardinalityType
<1> QED BY <1>1, PeriodFacts, LSTimeoutAssumption DEF LSTimes, Period, Timely

(* Costs of edges are those of both directions. *)
LEMMA EdgesAgree ==
  ASSUME NEW x \in Router, NEW y \in DOMAIN Edges[x]
  PROVE  y \in Router /\ x \in DOMAIN Edges[y] /\ Edges[x][y] = Edges[y][x]
<1>1. {x, y} = {y, x}
  OBVIOUS
<1> QED BY <1>1 DEF Edges

(* An LSP a handler sends is the one it took in or says who its router's   *)
(* neighbours are.                                                         *)
LEMMA SentLSP ==
  ASSUME IInv, NEW e, NEW way, NEW S, Dispatching(e, way, S), NEW f \in S, IsLSP(f)
  PROVE  \/ TakesIn(e, Elapsed(e)[e.router], way) /\ f.pkt.lsp = e.pkt.lsp
         \/ /\ Announces(e, Elapsed(e)[e.router], way)
            /\ \E table \in Tables(way.node) :
                  f.pkt.lsp = Announcement(Elapsed(e)[e.router], e.router, table)
<1> DEFINE n == Elapsed(e)[e.router]
<1>1. PICK m \in way.out : f = Delivery(e.router, m, e.time, delay)
  BY DEF Dispatching
<1>2. f.pkt = m.pkt
  BY <1>1 DEF Delivery
<1>3. Spread(e, n, way)
  BY DEF Dispatching
<1> HIDE DEF n
<1>4. CASE TakesIn(e, n, way)
  <2>1. m.pkt.lsp = e.pkt.lsp
    BY <1>4 DEF TakesIn, Copies
  <2> QED BY <1>2, <1>4, <2>1 DEF n
<1>5. CASE Calm(e, n, way)
  BY <1>2, <1>5 DEF Calm, NoLSPs, IsLSP
<1>6. CASE Announces(e, n, way)
  <2>1. PICK table \in Tables(way.node) :
           way.out = Copies(way.node, Announcement(n, e.router, table), DOMAIN way.node.neighbor_table)
    BY <1>6 DEF Announces, Posts
  <2>2. m.pkt.lsp = Announcement(n, e.router, table)
    BY <2>1 DEF Copies
  <2> QED BY <1>2, <1>6, <2>2 DEF n
<1> QED BY <1>3, <1>4, <1>5, <1>6 DEF Spread

LEMMA SentTime ==
  ASSUME NEW D \in Nat, IInv, Bounded(D), NEW e, NEW way, NEW S, Dispatching(e, way, S), NEW f \in S
  PROVE  f.time \in Nat /\ e.time <= f.time /\ f.time <= e.time + D
<1>1. PICK m \in way.out : f = Delivery(e.router, m, e.time, delay)
  BY DEF Dispatching
<1>2. e.router \in Router /\ m.port \in DOMAIN Wire[e.router] /\ e.time \in Nat
  BY DEF Dispatching, WayOK
<1>3. f.time = e.time + delay[LinkAt(e.router, m.port)]
  BY <1>1, <1>2, ArrivalFacts
<1>4. /\ delay[LinkAt(e.router, m.port)] \in Nat
      /\ delay[LinkAt(e.router, m.port)] <= D
  BY <1>2, DelayFacts DEF Bounded
<1> QED BY <1>2, <1>3, <1>4

LEMMA NeighborsRightNext ==
  ASSUME NEW D \in Nat, Timely(D)
  PROVE  IInv' /\ TInv(D)' => NeighborsKnown'
<1>1. IInv /\ TInv(D) => NeighborsKnown
  BY NeighborsRight
<1> QED BY <1>1, PTL

LEMMA EdgesStep ==
  ASSUME NEW e, NEW way, NEW S, Dispatching(e, way, S)
  PROVE  Edges' = Edges
BY DEF Dispatching, Edges

(* Long after a change what a router announces is true. *)
LEMMA AnnouncedTrue ==
  ASSUME NEW D \in Nat, Timely(D), IInv, IInv', TInv(D)',
         NEW e, NEW way, NEW S, Dispatching(e, way, S), changed' = changed, e.time > Known
  PROVE  LET after == way.node.neighbor_table
         IN  /\ DOMAIN after = DOMAIN Edges[e.router]
             /\ \A x \in DOMAIN after : after[x].cost = Edges[e.router][x]
<1> DEFINE u == e.router
<1>1. NeighborsKnown' /\ Edges' = Edges
  BY NeighborsRightNext, EdgesStep
<1>2. global_time' > changed' + DETECT
  BY DEF Dispatching, Known
<1>3. u \in Router
  BY DEF Dispatching
<1>4. node'[u] = way.node
  BY <1>3, NodeStep
<1> HIDE DEF u
<1>5. /\ DOMAIN node'[u].neighbor_table = DOMAIN Edges'[u]
      /\ \A x \in DOMAIN node'[u].neighbor_table :
            node'[u].neighbor_table[x].cost = Edges'[u][x]
  BY <1>1, <1>2, <1>3 DEF NeighborsKnown, QuietFor
<1> QED BY <1>1, <1>4, <1>5 DEF u
--------------------------------------------------------------------------------
LEMMA OldLSPsStep ==
  ASSUME NEW D \in Nat, Timely(D), IInv, IInv', TInv(D), TInv(D)', OldLSPs(D),
         NEW e, NEW way, NEW S, Dispatching(e, way, S), changed' = changed
  PROVE  OldLSPs(D)'
<1>1. Edges' = Edges /\ Known' = Known
  BY EdgesStep DEF Known
<1>2. \A lsp : TrueLSP(lsp) => TrueLSP(lsp)'
  BY <1>1 DEF TrueLSP
<1>3. e \in DOMAIN event_q /\ e.time \in Nat /\ changed \in Nat /\ LSTimes /\ Known \in Nat
  BY LSTimesFacts DEF Dispatching, TInv, Bounded, LSTimes, Known
<1>4. ASSUME NEW lsp, lsp.seq \in Nat
      PROVE  /\ Hops(D, Cardinality(Had(lsp))) <= Hops(D, Cardinality(Had(lsp)'))
             /\ Hops(D, Cardinality(Had(lsp))) \in Nat
             /\ Hops(D, Cardinality(Had(lsp)')) \in Nat /\ Hops(D, Cardinality(Had(lsp)')) >= D
             /\ IsLSP(e) /\ lsp = e.pkt.lsp /\ TakesIn(e, Elapsed(e)[e.router], way)
                  => Hops(D, Cardinality(Had(lsp))) + D <= Hops(D, Cardinality(Had(lsp)'))
  <2> DEFINE j == Cardinality(Had(lsp))
             k == Cardinality(Had(lsp)')
  <2>1. /\ j \in Nat /\ k \in Nat /\ j <= k
        /\ IsLSP(e) /\ lsp = e.pkt.lsp /\ TakesIn(e, Elapsed(e)[e.router], way) => j + 1 <= k
    BY <1>4, HadGrows
  <2> HIDE DEF j, k
  <2>2. /\ Hops(D, j) <= Hops(D, k) /\ Hops(D, j) \in Nat /\ Hops(D, k) \in Nat
        /\ Hops(D, k) >= D
    BY <2>1, HopsFacts
  <2>3. j + 1 <= k => Hops(D, j) + D <= Hops(D, k)
    BY <2>1, HopsFacts
  <2> QED BY <2>1, <2>2, <2>3 DEF j, k
<1>5. ASSUME NEW f \in DOMAIN event_q', IsLSP(f), ~TrueLSP(f.pkt.lsp)
      PROVE  f.time <= Known + Hops(D, Cardinality(Had(f.pkt.lsp)'))
  <2> DEFINE lsp == f.pkt.lsp
             n == Elapsed(e)[e.router]
  <2>1. CASE f \in DOMAIN event_q
    <3>1. lsp.seq \in Nat /\ f.time \in Nat
      BY <1>5, <2>1, LSPOK
    <3>2. f.time <= Known + Hops(D, Cardinality(Had(lsp)))
      BY <1>5, <2>1 DEF OldLSPs
    <3> QED BY <1>3, <1>4, <3>1, <3>2
  <2>2. CASE f \in S
    <3>1. f.time \in Nat /\ f.time <= e.time + D
      BY <2>2, SentTime DEF TInv
    <3>2. CASE TakesIn(e, n, way) /\ lsp = e.pkt.lsp
      <4>1. IsLSP(e)
        BY <3>2 DEF TakesIn
      <4>2. lsp.seq \in Nat
        BY <1>3, <3>2, <4>1, LSPOK
      <4>3. e.time <= Known + Hops(D, Cardinality(Had(lsp)))
        BY <1>3, <1>5, <3>2, <4>1 DEF OldLSPs
      <4>4. Hops(D, Cardinality(Had(lsp))) + D <= Hops(D, Cardinality(Had(lsp)'))
        BY <1>4, <3>2, <4>1, <4>2
      <4> QED BY <1>3, <1>4, <3>1, <4>2, <4>3, <4>4
    <3>3. CASE \E table \in Tables(way.node) : lsp = Announcement(n, e.router, table)
      <4>1. PICK table \in Tables(way.node) : lsp = Announcement(n, e.router, table)
        BY <3>3
      <4>2. lsp.entries = table /\ lsp.source = e.router /\ lsp.seq = n.sequence_num
        BY <4>1 DEF Announcement
      <4>3. lsp.seq \in Nat
        <5>1. e.router \in Router
          BY DEF Dispatching
        <5>2. n \in Node
          BY <1>3, <5>1, ElapsedTables DEF Sound
        <5> QED BY <4>2, <5>2, NumberFacts
      <4>4. ~(e.time > Known)
        <5>1. ASSUME e.time > Known PROVE TrueLSP(lsp)
          <6>1. /\ DOMAIN way.node.neighbor_table = DOMAIN Edges[e.router]
                /\ \A x \in DOMAIN way.node.neighbor_table :
                      way.node.neighbor_table[x].cost = Edges[e.router][x]
            BY <5>1, AnnouncedTrue
          <6>2. \A x \in DOMAIN table : /\ x \in DOMAIN way.node.neighbor_table
                                         /\ table[x] = way.node.neighbor_table[x].cost
            <7>1. way.node \in Node
              BY DEF Dispatching, WayOK, Sound
            <7> QED BY <7>1, TablesFacts
          <6> HIDE DEF lsp
          <6> QED BY <4>2, <6>1, <6>2 DEF TrueLSP
        <5> QED BY <1>5, <5>1
      <4> QED BY <1>3, <1>4, <3>1, <4>3, <4>4
    <3> QED BY <1>5, <2>2, <3>2, <3>3, SentLSP
  <2>3. f \notin Rearmed(e)
    BY <1>5 DEF Rearmed, AlarmEvent, IsLSP
  <2>4. f \in DOMAIN event_q \cup (S \cup Rearmed(e))
    BY DEF Dispatching, Requeued
  <2> QED BY <2>1, <2>2, <2>3, <2>4
<1> QED BY <1>1, <1>2, <1>5 DEF OldLSPs
--------------------------------------------------------------------------------
(* A false edge of g is found to have expired before Life is over, if it   *)
(* is now t.                                                               *)
Passes(D, g, x, y, t) == g[x][y].timeout = 0 \/ t + g[x][y].timeout <= Life(D)

(* The edges of an announcement are as good as what was announced. *)
LEMMA AnnouncePasses ==
  ASSUME NEW D \in Nat, Life(D) \in Nat, NEW t \in Nat, NEW g, NEW s \in Router, NEW entries,
         NEW G, G = Announce(g, s, entries),
         \/ \A z \in DOMAIN entries : z \in DOMAIN Edges[s] /\ entries[z] = Edges[s][z]
         \/ t + DV_LS_TIMEOUT <= Life(D),
         NEW x \in Router, NEW y \in DOMAIN G[x]
  PROVE  \/ y \in DOMAIN g[x] /\ G[x][y] = g[x][y]
         \/ TrueEdge(G, x, y)
         \/ t + DV_LS_TIMEOUT <= Life(D) /\ Passes(D, G, x, y, t)
<1>1. CASE y \in DOMAIN g[x] /\ G[x][y] = g[x][y]
  BY <1>1
<1>2. CASE G[x][y].timeout = DV_LS_TIMEOUT /\ t + DV_LS_TIMEOUT <= Life(D)
  BY <1>2 DEF Passes
<1>3. CASE /\ \A z \in DOMAIN entries : z \in DOMAIN Edges[s] /\ entries[z] = Edges[s][z]
           /\ x = s /\ y \in DOMAIN entries /\ G[x][y].cost = entries[y]
  BY <1>3 DEF TrueEdge
<1>4. CASE /\ \A z \in DOMAIN entries : z \in DOMAIN Edges[s] /\ entries[z] = Edges[s][z]
           /\ y = s /\ x \in DOMAIN entries /\ G[x][y].cost = entries[x]
  <2>1. x \in DOMAIN Edges[s] /\ entries[x] = Edges[s][x]
    BY <1>4
  <2>2. s \in DOMAIN Edges[x] /\ Edges[s][x] = Edges[x][s]
    BY <2>1, EdgesAgree
  <2> QED BY <1>4, <2>1, <2>2 DEF TrueEdge
<1> QED BY <1>1, <1>2, <1>3, <1>4, AnnounceEdges

(* The graph of a handler's router before it announces: its old edges, and *)
(* if it swept them those that have not expired.                           *)
LEMMA SweptEdges ==
  ASSUME NEW e, NEW n, NEW x \in Router, NEW y \in DOMAIN Swept(e, n)[x]
  PROVE  /\ y \in DOMAIN n.graph[x] /\ Swept(e, n)[x][y] = n.graph[x][y]
         /\ IsAlarm(e, e.router, "Port") => n.graph[x][y].timeout # 0
BY ExpireEdges DEF Swept

LEMMA PassingStep ==
  ASSUME NEW D \in Nat, Timely(D), IInv, IInv', TInv(D), TInv(D)', GInv(D),
         NEW e, NEW way, NEW S, Dispatching(e, way, S), changed' = changed, NEW u \in Router
  PROVE  Passing(D, u)'
<1> DEFINE n == Elapsed(e)[u]
           B == Life(D)
<1>1. Edges' = Edges /\ Known' = Known /\ Life(D)' = Life(D)
  BY EdgesStep DEF Known, Life
<1>2. /\ e \in DOMAIN event_q /\ e.time \in Nat /\ changed \in Nat /\ global_time \in Nat
      /\ global_time' = e.time /\ LSTimes /\ Times /\ Known \in Nat /\ AlarmsOnce'
      /\ e.router \in Router
  BY LSTimesFacts, TimesFacts, AlarmsAreOnceNext DEF Dispatching, TInv, Bounded, LSTimes, Known, IInv
<1>3. /\ B \in Nat /\ Known + DV_LS_TIMEOUT <= B
      /\ \A A \in SUBSET Router : Hops(D, Cardinality(A)) \in Nat
                                 /\ Known + Hops(D, Cardinality(A)) + DV_LS_TIMEOUT <= B
  <2>1. /\ Hops(D, Cardinality(Router)) \in Nat
        /\ \A A \in SUBSET Router : /\ Hops(D, Cardinality(A)) \in Nat
                                    /\ Hops(D, Cardinality(A)) <= Hops(D, Cardinality(Router))
    BY <1>2, HopsFacts DEF LSTimes
  <2> QED BY <1>2, <2>1 DEF LSTimes, Life
<1>4. /\ \A x \in Router :
           /\ DOMAIN n.graph[x] = DOMAIN node[u].graph[x]
           /\ \A y \in DOMAIN n.graph[x] :
                /\ n.graph[x][y].cost = node[u].graph[x][y].cost
                /\ n.graph[x][y].timeout \in Nat
                /\ \/ n.graph[x][y].timeout = 0
                   \/ e.time + n.graph[x][y].timeout = global_time + node[u].graph[x][y].timeout
  BY <1>2, ElapsedTables
<1>5. \A f \in DOMAIN event_q' : IsAlarm(f, u, "Port") =>
         f.time \in Nat /\ f.time <= e.time + TIMEOUT_DURATION
  BY <1>2 DEF AlarmsOnce, Times
<1>6. ASSUME NEW f \in DOMAIN event_q', IsAlarm(f, u, "Port"), ~IsAlarm(e, u, "Port")
      PROVE  f \in DOMAIN event_q
  <2>1. f \in DOMAIN event_q \cup (S \cup Rearmed(e))
    BY DEF Dispatching, Requeued
  <2>2. f \notin S
    BY <1>6 DEF Dispatching, Delivery, IsAlarm
  <2>3. f \notin Rearmed(e)
    BY <1>6 DEF Rearmed, AlarmEvent, IsAlarm
  <2> QED BY <2>1, <2>2, <2>3
<1> DEFINE Checked == \A f \in DOMAIN event_q' : IsAlarm(f, u, "Port") =>
                         f.time <= B + TIMEOUT_DURATION
<1>7. ASSUME e.time <= B PROVE Checked
  BY <1>2, <1>3, <1>5, <1>7 DEF Times
<1> HIDE DEF n, B
(* An edge the router had. *)
<1>8. ASSUME NEW x \in Router, NEW y \in DOMAIN n.graph[x], ~TrueEdge(n.graph, x, y),
             IsAlarm(e, u, "Port") => n.graph[x][y].timeout # 0
      PROVE  Passes(D, n.graph, x, y, e.time) /\ Checked
  <2>1. ~TrueEdge(node[u].graph, x, y) /\ y \in DOMAIN node[u].graph[x]
    BY <1>4, <1>8 DEF TrueEdge
  <2>2. /\ \/ node[u].graph[x][y].timeout = 0
           \/ global_time + node[u].graph[x][y].timeout <= B
        /\ \A f \in DOMAIN event_q : IsAlarm(f, u, "Port") => f.time <= B + TIMEOUT_DURATION
    BY <2>1 DEF GInv, Passing, B
  <2>3. Passes(D, n.graph, x, y, e.time)
    <3>1. CASE n.graph[x][y].timeout = 0
      BY <3>1 DEF Passes
    <3>2. CASE n.graph[x][y].timeout # 0
      <4>1. /\ n.graph[x][y].timeout \in Nat
            /\ e.time + n.graph[x][y].timeout = global_time + node[u].graph[x][y].timeout
        BY <1>4, <3>2
      <4>2. node[u].graph[x][y].timeout # 0
        <5>1. node[u].graph[x][y].timeout = 0 => e.time + n.graph[x][y].timeout = global_time
          BY <1>2, <4>1
        <5>2. e.time >= global_time
          BY DEF Dispatching
        <5> QED BY <1>2, <3>2, <4>1, <5>1, <5>2
      <4>3. e.time + n.graph[x][y].timeout <= B
        BY <2>2, <4>1, <4>2
      <4> QED BY <4>3 DEF Passes, B
    <3> QED BY <3>1, <3>2
  <2>4. CASE IsAlarm(e, u, "Port")
    <3>1. n.graph[x][y].timeout # 0 /\ n.graph[x][y].timeout \in Nat
      BY <1>4, <1>8, <2>4
    <3>2. e.time <= B
      BY <1>2, <1>3, <2>3, <3>1 DEF Passes, B
    <3> QED BY <1>7, <2>3, <3>2
  <2>5. CASE ~IsAlarm(e, u, "Port")
    BY <1>6, <2>2, <2>3, <2>5
  <2> QED BY <2>4, <2>5
<1> DEFINE after == node'[u].graph
           Fine(x, y) == TrueEdge(after, x, y) \/ (Passes(D, after, x, y, e.time) /\ Checked)
<1>9. ASSUME NEW x \in Router, NEW y \in DOMAIN after[x], y \in DOMAIN n.graph[x],
             after[x][y] = n.graph[x][y], IsAlarm(e, u, "Port") => n.graph[x][y].timeout # 0
      PROVE  Fine(x, y)
  <2> HIDE DEF after, Checked
  <2>1. CASE TrueEdge(n.graph, x, y)
    BY <1>9, <2>1 DEF TrueEdge
  <2>2. CASE ~TrueEdge(n.graph, x, y)
    <3>1. Passes(D, n.graph, x, y, e.time) /\ Checked
      BY <1>8, <1>9, <2>2
    <3> QED BY <1>9, <3>1 DEF Passes
  <2> QED BY <2>1, <2>2
<1>10. ASSUME NEW x \in Router, NEW y \in DOMAIN after[x],
              e.time + DV_LS_TIMEOUT <= Life(D) /\ Passes(D, after, x, y, e.time)
       PROVE  Fine(x, y)
  <2>1. e.time <= B
    BY <1>2, <1>3, <1>10 DEF LSTimes, B
  <2> QED BY <1>7, <1>10, <2>1
<1>11. ASSUME NEW x \in Router, NEW y \in DOMAIN after[x] PROVE Fine(x, y)
  <2>1. CASE u # e.router
    <3>1. node'[u] = n
      BY <2>1, NodeStep DEF n
    <3>2. ~IsAlarm(e, u, "Port")
      BY <2>1 DEF IsAlarm
    <3> HIDE DEF Fine
    <3>3. y \in DOMAIN n.graph[x] /\ after[x][y] = n.graph[x][y]
      BY <3>1
    <3> HIDE DEF after
    <3> QED BY <1>9, <3>2, <3>3
  <2>2. CASE u = e.router
    <3>1. node'[u] = way.node
      BY <2>2, NodeStep
    <3>2. Spread(e, n, way)
      BY <2>2 DEF Dispatching, n
    <3>3. CASE TakesIn(e, n, way)
      <4> DEFINE lsp == e.pkt.lsp
      <4>1. IsLSP(e) /\ after = Announce(n.graph, lsp.source, lsp.entries)
        BY <3>1, <3>3 DEF TakesIn
      <4>2. lsp.source \in Router
        BY <1>2, <4>1, LSPOK
      <4>3. \/ TrueLSP(lsp)
            \/ e.time + DV_LS_TIMEOUT <= Life(D)
        <5>1. TrueLSP(lsp) \/ e.time <= Known + Hops(D, Cardinality(Had(lsp)))
          BY <1>2, <4>1 DEF GInv, OldLSPs
        <5>2. Had(lsp) \in SUBSET Router
          BY DEF Had
        <5> QED BY <1>2, <1>3, <5>1, <5>2 DEF LSTimes, B
      <4>4. ~IsAlarm(e, u, "Port")
        BY <4>1 DEF IsLSP, IsAlarm
      <4>5. y \in DOMAIN after[x] /\ Life(D) \in Nat
        BY <1>3 DEF B
      <4> HIDE DEF lsp, after, Fine
      <4>6. \/ y \in DOMAIN n.graph[x] /\ after[x][y] = n.graph[x][y]
            \/ TrueEdge(after, x, y)
            \/ e.time + DV_LS_TIMEOUT <= Life(D) /\ Passes(D, after, x, y, e.time)
        BY <1>2, <4>1, <4>2, <4>3, <4>5, AnnouncePasses DEF TrueLSP
      <4>7. TrueEdge(after, x, y) => Fine(x, y)
        BY DEF Fine
      <4> QED BY <1>9, <1>10, <4>4, <4>5, <4>6, <4>7
    <3>4. CASE way.node.graph = Swept(e, n)
      <4>1. y \in DOMAIN Swept(e, n)[x] /\ after[x][y] = Swept(e, n)[x][y]
        BY <3>1, <3>4
      <4>2. /\ y \in DOMAIN n.graph[x] /\ after[x][y] = n.graph[x][y]
            /\ IsAlarm(e, u, "Port") => n.graph[x][y].timeout # 0
        BY <2>2, <4>1, SweptEdges
      <4> HIDE DEF Fine
      <4> QED BY <1>9, <4>2
    <3>5. CASE Announces(e, n, way)
      <4> DEFINE g == Swept(e, n)
                 entries == Costs(way.node)
      <4>1. after = Announce(g, u, entries)
        BY <2>2, <3>1, <3>5 DEF Announces
      <4>2. \/ \A z \in DOMAIN entries : z \in DOMAIN Edges[u] /\ entries[z] = Edges[u][z]
            \/ e.time + DV_LS_TIMEOUT <= Life(D)
        <5>1. CASE e.time > Known
          <6>1. /\ DOMAIN way.node.neighbor_table = DOMAIN Edges[u]
                /\ \A z \in DOMAIN way.node.neighbor_table :
                      way.node.neighbor_table[z].cost = Edges[u][z]
            BY <2>2, <5>1, AnnouncedTrue
          <6> QED BY <6>1 DEF Costs
        <5>2. CASE ~(e.time > Known)
          BY <1>2, <1>3, <5>2 DEF LSTimes, B
        <5> QED BY <5>1, <5>2
      <4>3. y \in DOMAIN after[x] /\ Life(D) \in Nat
        BY <1>3 DEF B
      <4> HIDE DEF g, entries, after, Fine
      <4>4. \/ y \in DOMAIN g[x] /\ after[x][y] = g[x][y]
            \/ TrueEdge(after, x, y)
            \/ e.time + DV_LS_TIMEOUT <= Life(D) /\ Passes(D, after, x, y, e.time)
        BY <1>2, <4>1, <4>2, <4>3, AnnouncePasses
      <4>5. TrueEdge(after, x, y) => Fine(x, y)
        BY DEF Fine
      <4>6. CASE y \in DOMAIN g[x] /\ after[x][y] = g[x][y]
        <5>1. /\ y \in DOMAIN n.graph[x] /\ after[x][y] = n.graph[x][y]
              /\ IsAlarm(e, u, "Port") => n.graph[x][y].timeout # 0
          BY <2>2, <4>6, SweptEdges DEF g
        <5> QED BY <1>9, <4>3, <5>1
      <4> QED BY <1>10, <4>3, <4>4, <4>5, <4>6
    <3> QED BY <3>2, <3>3, <3>4, <3>5 DEF Spread, Calm
  <2> QED BY <2>1, <2>2
<1> QED BY <1>1, <1>2, <1>11 DEF Passing, Passes, TrueEdge, B
--------------------------------------------------------------------------------
(* Right after a change everything is in time. *)
LEMMA FreshGInv == ASSUME NEW D \in Nat, Timely(D) PROVE Fresh(D) => GInv(D)
<1> SUFFICES ASSUME Fresh(D) PROVE GInv(D)
  OBVIOUS
<1>1. /\ IInv /\ Bounded(D) /\ changed = global_time /\ changed \in Nat
      /\ AlarmsOnce /\ Times /\ LSTimes
  BY AlarmsAreOnce, TimesFacts, LSTimesFacts DEF Fresh, Bounded
<1>2. /\ Known \in Nat /\ changed <= Known
      /\ Hops(D, Cardinality(Router)) \in Nat
      /\ Life(D) \in Nat /\ changed + DV_LS_TIMEOUT <= Life(D)
  <2>1. Hops(D, Cardinality(Router)) \in Nat
    BY <1>1, HopsFacts DEF LSTimes
  <2> QED BY <1>1, <2>1 DEF LSTimes, Known, Life
<1>3. ASSUME NEW f \in DOMAIN event_q, IsLSP(f)
      PROVE  f.time <= Known + Hops(D, Cardinality(Had(f.pkt.lsp)))
  <2> DEFINE k == Cardinality(Had(f.pkt.lsp))
  <2>1. f.time \in Nat /\ f.time <= changed + D
    BY <1>1, <1>3, LSPOK DEF Bounded, IsLSP
  <2>2. k \in Nat
    BY <1>1 DEF Had, LSTimes
  <2> HIDE DEF k
  <2>3. Hops(D, k) \in Nat /\ Hops(D, k) >= D
    BY <2>2, HopsFacts
  <2>4. f.time <= Known + Hops(D, k)
    BY <1>1, <1>2, <2>1, <2>3
  <2> QED BY <2>4 DEF k
<1>4. ASSUME NEW u \in Router, NEW x \in Router, NEW y \in DOMAIN node[u].graph[x]
      PROVE  /\ global_time + node[u].graph[x][y].timeout <= Life(D)
             /\ \A f \in DOMAIN event_q : IsAlarm(f, u, "Port") =>
                   f.time <= Life(D) + TIMEOUT_DURATION
  <2>1. node[u].graph[x][y].timeout \in 0 .. DV_LS_TIMEOUT
    <3>1. Sound(node[u], u, Wire[u]) /\ 0 \in Nat
      BY <1>1 DEF IInv, NodesOK
    <3> QED BY <3>1, AgeSound
  <2>2. global_time + node[u].graph[x][y].timeout <= Life(D)
    BY <1>1, <1>2, <2>1 DEF LSTimes
  <2>3. ASSUME NEW f \in DOMAIN event_q, IsAlarm(f, u, "Port")
        PROVE  f.time <= Life(D) + TIMEOUT_DURATION
    <3>1. f.time \in Nat /\ f.time <= global_time + TIMEOUT_DURATION
      BY <1>1, <2>3 DEF AlarmsOnce, Times
    <3> QED BY <1>1, <1>2, <3>1 DEF Times, LSTimes
  <2> QED BY <2>2, <2>3
<1> QED BY <1>3, <1>4 DEF GInv, OldLSPs, Passing

LEMMA FreshGInvNext == ASSUME NEW D \in Nat, Timely(D) PROVE Fresh(D)' => GInv(D)'
<1>1. Fresh(D) => GInv(D)
  BY FreshGInv
<1> QED BY <1>1, PTL

LEMMA NextGInv ==
  ASSUME NEW D \in Nat, Timely(D)
  PROVE  IInv /\ IInv' /\ TInv(D) /\ TInv(D)' /\ GInv(D) /\ [Next]_vars => GInv(D)'
<1> SUFFICES ASSUME IInv, IInv', TInv(D), TInv(D)', GInv(D), [Next]_vars PROVE GInv(D)'
  OBVIOUS
<1>1. ASSUME changed' = global_time' PROVE GInv(D)'
  <2>1. Fresh(D)'
    BY <1>1 DEF Fresh, TInv
  <2> QED BY <2>1, FreshGInvNext
<1>2. ASSUME NEW e, NEW way, NEW S, Dispatching(e, way, S) PROVE GInv(D)'
  <2>1. CASE changed' = e.time
    BY <1>1, <1>2, <2>1 DEF Dispatching
  <2>2. CASE changed' = changed
    <3>1. OldLSPs(D)'
      BY <1>2, <2>2, OldLSPsStep DEF GInv
    <3>2. \A u \in Router : Passing(D, u)'
      BY <1>2, <2>2, PassingStep
    <3> QED BY <3>1, <3>2 DEF GInv
  <2> QED BY <1>2, <2>1, <2>2 DEF Dispatching
<1>3. ASSUME NEW e, Changing(e) PROVE GInv(D)'
  BY <1>1, <1>3 DEF Changing, ChangeLink
<1>4. CASE UNCHANGED vars
  <2>1. /\ node' = node /\ event_q' = event_q /\ global_time' = global_time
        /\ Edges' = Edges /\ Known' = Known /\ Life(D)' = Life(D)
    BY <1>4 DEF vars, Edges, Known, Life
  <2>2. \A lsp : TrueLSP(lsp)' = TrueLSP(lsp) /\ Had(lsp)' = Had(lsp)
    BY <2>1 DEF TrueLSP, Had, Seen
  <2>3. OldLSPs(D)'
    BY <2>1, <2>2 DEF GInv, OldLSPs
  <2>4. \A u \in Router : Passing(D, u)'
    BY <2>1 DEF GInv, Passing, TrueEdge
  <2> QED BY <2>3, <2>4 DEF GInv
<1> QED BY <1>2, <1>3, <1>4, Steps

(* The start of a run is as good as a change. *)
LEMMA InitFresh == ASSUME NEW D \in Nat, Timely(D) PROVE Init => Fresh(D)
<1>1. Init => TInv(D) /\ IInv
  BY InitTInv, InitIInv
<1>2. Init => changed = global_time
  BY DEF Init
<1> QED BY <1>1, <1>2 DEF Fresh, TInv

(* A false edge of a settled network would have been found to have expired *)
(* before now.                                                             *)
LEMMA NoFalseEdges ==
  ASSUME NEW D \in Nat, Timely(D), Settles(D), IInv, TInv(D), GInv(D), QuietFor(SETTLE),
         NEW u \in Router, NEW x \in Router, NEW y \in DOMAIN node[u].graph[x]
  PROVE  TrueEdge(node[u].graph, x, y)
<1>1. /\ AlarmsOnce /\ Times /\ LSTimes /\ changed \in Nat /\ global_time \in Nat
      /\ D * (1 + Cardinality(Router)) \in Nat
  BY AlarmsAreOnce, TimesFacts, LSTimesFacts, HopsFacts DEF Hops, TInv, Bounded, IInv, LSTimes
<1>2. PICK f \in DOMAIN event_q : IsAlarm(f, u, "Port") /\ f.time \in Nat /\ global_time <= f.time
  BY <1>1 DEF AlarmsOnce, Times
<1>3. ASSUME ~TrueEdge(node[u].graph, x, y) PROVE FALSE
  <2>1. f.time <= Life(D) + TIMEOUT_DURATION
    BY <1>2, <1>3 DEF GInv, Passing
  <2>2. /\ global_time > changed + SETTLE /\ SETTLE \in Nat
        /\ DETECT + D * (1 + Cardinality(Router)) + DV_LS_TIMEOUT + TIMEOUT_DURATION <= SETTLE
    BY DEF QuietFor, Settles
  <2> QED BY <1>1, <1>2, <2>1, <2>2 DEF Life, Known, Hops, Times, LSTimes
<1> QED BY <1>3

(* In every network whose times leave room for a delay of D, and so long   *)
(* after a change, the graphs are true: what routers announced of links    *)
(* that died or got other costs has arrived everywhere, passed on by every *)
(* router in turn, and its edges have expired and were swept.              *)
THEOREM GraphsAlwaysTrue ==
  ASSUME NEW D \in Nat, Timely(D), Settles(D)
  PROVE  Spec => []GraphsTrue
<1>1. IInv /\ TInv(D) /\ GInv(D) => GraphsTrue
  BY NoFalseEdges DEF GraphsTrue, TrueEdge
<1>2. Init => TInv(D) /\ GInv(D)
  BY InitTInv, InitFresh, FreshGInv
<1>3. IInv /\ IInv' /\ TInv(D) /\ [Next]_vars => TInv(D)'
  BY NextTInv DEF Timely
<1>4. IInv /\ IInv' /\ TInv(D) /\ TInv(D)' /\ GInv(D) /\ [Next]_vars => GInv(D)'
  BY NextGInv
<1> QED BY <1>1, <1>2, <1>3, <1>4, Invariance, PTL DEF Spec
--------------------------------------------------------------------------------
(***************************************************************************)
(* The numbers.  As long as no router comes to the end of its sequence     *)
(* numbers, nobody has seen a number a router has not used yet, and who    *)
(* sends an LSP on has had it.                                             *)
(***************************************************************************)
NumbersFit == \A u \in Router : node[u].sequence_num # SEQ_MOD - 1

Sender(f) == Wire[f.router][f.port]

Numbered ==
  /\ \A u \in Router : \A v \in DOMAIN node[u].max_sequence_num :
        node[u].max_sequence_num[v] < node[v].sequence_num
  /\ \A f \in DOMAIN event_q : IsLSP(f) =>
        /\ f.pkt.lsp.seq < node[f.pkt.lsp.source].sequence_num
        /\ Sender(f) = f.pkt.lsp.source \/ Seen(node[Sender(f)], f.pkt.lsp)

(* Which LSPs a router has had, after a step. *)
LEMMA MaxStep ==
  ASSUME IInv, NEW e, NEW way, NEW S, Dispatching(e, way, S), NEW u \in Router
  PROVE  \/ /\ node'[u].max_sequence_num = node[u].max_sequence_num
            /\ u = e.router => ~TakesIn(e, Elapsed(e)[u], way)
            /\ u = e.router /\ IsLSP(e) => Seen(node[u], e.pkt.lsp)
         \/ /\ u = e.router /\ IsLSP(e) /\ TakesIn(e, Elapsed(e)[u], way)
            /\ node'[u].max_sequence_num
                 = Put(node[u].max_sequence_num, e.pkt.lsp.source, e.pkt.lsp.seq)
<1> DEFINE n == Elapsed(e)[u]
<1>1. n.max_sequence_num = node[u].max_sequence_num
  BY ElapsedTables DEF SameNumbers, Dispatching
<1>2. CASE u # e.router
  <2>1. node'[u] = n
    BY <1>2, NodeStep
  <2> QED BY <1>1, <1>2, <2>1
<1>3. CASE u = e.router
  <2>1. node'[u] = way.node
    BY <1>3, NodeStep
  <2>2. Spread(e, n, way)
    BY <1>3 DEF Dispatching
  <2> HIDE DEF n
  <2>3. CASE TakesIn(e, n, way)
    <3>1. IsLSP(e) /\ way.node.max_sequence_num
                        = Put(n.max_sequence_num, e.pkt.lsp.source, e.pkt.lsp.seq)
      BY <2>3 DEF TakesIn
    <3> QED BY <1>1, <1>3, <2>1, <2>3, <3>1 DEF n
  <2>4. CASE ~TakesIn(e, n, way)
    <3>1. Kept(e, n, way)
      BY <2>2, <2>4 DEF Spread, Calm, Announces
    <3>2. way.node.max_sequence_num = n.max_sequence_num /\ (IsLSP(e) => Seen(n, e.pkt.lsp))
      BY <3>1 DEF Kept
    <3>3. IsLSP(e) => Seen(node[u], e.pkt.lsp)
      BY <1>1, <3>2 DEF Seen
    <3> QED BY <1>1, <1>3, <2>1, <2>4, <3>2, <3>3 DEF n
  <2> QED BY <2>3, <2>4
<1> QED BY <1>2, <1>3

(* Only an announcement takes a number. *)
LEMMA NumberStep ==
  ASSUME IInv, NumbersFit, NEW e, NEW way, NEW S, Dispatching(e, way, S), NEW u \in Router
  PROVE  /\ node[u].sequence_num \in Nat /\ node'[u].sequence_num \in Nat
         /\ \/ /\ node'[u].sequence_num = node[u].sequence_num
               /\ u = e.router => ~Announces(e, Elapsed(e)[u], way) /\ ~IsAlarm(e, u, "LS")
            \/ /\ u = e.router /\ Announces(e, Elapsed(e)[u], way)
               /\ node'[u].sequence_num = node[u].sequence_num + 1
<1> DEFINE n == Elapsed(e)[u]
<1>1. n.sequence_num = node[u].sequence_num
  BY ElapsedTables DEF SameNumbers, Dispatching
<1>2. node[u].sequence_num \in 0 .. SEQ_MOD - 1 /\ node[u].sequence_num # SEQ_MOD - 1
  <2>1. node[u] \in Node
    BY DEF IInv
  <2>2. node[u].sequence_num \in SeqNum
    BY <2>1, NumberFacts
  <2> QED BY <2>2 DEF SeqNum, NumbersFit
<1>3. CASE u # e.router
  <2>1. node'[u] = n
    BY <1>3, NodeStep
  <2> QED BY <1>1, <1>2, <1>3, <2>1, SeqModAssumption
<1>4. CASE u = e.router
  <2>1. node'[u] = way.node
    BY <1>4, NodeStep
  <2>2. Spread(e, n, way)
    BY <1>4 DEF Dispatching
  <2>3. (node[u].sequence_num + 1) % SEQ_MOD = node[u].sequence_num + 1
    BY <1>2, SeqModAssumption
  <2> HIDE DEF n
  <2>4. CASE Announces(e, n, way)
    <3>1. way.node.sequence_num = (n.sequence_num + 1) % SEQ_MOD
      BY <2>4 DEF Announces
    <3> QED BY <1>1, <1>2, <1>4, <2>1, <2>3, <2>4, <3>1, SeqModAssumption DEF n
  <2>5. CASE ~Announces(e, n, way)
    <3>1. way.node.sequence_num = n.sequence_num /\ ~IsAlarm(e, u, "LS")
      BY <1>4, <2>2, <2>5 DEF Spread, TakesIn, Calm, IsLSP, IsAlarm
    <3> QED BY <1>1, <1>2, <1>4, <2>1, <2>5, <3>1, SeqModAssumption DEF n
  <2> QED BY <2>4, <2>5
<1> QED BY <1>3, <1>4

LEMMA NumberedStep ==
  ASSUME IInv, NumbersFit, Numbered, NEW e, NEW way, NEW S, Dispatching(e, way, S)
  PROVE  Numbered'
<1>1. /\ e \in DOMAIN event_q /\ e.router \in Router
      /\ \A v \in Router : /\ node[v].sequence_num \in Nat /\ node'[v].sequence_num \in Nat
                           /\ node[v].sequence_num <= node'[v].sequence_num
  <2>1. e \in DOMAIN event_q /\ e.router \in Router
    BY DEF Dispatching
  <2>2. \A v \in Router : /\ node[v].sequence_num \in Nat
                          /\ \/ node'[v].sequence_num = node[v].sequence_num
                             \/ node'[v].sequence_num = node[v].sequence_num + 1
    BY NumberStep
  <2> QED BY <2>1, <2>2
<1>2. ASSUME NEW u \in Router, NEW v \in DOMAIN node'[u].max_sequence_num
      PROVE  node'[u].max_sequence_num[v] < node'[v].sequence_num
  <2>1. node[u] \in Node
    BY DEF IInv
  <2>2. /\ DOMAIN node[u].max_sequence_num \subseteq Router
        /\ \A x \in DOMAIN node[u].max_sequence_num : node[u].max_sequence_num[x] \in Nat
    BY <2>1, NumberFacts
  <2>3. CASE v \in DOMAIN node[u].max_sequence_num
             /\ node'[u].max_sequence_num[v] = node[u].max_sequence_num[v]
    BY <1>1, <2>2, <2>3 DEF Numbered
  <2>4. CASE IsLSP(e) /\ v = e.pkt.lsp.source /\ node'[u].max_sequence_num[v] = e.pkt.lsp.seq
    <3>1. /\ e.pkt.lsp.source \in Router /\ e.pkt.lsp.seq \in Nat
          /\ e.pkt.lsp.seq < node[e.pkt.lsp.source].sequence_num
      BY <1>1, <2>4, LSPOK DEF Numbered
    <3> QED BY <1>1, <2>4, <3>1
  <2>5. \/ node'[u].max_sequence_num = node[u].max_sequence_num
        \/ /\ IsLSP(e)
           /\ node'[u].max_sequence_num
                = Put(node[u].max_sequence_num, e.pkt.lsp.source, e.pkt.lsp.seq)
    BY MaxStep
  <2> QED BY <2>3, <2>4, <2>5 DEF Put
<1>3. ASSUME NEW f \in DOMAIN event_q', IsLSP(f)
      PROVE  /\ f.pkt.lsp.seq < node'[f.pkt.lsp.source].sequence_num
             /\ Sender(f) = f.pkt.lsp.source \/ Seen(node'[Sender(f)], f.pkt.lsp)
  <2> DEFINE lsp == f.pkt.lsp
  <2>1. CASE f \in DOMAIN event_q
    <3>1. /\ lsp.source \in Router /\ lsp.seq \in Nat /\ lsp.seq < node[lsp.source].sequence_num
          /\ Sender(f) = lsp.source \/ Seen(node[Sender(f)], lsp)
          /\ Sender(f) \in Router
      <4>1. f.router \in Router /\ f.port \in DOMAIN Wire[f.router]
        BY <1>3, <2>1, LSPOK
      <4>2. Sender(f) \in Router
        BY <4>1, WireFacts DEF Sender
      <4> QED BY <1>3, <2>1, <4>2, LSPOK DEF Numbered
    <3> HIDE DEF lsp
    <3>2. Seen(node[Sender(f)], lsp) => Seen(node'[Sender(f)], lsp)
      BY <3>1, SeenGrows
    <3> QED BY <1>1, <3>1, <3>2 DEF lsp
  <2>2. CASE f \in S
    <3> DEFINE u == e.router
               n == Elapsed(e)[u]
    <3>1. Sender(f) = u
      <4>1. PICK m \in way.out : f = Delivery(u, m, e.time, delay)
        BY <2>2 DEF Dispatching
      <4>2. m.port \in DOMAIN Wire[u]
        BY DEF Dispatching, WayOK
      <4> QED BY <1>1, <4>1, <4>2, ArrivalFacts DEF Sender
    <3>2. CASE TakesIn(e, n, way) /\ lsp = e.pkt.lsp
      <4>1. IsLSP(e)
        BY <3>2 DEF TakesIn
      <4>2. lsp.source \in Router /\ lsp.seq \in Nat /\ lsp.seq < node[lsp.source].sequence_num
        BY <1>1, <3>2, <4>1, LSPOK DEF Numbered
      <4>3. Seen(node'[u], lsp)
        <5>1. node'[u] = way.node
          BY <1>1, NodeStep
        <5> QED BY <3>2, <4>2, <5>1 DEF TakesIn, Seen, Put
      <4> QED BY <1>1, <3>1, <4>2, <4>3
    <3>3. CASE Announces(e, n, way) /\ \E table \in Tables(way.node) : lsp = Announcement(n, u, table)
      <4>1. lsp.source = u /\ lsp.seq = n.sequence_num
        BY <3>3 DEF Announcement
      <4>2. n.sequence_num = node[u].sequence_num
        BY <1>1, ElapsedTables DEF SameNumbers
      <4>3. node'[u].sequence_num = node[u].sequence_num + 1
        BY <1>1, <3>3, NumberStep
      <4> QED BY <1>1, <3>1, <4>1, <4>2, <4>3
    <3> QED BY <1>3, <2>2, <3>2, <3>3, SentLSP
  <2>3. f \notin Rearmed(e)
    BY <1>3 DEF Rearmed, AlarmEvent, IsLSP
  <2>4. f \in DOMAIN event_q \cup (S \cup Rearmed(e))
    BY DEF Dispatching, Requeued
  <2> QED BY <2>1, <2>2, <2>3, <2>4
<1> QED BY <1>2, <1>3 DEF Numbered, Sender

LEMMA NextNumbered == IInv /\ NumbersFit /\ Numbered /\ [Next]_vars => Numbered'
<1> SUFFICES ASSUME IInv, NumbersFit, Numbered, [Next]_vars PROVE Numbered'
  OBVIOUS
<1>1. ASSUME NEW e, NEW way, NEW S, Dispatching(e, way, S) PROVE Numbered'
  BY <1>1, NumberedStep
<1>2. ASSUME NEW e, Changing(e) PROVE Numbered'
  <2>1. e \in DOMAIN event_q /\ node' = Elapsed(e) /\ event_q' = event_q (-) SetToBag({e})
    BY <1>2 DEF Changing, ChangeLink
  <2>2. DOMAIN event_q' \subseteq DOMAIN event_q
    BY <2>1, TakeEvent DEF IInv, Taken
  <2>3. \A u \in Router : SameNumbers(node[u], node'[u])
    BY <2>1, ElapsedTables
  <2>4. ASSUME NEW u \in Router, NEW v \in DOMAIN node'[u].max_sequence_num
        PROVE  node'[u].max_sequence_num[v] < node'[v].sequence_num
    <3>1. node[u] \in Node
      BY DEF IInv
    <3>2. v \in DOMAIN node[u].max_sequence_num /\ v \in Router
      BY <2>3, <3>1, NumberFacts DEF SameNumbers
    <3> QED BY <2>3, <3>2 DEF Numbered, SameNumbers
  <2>5. ASSUME NEW f \in DOMAIN event_q', IsLSP(f)
        PROVE  /\ f.pkt.lsp.seq < node'[f.pkt.lsp.source].sequence_num
               /\ Sender(f) = f.pkt.lsp.source \/ Seen(node'[Sender(f)], f.pkt.lsp)
    <3>1. f \in DOMAIN event_q
      BY <2>2
    <3>2. f.pkt.lsp.source \in Router /\ f.router \in Router /\ f.port \in DOMAIN Wire[f.router]
      BY <2>5, <3>1, LSPOK
    <3>3. Sender(f) \in Router
      BY <3>2, WireFacts DEF Sender
    <3> QED BY <2>3, <2>5, <3>1, <3>2, <3>3 DEF Numbered, SameNumbers, Seen
  <2> QED BY <2>4, <2>5 DEF Numbered, Sender
<1>3. CASE UNCHANGED vars
  BY <1>3 DEF vars, Numbered, Sender, Seen
<1> QED BY <1>1, <1>2, <1>3, Steps
--------------------------------------------------------------------------------
LEMMA InitNumbered == Init => Numbered
<1> SUFFICES ASSUME Init PROVE Numbered
  OBVIOUS
<1> DEFINE As == {AlarmEvent(u, a, 0) : u \in Router, a \in DOMAIN Period}
           Ds == UNION {{Delivery(u, m, 0, InitialDelay) : m \in Hello(u)} : u \in Router}
           Q == scenario.events \cup As \cup Ds
<1>1. event_q = SetToBag(Q) /\ scenario \in Scenarios /\ node = [u \in Router |-> NewNode]
  BY DEF Init
<1>2. DOMAIN event_q = Q
  BY <1>1 DEF SetToBag
<1>3. \A f \in scenario.events : ~IsLSP(f)
  BY <1>1, NetworkAssumption DEF WellWired, Listed, IsLSP
<1>4. \A f \in As : ~IsLSP(f)
  BY DEF AlarmEvent, IsLSP
<1>5. \A f \in Ds : ~IsLSP(f)
  BY DEF Delivery, Hello, send_ping, IsLSP
<1> HIDE DEF As, Ds
<1>6. \A f \in DOMAIN event_q : ~IsLSP(f)
  BY <1>2, <1>3, <1>4, <1>5
<1>7. \A u \in Router : node[u].max_sequence_num = EmptyMap
  BY <1>1 DEF NewNode
<1> QED BY <1>6, <1>7 DEF Numbered, EmptyMap
--------------------------------------------------------------------------------
(* The neighbours of routers, long after a change. *)
LEMMA LiveNeighbors ==
  ASSUME NEW u \in Router, NEW p \in DOMAIN Wire[u], LinkAt(u, p) \in is_alive
  PROVE  /\ Wire[u][p] \in DOMAIN Edges[u] /\ Wire[u][p] # u /\ Wire[u][p] \in Router
         /\ u \in DOMAIN Edges[Wire[u][p]]
<1>1. Wire[u][p] \in Router \ {u}
  BY WireFacts DEF Wired
<1>2. {u, Wire[u][p]} \in is_alive /\ {Wire[u][p], u} = {u, Wire[u][p]}
  BY DEF LinkAt
<1> QED BY <1>1, <1>2 DEF Edges

LEMMA EdgeLink ==
  ASSUME NEW D \in Nat, TInv(D), NEW u \in Router, NEW x \in DOMAIN Edges[u]
  PROVE  \E p \in DOMAIN Wire[u] : Wire[u][p] = x /\ LinkAt(u, p) \in is_alive
<1>1. x \in Router \ {u} /\ {u, x} \in is_alive
  BY DEF Edges
<1>2. {u, x} \in Link
  BY <1>1 DEF TInv, Bounded
<1>3. PICK p \in DOMAIN Wire[u] : {u, x} = {u, Wire[u][p]}
  BY <1>2, NetworkAssumption DEF WellWired
<1> QED BY <1>1, <1>3 DEF LinkAt

(* An LSP that is sent over a live link arrives. *)
Copy(p, lsp) == [port |-> p, pkt |-> [type |-> "LS", lsp |-> lsp]]

LEMMA CopiesFacts ==
  ASSUME NEW u \in Router, NEW n, Sound(n, u, Wire[u]), NEW X \in SUBSET DOMAIN n.neighbor_table, NEW lsp
  PROVE  /\ IsFiniteSet(Copies(n, lsp, X))
         /\ \A p \in DOMAIN Wire[u] : Wire[u][p] \in X => Copy(p, lsp) \in Copies(n, lsp, X)
<1> DEFINE Cs == Copies(n, lsp, X)
<1>1. ASSUME NEW p \in DOMAIN Wire[u], Wire[u][p] \in X PROVE Copy(p, lsp) \in Cs
  <2> DEFINE x == Wire[u][p]
  <2>1. n.neighbor_table[x].port \in DOMAIN Wire[u] /\ Wire[u][n.neighbor_table[x].port] = x
    BY <1>1 DEF Sound, Linked
  <2>2. n.neighbor_table[x].port = p
    BY <2>1, WireFacts DEF Wired
  <2> QED BY <1>1, <2>2 DEF Copies, Copy
<1>2. IsFiniteSet(Cs)
  <2> DEFINE c == [y \in X |-> Copy(n.neighbor_table[y].port, lsp)]
  <2>1. c \in Surjection(X, Cs)
    BY DEF Surjection, Copies, Copy
  <2>2. X \subseteq Router
    BY NodeFields, MapElim DEF Sound
  <2>3. IsFiniteSet(X)
    BY <2>2, RouterIdAssumption, FS_Subset
  <2> HIDE DEF c, Cs
  <2> QED BY <2>1, <2>3, FS_Surjection
<1> QED BY <1>1, <1>2

LEMMA CopyArrives ==
  ASSUME NEW e, NEW way, NEW S, Dispatching(e, way, S), changed' = changed, changed # e.time,
         IsFiniteSet(way.out), NEW lsp, NEW p \in DOMAIN Wire[e.router],
         LinkAt(e.router, p) \in is_alive, Copy(p, lsp) \in way.out
  PROVE  \E f \in DOMAIN event_q' :
            /\ IsLSP(f) /\ f.router = Wire[e.router][p] /\ f.pkt.lsp = lsp
            /\ f.time = e.time + delay[LinkAt(e.router, p)]
<1> DEFINE u == e.router
           m == Copy(p, lsp)
           f == Delivery(u, m, e.time, delay)
<1>1. m.port = p /\ m.pkt.type = "LS" /\ m.pkt.lsp = lsp /\ u \in Router
  BY DEF Copy, Dispatching
<1> HIDE DEF m
<1>2. f \in DOMAIN event_q'
  BY <1>1, SentArrives DEF m
<1>3. /\ f.type = "recv" /\ f.pkt = m.pkt /\ f.router = Wire[u][p]
      /\ f.time = e.time + delay[LinkAt(u, p)]
  BY <1>1, ArrivalFacts
<1> QED BY <1>1, <1>2, <1>3 DEF IsLSP

(* A router that announces its neighbours long after a change does so over *)
(* its live links.                                                         *)
LEMMA AnnouncementArrives ==
  ASSUME NEW D \in Nat, Timely(D), IInv, IInv', TInv(D), TInv(D)',
         NEW e, NEW way, NEW S, Dispatching(e, way, S), changed' = changed, e.time > Known,
         Announces(e, Elapsed(e)[e.router], way),
         NEW p \in DOMAIN Wire[e.router], LinkAt(e.router, p) \in is_alive
  PROVE  \E f \in DOMAIN event_q' :
            /\ IsLSP(f) /\ f.router = Wire[e.router][p]
            /\ f.time = e.time + delay[LinkAt(e.router, p)]
            /\ f.pkt.lsp.source = e.router /\ f.pkt.lsp.seq = node[e.router].sequence_num
<1> DEFINE u == e.router
           n == Elapsed(e)[u]
           X == DOMAIN way.node.neighbor_table
<1>1. /\ e \in DOMAIN event_q /\ u \in Router /\ Sound(way.node, u, Wire[u])
      /\ e.time \in Nat /\ changed \in Nat /\ DETECT \in Nat
  BY DEF Dispatching, WayOK, TInv, Bounded, Timely
<1>2. n.sequence_num = node[u].sequence_num
  BY <1>1, ElapsedTables DEF SameNumbers
<1>3. PICK table \in Tables(way.node) :
         way.out = Copies(way.node, Announcement(n, u, table), X)
  BY DEF Announces, Posts
<1> DEFINE lsp == Announcement(n, u, table)
<1>4. Wire[u][p] \in X
  BY <1>1, AnnouncedTrue, LiveNeighbors
<1>5. changed # e.time
  BY <1>1 DEF Known
<1>6. lsp.source = u /\ lsp.seq = n.sequence_num
  BY DEF Announcement
<1> HIDE DEF n, lsp
<1>7. way.out = Copies(way.node, lsp, X)
  BY <1>3 DEF n, lsp
<1>8. IsFiniteSet(way.out) /\ Copy(p, lsp) \in way.out
  BY <1>1, <1>4, <1>7, CopiesFacts
<1>9. PICK f \in DOMAIN event_q' :
         /\ IsLSP(f) /\ f.router = Wire[u][p] /\ f.pkt.lsp = lsp
         /\ f.time = e.time + delay[LinkAt(u, p)]
  BY <1>5, <1>8, CopyArrives
<1> QED BY <1>2, <1>6, <1>9 DEF n
--------------------------------------------------------------------------------
(***************************************************************************)
(* Routes.  The announcement a neighbour makes long after a change makes   *)
(* its receiver compute its routes, if no other LSP did so before, and     *)
(* from then on they lead to neighbours.                                   *)
(***************************************************************************)
Renewing(u, t) ==
  \/ Ready(node[u])
  \/ \E f \in DOMAIN event_q : /\ IsLSP(f) /\ f.router = u /\ f.time <= t
                               /\ ~Seen(node[u], f.pkt.lsp)

Renewed ==
  \A u \in Router : \A p \in DOMAIN Wire[u] : LinkAt(u, p) \in is_alive =>
    \A e \in DOMAIN event_q : IsAlarm(e, Wire[u][p], "LS") =>
      \A s \in Before(e.time, LS_DURATION) :
        s > Known => Renewing(u, s + delay[LinkAt(u, p)])

LEMMA ReadyStep ==
  ASSUME NEW D \in Nat, Timely(D), IInv, IInv', TInv(D), TInv(D)',
         NEW e, NEW way, NEW S, Dispatching(e, way, S), changed' = changed, global_time > Known,
         NEW u \in Router, Ready(node[u])
  PROVE  Ready(node'[u])
<1> DEFINE n == Elapsed(e)[u]
<1>1. /\ e \in DOMAIN event_q /\ e.time \in Nat /\ global_time \in Nat /\ changed \in Nat
      /\ DETECT \in Nat /\ global_time <= e.time /\ global_time' = e.time
  BY DEF Dispatching, IInv, TInv, Bounded, Timely
<1>2. DOMAIN node'[u].neighbor_table = DOMAIN node[u].neighbor_table
  <2>1. NeighborsKnown /\ NeighborsKnown' /\ Edges' = Edges
    BY NeighborsRight, NeighborsRightNext, EdgesStep
  <2>2. QuietFor(DETECT) /\ QuietFor(DETECT)'
    BY <1>1 DEF QuietFor, Known
  <2> QED BY <2>1, <2>2 DEF NeighborsKnown
<1>3. n.routing_table = node[u].routing_table
  BY <1>1, ElapsedTables
<1>4. ASSUME node'[u].routing_table = node[u].routing_table PROVE Ready(node'[u])
  BY <1>2, <1>4 DEF Ready
<1>5. CASE u # e.router
  <2>1. node'[u] = n
    BY <1>5, NodeStep
  <2> QED BY <1>3, <1>4, <2>1
<1>6. CASE u = e.router
  <2>1. node'[u] = way.node
    BY <1>6, NodeStep
  <2>2. Spread(e, n, way)
    BY <1>6 DEF Dispatching
  <2> HIDE DEF n
  <2>3. CASE TakesIn(e, n, way)
    BY <2>1, <2>3 DEF TakesIn
  <2>4. CASE Touched(n, way.node)
    <3>1. CASE way.node.routing_table = n.routing_table
      BY <1>3, <1>4, <2>1, <3>1
    <3>2. ASSUME NEW x \in DOMAIN way.node.neighbor_table,
                 way.node.routing_table = Touch(n.routing_table, x, ZeroRoute)
          PROVE  way.node.routing_table = n.routing_table
      <4>1. x \in DOMAIN n.routing_table
        BY <1>2, <1>3, <2>1 DEF Ready
      <4> QED BY <3>2, <4>1 DEF Touch
    <3> QED BY <2>4, <3>1, <3>2 DEF Touched
  <2> QED BY <2>2, <2>3, <2>4 DEF Spread, Calm, Announces, Kept
<1> QED BY <1>5, <1>6

LEMMA RenewingStep ==
  ASSUME NEW D \in Nat, Timely(D), IInv, IInv', TInv(D), TInv(D)',
         NEW e, NEW way, NEW S, Dispatching(e, way, S), changed' = changed, global_time > Known,
         NEW u \in Router, NEW t, t' = t, Renewing(u, t)
  PROVE  Renewing(u, t)'
<1>1. CASE Ready(node[u])
  BY <1>1, ReadyStep DEF Renewing
<1>2. ASSUME NEW f \in DOMAIN event_q, IsLSP(f), f.router = u, f.time <= t,
             ~Seen(node[u], f.pkt.lsp)
      PROVE  Renewing(u, t)'
  <2>1. CASE u = e.router /\ TakesIn(e, Elapsed(e)[u], way)
    <3>1. node'[u] = way.node /\ Ready(way.node)
      BY <2>1, NodeStep DEF TakesIn
    <3> QED BY <3>1 DEF Renewing
  <2>2. CASE ~(u = e.router /\ TakesIn(e, Elapsed(e)[u], way))
    <3>1. /\ node'[u].max_sequence_num = node[u].max_sequence_num
          /\ u = e.router /\ IsLSP(e) => Seen(node[u], e.pkt.lsp)
      BY <2>2, MaxStep
    <3>2. f # e
      BY <1>2, <3>1
    <3>3. f \in DOMAIN event_q'
      BY <3>2, StaysOrDue
    <3>4. ~Seen(node'[u], f.pkt.lsp)
      BY <1>2, <3>1 DEF Seen
    <3> QED BY <1>2, <3>3, <3>4 DEF Renewing
  <2> QED BY <2>1, <2>2
<1> QED BY <1>1, <1>2 DEF Renewing

LEMMA RenewedStep ==
  ASSUME NEW D \in Nat, Timely(D), IInv, IInv', TInv(D), TInv(D)', NumbersFit, Numbered, Renewed,
         NEW e, NEW way, NEW S, Dispatching(e, way, S), changed' = changed
  PROVE  Renewed'
<1> SUFFICES ASSUME NEW u \in Router, NEW p \in DOMAIN Wire[u], LinkAt(u, p) \in is_alive,
                    NEW f \in DOMAIN event_q', IsAlarm(f, Wire[u][p], "LS"),
                    NEW s \in Before(f.time, LS_DURATION), s > Known
             PROVE  Renewing(u, s + delay[LinkAt(u, p)])'
  BY DEF Renewed, Dispatching, Known
<1> DEFINE v == Wire[u][p]
           t == s + delay[LinkAt(u, p)]
<1>1. /\ LSTimes /\ v \in Router /\ v # u /\ t' = t
      /\ e.time \in Nat /\ global_time \in Nat /\ changed \in Nat /\ Known \in Nat
      /\ Wire[v][get_link_port(v, u)] = u /\ get_link_port(v, u) \in DOMAIN Wire[v]
  BY LSTimesFacts, WireFacts DEF Dispatching, IInv, TInv, Bounded, Known, LSTimes, Wired
<1>2. /\ s \in Nat /\ s <= e.time
      /\ \/ IsAlarm(e, v, "LS") /\ s = e.time
         \/ \E g \in DOMAIN event_q : /\ IsAlarm(g, v, "LS") /\ s \in Before(g.time, LS_DURATION)
                                      /\ s <= global_time
  BY <1>1, RangBefore DEF LSTimes
<1>3. e.time > Known
  BY <1>1, <1>2
<1> HIDE DEF t
<1>4. CASE IsAlarm(e, v, "LS") /\ s = e.time
  <2> DEFINE q == get_link_port(v, u)
  <2>1. e.router = v /\ LinkAt(v, q) = LinkAt(u, p)
    BY <1>1, <1>4 DEF IsAlarm, LinkAt
  <2>2. Announces(e, Elapsed(e)[v], way)
    BY <1>4, <2>1 DEF Dispatching, Spread, Calm, TakesIn, IsLSP, IsAlarm
  <2> HIDE DEF q, v
  <2>3. q \in DOMAIN Wire[v] /\ Wire[v][q] = u /\ LinkAt(v, q) \in is_alive
    BY <1>1, <2>1 DEF q
  <2>4. PICK g \in DOMAIN event_q' :
           /\ IsLSP(g) /\ g.router = Wire[v][q] /\ g.time = e.time + delay[LinkAt(v, q)]
           /\ g.pkt.lsp.source = v /\ g.pkt.lsp.seq = node[v].sequence_num
    BY <1>3, <2>1, <2>2, <2>3, AnnouncementArrives
  <2>5. g.router = u /\ g.time = t
    BY <1>4, <2>1, <2>3, <2>4 DEF t
  <2>6. ~Seen(node'[u], g.pkt.lsp)
    <3>1. node'[u].max_sequence_num = node[u].max_sequence_num
      BY <1>1, <2>1, MaxStep
    <3>2. node[u] \in Node /\ node[v] \in Node
      BY <1>1 DEF IInv
    <3>3. v \in DOMAIN node[u].max_sequence_num =>
             /\ node[u].max_sequence_num[v] \in Nat /\ node[v].sequence_num \in Nat
             /\ node[u].max_sequence_num[v] < node[v].sequence_num
      BY <3>2, NumberFacts DEF Numbered
    <3> QED BY <2>4, <3>1, <3>3 DEF Seen
  <2>7. t <= t
    BY <1>1, <1>2, DelayFacts DEF t
  <2> QED BY <1>1, <2>4, <2>5, <2>6, <2>7 DEF Renewing, t
<1>5. ASSUME NEW g \in DOMAIN event_q, IsAlarm(g, v, "LS"), s \in Before(g.time, LS_DURATION),
             s <= global_time
      PROVE  Renewing(u, t)'
  <2>1. Renewing(u, t)
    BY <1>5 DEF Renewed, t
  <2>2. global_time > Known
    BY <1>1, <1>2, <1>5
  <2> QED BY <1>1, <2>1, <2>2, RenewingStep
<1> QED BY <1>2, <1>4, <1>5 DEF t
--------------------------------------------------------------------------------
(* In a settled network a router with a live link has computed its routes  *)
(* since the network was known.                                            *)
LEMMA SettledReady ==
  ASSUME NEW D \in Nat, Timely(D), Settles(D), IInv, TInv(D), Renewed, QuietFor(SETTLE),
         NEW u \in Router, NEW p \in DOMAIN Wire[u], LinkAt(u, p) \in is_alive
  PROVE  Ready(node[u])
<1> DEFINE v == Wire[u][p]
           d == delay[LinkAt(u, p)]
           x == global_time - d
<1>1. /\ LSTimes /\ AlarmsOnce /\ v \in Router /\ d \in Nat /\ d <= D
      /\ global_time \in Nat /\ changed \in Nat
      /\ \A f \in DOMAIN event_q : f.time >= global_time
  BY LSTimesFacts, AlarmsAreOnce, WireFacts, DelayFacts DEF IInv, TInv, Bounded, QueueSound, BagToSet
<1>2. PICK e \in DOMAIN event_q : IsAlarm(e, v, "LS") /\ e.time \in Nat /\ global_time <= e.time
  BY <1>1 DEF AlarmsOnce, LSTimes
<1>3. /\ DETECT + LS_DURATION + D <= SETTLE /\ SETTLE \in Nat /\ global_time > changed + SETTLE
      /\ LS_DURATION \in Nat \ {0} /\ DETECT \in Nat
  BY <1>1 DEF Settles, QuietFor, LSTimes
<1> HIDE DEF v, d
<1>4. x \in Nat /\ x <= e.time /\ x >= LS_DURATION /\ x > changed + DETECT + LS_DURATION
  BY <1>1, <1>2, <1>3
<1> HIDE DEF x
<1>5. PICK s \in Before(e.time, LS_DURATION) : s < x /\ s + LS_DURATION >= x
  BY <1>2, <1>3, <1>4, BeforeAny
<1>6. s \in Nat /\ s > Known /\ s + d < global_time
  <2>1. s \in Nat
    BY DEF Before
  <2> QED BY <1>1, <1>3, <1>4, <1>5, <2>1 DEF Known, x
<1>7. Renewing(u, s + d)
  BY <1>2, <1>5, <1>6 DEF Renewed, v, d
<1>8. \A f \in DOMAIN event_q : ~(f.time <= s + d)
  <2>1. \A f \in DOMAIN event_q : f.time \in Nat
    BY DEF IInv, EventOK, Listed, AlarmOK, RecvOK
  <2> QED BY <1>1, <1>6, <2>1
<1> QED BY <1>7, <1>8 DEF Renewing

(* Right after a change no alarm has rung since the network was known. *)
LEMMA FreshQuiet ==
  ASSUME NEW D \in Nat, Timely(D), Fresh(D), NEW u \in Router,
         NEW e \in DOMAIN event_q, IsAlarm(e, u, "LS"), NEW s \in Before(e.time, LS_DURATION)
  PROVE  ~(s > Known)
<1>1. LSTimes /\ AlarmsOnce /\ global_time \in Nat /\ changed = global_time
  BY LSTimesFacts, AlarmsAreOnce DEF Fresh, IInv
<1>2. e.time \in Nat /\ e.time <= global_time + LS_DURATION
  BY <1>1 DEF AlarmsOnce, LSTimes
<1>3. s \in Nat /\ s + LS_DURATION <= e.time
  BY <1>1, <1>2, BeforeNext DEF LSTimes
<1> QED BY <1>1, <1>2, <1>3 DEF Known, LSTimes

LEMMA FreshRenewed == ASSUME NEW D \in Nat, Timely(D) PROVE Fresh(D) => Renewed
BY FreshQuiet, WireFacts DEF Renewed

LEMMA FreshRenewedNext == ASSUME NEW D \in Nat, Timely(D) PROVE Fresh(D)' => Renewed'
<1>1. Fresh(D) => Renewed
  BY FreshRenewed
<1> QED BY <1>1, PTL

LEMMA NextRenewed ==
  ASSUME NEW D \in Nat, Timely(D)
  PROVE  IInv /\ IInv' /\ TInv(D) /\ TInv(D)' /\ NumbersFit /\ Numbered /\ Renewed /\ [Next]_vars
           => Renewed'
<1> SUFFICES ASSUME IInv, IInv', TInv(D), TInv(D)', NumbersFit, Numbered, Renewed, [Next]_vars
             PROVE  Renewed'
  OBVIOUS
<1>1. ASSUME changed' = global_time' PROVE Renewed'
  <2>1. Fresh(D)'
    BY <1>1 DEF Fresh, TInv
  <2> QED BY <2>1, FreshRenewedNext
<1>2. ASSUME NEW e, NEW way, NEW S, Dispatching(e, way, S) PROVE Renewed'
  <2>1. CASE changed' = e.time
    BY <1>1, <1>2, <2>1 DEF Dispatching
  <2>2. CASE changed' = changed
    BY <1>2, <2>2, RenewedStep
  <2> QED BY <1>2, <2>1, <2>2 DEF Dispatching
<1>3. ASSUME NEW e, Changing(e) PROVE Renewed'
  BY <1>1, <1>3 DEF Changing, ChangeLink
<1>4. CASE UNCHANGED vars
  <2>1. /\ node' = node /\ event_q' = event_q /\ is_alive' = is_alive /\ delay' = delay
        /\ Known' = Known
    BY <1>4 DEF vars, Known
  <2> QED BY <2>1 DEF Renewed, Renewing
<1> QED BY <1>2, <1>3, <1>4, Steps

(* In a settled network, as long as the sequence numbers last, the routes  *)
(* of every router with a live link lead over live links to neighbours,    *)
(* though no change of a router's own links makes it compute them anew and *)
(* a PONG may put a route to nowhere in the table: each neighbour sends    *)
(* its LSP at least once a period, and one that is newer does.             *)
THEOREM RoutesAlwaysForward ==
  ASSUME NEW D \in Nat, Timely(D), Settles(D)
  PROVE  Spec /\ []NumbersFit => []RoutesForward
<1>1. IInv /\ TInv(D) /\ Renewed => RoutesForward
  <2> SUFFICES ASSUME IInv, TInv(D), Renewed, QuietFor(SETTLE),
                      NEW u \in Router, DOMAIN Edges[u] # {}, NEW d \in DOMAIN node[u].routing_table
               PROVE  \E p \in recv_data(node[u], u, d) :
                        /\ Wire[u][p] = node[u].routing_table[d].next_hop
                        /\ LinkAt(u, p) \in is_alive
    BY DEF RoutesForward
  <2> DEFINE x == node[u].routing_table[d].next_hop
  <2>1. PICK y \in DOMAIN Edges[u] : TRUE
    OBVIOUS
  <2>2. \E p \in DOMAIN Wire[u] : LinkAt(u, p) \in is_alive
    BY <2>1, EdgeLink
  <2>3. Ready(node[u])
    BY <2>2, SettledReady
  <2>4. QuietFor(DETECT) /\ Sound(node[u], u, Wire[u]) /\ Wired(u, Wire[u])
    <3>1. /\ DETECT + LS_DURATION + D <= SETTLE /\ SETTLE \in Nat /\ global_time > changed + SETTLE
          /\ LSTimes /\ changed \in Nat /\ global_time \in Nat
      BY LSTimesFacts DEF Settles, QuietFor, IInv, TInv, Bounded
    <3>2. global_time > changed + DETECT
      BY <3>1 DEF LSTimes
    <3> QED BY <3>2, WireFacts DEF QuietFor, IInv, NodesOK
  <2>5. x \in DOMAIN node[u].neighbor_table
    BY <2>3 DEF Ready
  <2>6. PICK p \in DOMAIN Wire[u] : recv_data(node[u], u, d) = {p} /\ Wire[u][p] = x
    BY <2>4, <2>5, RouteForwards
  <2>7. {u, x} \in is_alive
    BY <2>4, <2>5, DeadForgotten
  <2> QED BY <2>6, <2>7 DEF LinkAt
<1>2. Init => TInv(D) /\ Numbered /\ Renewed
  BY InitTInv, InitNumbered, InitFresh, FreshRenewed
<1>3. IInv /\ IInv' /\ TInv(D) /\ [Next]_vars => TInv(D)'
  BY NextTInv DEF Timely
<1>4. IInv /\ NumbersFit /\ Numbered /\ [Next]_vars => Numbered'
  BY NextNumbered
<1>5. IInv /\ IInv' /\ TInv(D) /\ TInv(D)' /\ NumbersFit /\ Numbered /\ Renewed /\ [Next]_vars
        => Renewed'
  BY NextRenewed
<1> QED BY <1>1, <1>2, <1>3, <1>4, <1>5, Invariance, PTL DEF Spec
--------------------------------------------------------------------------------
(***************************************************************************)
(* Floods.  Once a router has announced itself on the present network, of  *)
(* two routers with a live link between them the second has had its last   *)
(* LSP if the first has, or the LSP is on the way there.                   *)
(***************************************************************************)
LastSeq(d) == node[d].sequence_num - 1

Has(w, d) == w = d \/ (/\ d \in DOMAIN node[w].max_sequence_num
                       /\ node[w].max_sequence_num[d] = LastSeq(d))

OnTheWay(x, d) == \E f \in DOMAIN event_q : /\ IsLSP(f) /\ f.router = x
                                            /\ f.pkt.lsp.source = d /\ f.pkt.lsp.seq = LastSeq(d)

Passed(w, p, d) == Has(w, d) => Has(Wire[w][p], d) \/ OnTheWay(Wire[w][p], d)

Reached ==
  \A d \in Router : \A e \in DOMAIN event_q : IsAlarm(e, d, "LS") =>
    \A s \in Before(e.time, LS_DURATION) : s > Known =>
      \A w \in Router : \A p \in DOMAIN Wire[w] :
        LinkAt(w, p) \in is_alive => Passed(w, p, d)

(* A router that has had an LSP with the last number of d has its last.    *)
LEMMA LastSeen ==
  ASSUME IInv, Numbered, NEW w \in Router, NEW d \in Router,
         NEW lsp, lsp.source = d, lsp.seq = LastSeq(d), Seen(node[w], lsp)
  PROVE  Has(w, d)
<1>1. node[w] \in Node /\ node[d] \in Node
  BY DEF IInv
<1>2. /\ d \in DOMAIN node[w].max_sequence_num /\ node[w].max_sequence_num[d] \in Nat
      /\ node[d].sequence_num \in Nat
      /\ node[w].max_sequence_num[d] < node[d].sequence_num
      /\ node[w].max_sequence_num[d] >= node[d].sequence_num - 1
  BY <1>1, NumberFacts DEF Seen, Numbered, LastSeq
<1>3. node[w].max_sequence_num[d] = node[d].sequence_num - 1
  BY <1>2
<1> QED BY <1>2, <1>3 DEF Has, LastSeq

LEMMA LastSeenNext ==
  ASSUME IInv', Numbered', NEW w \in Router, NEW d \in Router,
         NEW lsp, lsp.source = d, lsp.seq = LastSeq(d)', Seen(node'[w], lsp)
  PROVE  Has(w, d)'
<1>1. node'[w] \in Node /\ node'[d] \in Node
  BY DEF IInv
<1>2. /\ d \in DOMAIN node'[w].max_sequence_num /\ node'[w].max_sequence_num[d] \in Nat
      /\ node'[d].sequence_num \in Nat
      /\ node'[w].max_sequence_num[d] < node'[d].sequence_num
      /\ node'[w].max_sequence_num[d] >= node'[d].sequence_num - 1
  BY <1>1, NumberFacts DEF Seen, Numbered, LastSeq
<1>3. node'[w].max_sequence_num[d] = node'[d].sequence_num - 1
  BY <1>2
<1> QED BY <1>2, <1>3 DEF Has, LastSeq

(* As long as d announces nothing new, who has had its last LSP still has. *)
LEMMA HasStays ==
  ASSUME IInv, IInv', NumbersFit, Numbered, Numbered',
         NEW e, NEW way, NEW S, Dispatching(e, way, S),
         NEW d \in Router, LastSeq(d)' = LastSeq(d), NEW w \in Router, Has(w, d)
  PROVE  Has(w, d)'
<1>1. CASE w = d
  BY <1>1 DEF Has
<1>2. CASE w # d
  <2> DEFINE lsp == [source |-> d, seq |-> LastSeq(d)]
  <2>1. node[w] \in Node
    BY DEF IInv
  <2>2. /\ d \in DOMAIN node[w].max_sequence_num /\ node[w].max_sequence_num[d] \in Nat
        /\ node[w].max_sequence_num[d] = LastSeq(d)
    BY <1>2, <2>1, NumberFacts DEF Has
  <2>3. lsp.source = d /\ lsp.seq = LastSeq(d)' /\ lsp.seq = LastSeq(d)
    OBVIOUS
  <2> HIDE DEF lsp
  <2>4. lsp.seq \in Nat /\ Seen(node[w], lsp)
    BY <2>2, <2>3 DEF Seen
  <2>5. Seen(node'[w], lsp)
    BY <2>4, SeenGrows
  <2> QED BY <2>3, <2>5, LastSeenNext
<1> QED BY <1>1, <1>2

(* An LSP on the way stays so or is had. *)
LEMMA OnTheWayStays ==
  ASSUME IInv, IInv', Numbered', NEW e, NEW way, NEW S, Dispatching(e, way, S),
         NEW d \in Router, LastSeq(d)' = LastSeq(d), NEW x \in Router, OnTheWay(x, d)
  PROVE  Has(x, d)' \/ OnTheWay(x, d)'
<1>1. PICK f \in DOMAIN event_q : /\ IsLSP(f) /\ f.router = x
                                  /\ f.pkt.lsp.source = d /\ f.pkt.lsp.seq = LastSeq(d)
  BY DEF OnTheWay
<1>2. CASE f # e
  BY <1>1, <1>2, StaysOrDue DEF OnTheWay
<1>3. CASE f = e
  <2> DEFINE lsp == e.pkt.lsp
  <2>1. /\ lsp.source = d /\ lsp.seq = LastSeq(d)' /\ lsp.seq \in Nat
        /\ x = e.router /\ IsLSP(e)
    BY <1>1, <1>3, LSPOK
  <2>2. Seen(node'[x], lsp)
    <3>1. CASE Seen(node[x], lsp)
      <4> HIDE DEF lsp
      <4> QED BY <2>1, <3>1, SeenGrows
    <3>2. CASE node'[x].max_sequence_num = Put(node[x].max_sequence_num, lsp.source, lsp.seq)
      BY <2>1, <3>2 DEF Seen, Put
    <3>3. \/ Seen(node[x], lsp)
          \/ node'[x].max_sequence_num = Put(node[x].max_sequence_num, lsp.source, lsp.seq)
      BY <2>1, MaxStep
    <3> QED BY <3>1, <3>2, <3>3
  <2> HIDE DEF lsp
  <2> QED BY <2>1, <2>2, LastSeenNext
<1> QED BY <1>2, <1>3

(* A new LSP, of d itself. *)
LEMMA PassedAnnounced ==
  ASSUME NEW D \in Nat, Timely(D), IInv, IInv', TInv(D), TInv(D)', NumbersFit, Numbered,
         NEW e, NEW way, NEW S, Dispatching(e, way, S), changed' = changed, e.time > Known,
         NEW d \in Router, d = e.router, Announces(e, Elapsed(e)[d], way),
         NEW w \in Router, NEW p \in DOMAIN Wire[w], LinkAt(w, p) \in is_alive
  PROVE  Passed(w, p, d)'
<1>1. /\ node[d].sequence_num \in Nat
      /\ node'[d].sequence_num = node[d].sequence_num + 1
  BY NumberStep
<1>2. LastSeq(d)' = node[d].sequence_num
  BY <1>1 DEF LastSeq
<1>3. CASE w = d
  <2>1. PICK f \in DOMAIN event_q' :
           /\ IsLSP(f) /\ f.router = Wire[d][p]
           /\ f.pkt.lsp.source = d /\ f.pkt.lsp.seq = node[d].sequence_num
    BY <1>3, AnnouncementArrives
  <2> QED BY <1>2, <1>3, <2>1 DEF Passed, OnTheWay
<1>4. CASE w # d
  <2>1. node'[w].max_sequence_num = node[w].max_sequence_num
    BY <1>4, MaxStep
  <2>2. node[w] \in Node
    BY DEF IInv
  <2>3. d \in DOMAIN node[w].max_sequence_num =>
           /\ node[w].max_sequence_num[d] \in Nat
           /\ node[w].max_sequence_num[d] < node[d].sequence_num
    BY <2>2, NumberFacts DEF Numbered
  <2>4. ~Has(w, d)'
    BY <1>1, <1>2, <1>4, <2>1, <2>3 DEF Has
  <2> QED BY <2>4 DEF Passed
<1> QED BY <1>3, <1>4

(* A router that takes an LSP in passes it on over all its live links but  *)
(* the one it came in on, and who is at the other end of that has had it.  *)
LEMMA PassedOn ==
  ASSUME NEW D \in Nat, Timely(D), IInv, IInv', TInv(D), TInv(D)', NumbersFit, Numbered, Numbered',
         NEW e, NEW way, NEW S, Dispatching(e, way, S), changed' = changed, e.time > Known,
         NEW d \in Router, LastSeq(d)' = LastSeq(d),
         NEW w \in Router, w = e.router, TakesIn(e, Elapsed(e)[w], way),
         e.pkt.lsp.source = d, e.pkt.lsp.seq = LastSeq(d),
         NEW p \in DOMAIN Wire[w], LinkAt(w, p) \in is_alive
  PROVE  Passed(w, p, d)'
<1> DEFINE n == Elapsed(e)[w]
           x == Wire[w][p]
           lsp == e.pkt.lsp
           X == {y \in DOMAIN n.neighbor_table : n.neighbor_table[y].port # e.port}
<1>1. /\ e \in DOMAIN event_q /\ IsLSP(e) /\ x \in Router /\ Sound(n, w, Wire[w])
      /\ e.time \in Nat /\ changed \in Nat /\ DETECT \in Nat
  BY ElapsedTables, WireFacts DEF TakesIn, Dispatching, TInv, Bounded, Timely
<1>2. changed # e.time
  BY <1>1 DEF Known
<1>3. CASE p = e.port
  <2>1. x = Sender(e)
    BY <1>3 DEF Sender
  <2>2. x = d \/ Seen(node[x], lsp)
    BY <1>1, <2>1 DEF Numbered
  <2>3. Has(x, d)
    <3>1. lsp.source = d /\ lsp.seq = LastSeq(d)
      OBVIOUS
    <3> HIDE DEF lsp, x
    <3> QED BY <1>1, <2>2, <3>1, LastSeen DEF Has
  <2>4. Has(x, d)'
    BY <1>1, <2>3, HasStays
  <2> QED BY <2>4 DEF Passed
<1>4. CASE p # e.port
  <2>1. way.out = Copies(n, lsp, X) /\ way.node.neighbor_table = n.neighbor_table
    BY DEF TakesIn
  <2>2. x \in DOMAIN n.neighbor_table
    BY <1>1, <2>1, AnnouncedTrue, LiveNeighbors
  <2>3. n.neighbor_table[x].port = p
    <3>1. n.neighbor_table[x].port \in DOMAIN Wire[w] /\ Wire[w][n.neighbor_table[x].port] = x
      BY <1>1, <2>2 DEF Sound, Linked
    <3>2. \A q \in DOMAIN Wire[w] : Wire[w][q] = Wire[w][p] => q = p
      BY WireFacts DEF Wired
    <3> QED BY <3>1, <3>2
  <2>4. x \in X /\ X \in SUBSET DOMAIN n.neighbor_table
    BY <1>4, <2>2, <2>3
  <2> HIDE DEF X, n, lsp
  <2>5. IsFiniteSet(way.out) /\ Copy(p, lsp) \in way.out
    BY <1>1, <2>1, <2>4, CopiesFacts
  <2>6. PICK f \in DOMAIN event_q' : IsLSP(f) /\ f.router = x /\ f.pkt.lsp = lsp
    BY <1>2, <2>5, CopyArrives
  <2>7. OnTheWay(x, d)'
    BY <2>6 DEF OnTheWay, lsp
  <2> QED BY <2>7 DEF Passed
<1> QED BY <1>3, <1>4

LEMMA ReachedStep ==
  ASSUME NEW D \in Nat, Timely(D), IInv, IInv', TInv(D), TInv(D)',
         NumbersFit, Numbered, Numbered', Reached,
         NEW e, NEW way, NEW S, Dispatching(e, way, S), changed' = changed
  PROVE  Reached'
<1> SUFFICES ASSUME NEW d \in Router, NEW f \in DOMAIN event_q', IsAlarm(f, d, "LS"),
                    NEW s \in Before(f.time, LS_DURATION), s > Known,
                    NEW w \in Router, NEW p \in DOMAIN Wire[w], LinkAt(w, p) \in is_alive
             PROVE  Passed(w, p, d)'
  BY DEF Reached, Dispatching, Known
<1>1. /\ LSTimes /\ e.time \in Nat /\ changed \in Nat /\ Known \in Nat
      /\ Wire[w][p] \in Router
  BY LSTimesFacts, WireFacts DEF Dispatching, TInv, Bounded, Known, LSTimes
<1>2. /\ s \in Nat /\ s <= e.time
      /\ \/ IsAlarm(e, d, "LS") /\ s = e.time
         \/ \E g \in DOMAIN event_q : IsAlarm(g, d, "LS") /\ s \in Before(g.time, LS_DURATION)
  BY <1>1, RangBefore DEF LSTimes
<1>3. e.time > Known
  BY <1>1, <1>2
<1>4. CASE d = e.router /\ Announces(e, Elapsed(e)[d], way)
  BY <1>3, <1>4, PassedAnnounced
<1>5. CASE ~(d = e.router /\ Announces(e, Elapsed(e)[d], way))
  <2>1. LastSeq(d)' = LastSeq(d) /\ ~IsAlarm(e, d, "LS")
    <3>1. /\ node'[d].sequence_num = node[d].sequence_num
          /\ d = e.router => ~IsAlarm(e, d, "LS")
      BY <1>5, NumberStep
    <3> QED BY <3>1 DEF LastSeq, IsAlarm
  <2>2. Passed(w, p, d)
    BY <1>2, <2>1 DEF Reached
  <2>3. CASE /\ w = e.router /\ TakesIn(e, Elapsed(e)[w], way)
             /\ e.pkt.lsp.source = d /\ e.pkt.lsp.seq = LastSeq(d)
    BY <1>3, <2>1, <2>3, PassedOn
  <2>4. CASE ~ /\ w = e.router /\ TakesIn(e, Elapsed(e)[w], way)
               /\ e.pkt.lsp.source = d /\ e.pkt.lsp.seq = LastSeq(d)
    <3>1. Has(w, d)' => Has(w, d)
      <4>1. CASE node'[w].max_sequence_num = node[w].max_sequence_num
        BY <2>1, <4>1 DEF Has
      <4>2. CASE /\ w = e.router /\ TakesIn(e, Elapsed(e)[w], way)
                 /\ node'[w].max_sequence_num
                      = Put(node[w].max_sequence_num, e.pkt.lsp.source, e.pkt.lsp.seq)
        <5>1. CASE e.pkt.lsp.source # d
          BY <2>1, <4>2, <5>1 DEF Has, Put
        <5>2. CASE e.pkt.lsp.source = d
          BY <2>1, <2>4, <4>2, <5>2 DEF Has, Put
        <5> QED BY <5>1, <5>2
      <4>3. \/ node'[w].max_sequence_num = node[w].max_sequence_num
            \/ /\ w = e.router /\ TakesIn(e, Elapsed(e)[w], way)
               /\ node'[w].max_sequence_num
                    = Put(node[w].max_sequence_num, e.pkt.lsp.source, e.pkt.lsp.seq)
        BY MaxStep
      <4> QED BY <4>1, <4>2, <4>3
    <3> DEFINE x == Wire[w][p]
    <3>2. Has(w, d) => Has(x, d) \/ OnTheWay(x, d)
      BY <2>2 DEF Passed
    <3>3. x \in Router
      BY <1>1
    <3> HIDE DEF x
    <3>4. Has(x, d) => Has(x, d)'
      BY <2>1, <3>3, HasStays
    <3>5. OnTheWay(x, d) => Has(x, d)' \/ OnTheWay(x, d)'
      BY <2>1, <3>3, OnTheWayStays
    <3> QED BY <3>1, <3>2, <3>4, <3>5 DEF Passed, x
  <2> QED BY <2>3, <2>4
<1> QED BY <1>4, <1>5
--------------------------------------------------------------------------------
LEMMA FreshReached == ASSUME NEW D \in Nat, Timely(D) PROVE Fresh(D) => Reached
<1> SUFFICES ASSUME Fresh(D), NEW u \in Router, NEW e \in DOMAIN event_q, IsAlarm(e, u, "LS"),
                    NEW s \in Before(e.time, LS_DURATION)
             PROVE  ~(s > Known)
  BY DEF Reached
<1> QED BY FreshQuiet

LEMMA FreshReachedNext == ASSUME NEW D \in Nat, Timely(D) PROVE Fresh(D)' => Reached'
<1>1. Fresh(D) => Reached
  BY FreshReached
<1> QED BY <1>1, PTL

LEMMA NextReached ==
  ASSUME NEW D \in Nat, Timely(D)
  PROVE  IInv /\ IInv' /\ TInv(D) /\ TInv(D)' /\ NumbersFit /\ Numbered /\ Numbered' /\ Reached
           /\ [Next]_vars => Reached'
<1> SUFFICES ASSUME IInv, IInv', TInv(D), TInv(D)', NumbersFit, Numbered, Numbered', Reached,
                    [Next]_vars
             PROVE  Reached'
  OBVIOUS
<1>1. ASSUME changed' = global_time' PROVE Reached'
  <2>1. Fresh(D)'
    BY <1>1 DEF Fresh, TInv
  <2> QED BY <2>1, FreshReachedNext
<1>2. ASSUME NEW e, NEW way, NEW S, Dispatching(e, way, S) PROVE Reached'
  <2>1. CASE changed' = e.time
    BY <1>1, <1>2, <2>1 DEF Dispatching
  <2>2. CASE changed' = changed
    BY <1>2, <2>2, ReachedStep
  <2> QED BY <1>2, <2>1, <2>2 DEF Dispatching
<1>3. ASSUME NEW e, Changing(e) PROVE Reached'
  BY <1>1, <1>3 DEF Changing, ChangeLink
<1>4. CASE UNCHANGED vars
  <2>1. /\ node' = node /\ event_q' = event_q /\ is_alive' = is_alive /\ Known' = Known
    BY <1>4 DEF vars, Known
  <2> QED BY <2>1 DEF Reached, Passed, Has, OnTheWay, LastSeq
<1> QED BY <1>2, <1>3, <1>4, Steps

(* When no LSP is on the way, a router has had the last one of d if a      *)
(* neighbour of it has.                                                    *)
LEMMA SettledHas ==
  ASSUME NEW D \in Nat, Timely(D), Settles(D), IInv, TInv(D), Reached, QuietFor(SETTLE),
         LSPsOnTheWay = {}, NEW d \in Router, NEW w \in Router, NEW x \in DOMAIN Edges[w],
         Has(x, d)
  PROVE  Has(w, d)
<1>1. /\ LSTimes /\ AlarmsOnce /\ global_time \in Nat /\ changed \in Nat
  BY LSTimesFacts, AlarmsAreOnce DEF IInv, TInv, Bounded
<1>2. PICK e \in DOMAIN event_q : IsAlarm(e, d, "LS") /\ e.time \in Nat /\ global_time <= e.time
  BY <1>1 DEF AlarmsOnce, LSTimes
<1>3. /\ DETECT + LS_DURATION + D <= SETTLE /\ SETTLE \in Nat /\ global_time > changed + SETTLE
      /\ LS_DURATION \in Nat \ {0} /\ DETECT \in Nat
  BY <1>1 DEF Settles, QuietFor, LSTimes
<1>4. global_time >= LS_DURATION
  BY <1>1, <1>3
<1>5. PICK s \in Before(e.time, LS_DURATION) : s + LS_DURATION >= global_time
  BY <1>1, <1>2, <1>3, <1>4, BeforeAny
<1>6. s > Known
  <2>1. s \in Nat
    BY DEF Before
  <2> QED BY <1>1, <1>3, <1>5, <2>1 DEF Known
<1>7. x \in Router /\ w \in DOMAIN Edges[x]
  BY EdgesAgree
<1>8. PICK p \in DOMAIN Wire[x] : Wire[x][p] = w /\ LinkAt(x, p) \in is_alive
  BY <1>7, EdgeLink
<1>9. Passed(x, p, d)
  BY <1>2, <1>5, <1>6, <1>7, <1>8 DEF Reached
<1>10. ~OnTheWay(w, d)
  BY DEF OnTheWay, LSPsOnTheWay, BagToSet, IsLSP
<1> QED BY <1>8, <1>9, <1>10 DEF Passed

(* In a settled network, as long as the sequence numbers last, flooding    *)
(* has reached everyone when it has come to an end: every router has had   *)
(* the last LSP of every router it is connected with, whatever was lost or *)
(* on its way when the network changed.                                    *)
THEOREM FloodsAlwaysReachAll ==
  ASSUME NEW D \in Nat, Timely(D), Settles(D)
  PROVE  Spec /\ []NumbersFit => []FloodsReachAll
<1>1. IInv /\ TInv(D) /\ Reached => FloodsReachAll
  <2> SUFFICES ASSUME IInv, TInv(D), Reached, QuietFor(SETTLE), LSPsOnTheWay = {},
                      NEW u \in Router, NEW d \in Router, u # d, NEW path \in Paths(Edges, u, d)
               PROVE  /\ d \in DOMAIN node[u].max_sequence_num
                      /\ node[u].max_sequence_num[d] = (node[d].sequence_num - 1) % SEQ_MOD
    BY DEF FloodsReachAll
  <2> DEFINE T == {i \in Nat : i \in 1 .. Len(path) /\ Has(path[i], d)}
  <2>1. /\ Len(path) \in Nat /\ Len(path) # 0 /\ path[1] = u /\ path[Len(path)] = d
        /\ \A i \in 1 .. Len(path) : path[i] \in Router
        /\ \A i \in 1 .. Len(path) - 1 : path[i + 1] \in DOMAIN Edges[path[i]]
    <3>1. DOMAIN Edges = Router
      BY DEF Edges
    <3>2. path \in SeqOf(Router, Cardinality(Router)) /\ path # <<>>
      BY <3>1 DEF Paths
    <3>3. PICK k \in 0 .. Cardinality(Router) : path \in [1 .. k -> Router]
      BY <3>2 DEF SeqOf
    <3>4. Cardinality(Router) \in Nat
      BY RouterIdAssumption, FS_CardinalityType
    <3>5. path \in Seq(Router) /\ Len(path) = k
      BY <3>3, <3>4
    <3>6. Len(path) # 0
      BY <3>2, <3>5
    <3> QED BY <3>5, <3>6 DEF Paths
  <2>2. Len(path) \in T
    BY <2>1 DEF Has
  <2>3. PICK i \in T : \A j \in T : i <= j
    <3>1. T \in SUBSET Nat /\ T # {}
      BY <2>2
    <3> HIDE DEF T
    <3> QED BY <3>1, LeastNat
  <2>4. i = 1
    <3>1. ASSUME i # 1 PROVE FALSE
      <4> DEFINE j == i - 1
      <4>1. j \in 1 .. Len(path) - 1 /\ j + 1 = i /\ j \in 1 .. Len(path) /\ j \in Nat
        BY <2>1, <3>1
      <4> HIDE DEF j
      <4>2. Has(path[j + 1], d) /\ path[j + 1] \in DOMAIN Edges[path[j]] /\ path[j] \in Router
        BY <2>1, <2>3, <4>1
      <4>3. Has(path[j], d)
        BY <4>2, SettledHas
      <4>4. j \in T
        BY <4>1, <4>3
      <4>5. i <= j /\ i \in Nat
        BY <2>3, <4>4
      <4> QED BY <4>1, <4>5
    <3> QED BY <3>1
  <2>5. Has(u, d)
    BY <2>1, <2>3, <2>4
  <2>6. /\ d \in DOMAIN node[u].max_sequence_num
        /\ node[u].max_sequence_num[d] = node[d].sequence_num - 1
    BY <2>5 DEF Has, LastSeq
  <2>7. node[u].max_sequence_num[d] \in 0 .. SEQ_MOD - 1
    <3>1. node[u] \in Node
      BY DEF IInv
    <3> QED BY <2>6, <3>1, NumberFacts DEF SeqNum
  <2>8. (node[d].sequence_num - 1) % SEQ_MOD = node[d].sequence_num - 1
    <3> DEFINE k == node[d].sequence_num - 1
    <3>1. k \in 0 .. SEQ_MOD - 1
      BY <2>6, <2>7
    <3> HIDE DEF k
    <3>2. k % SEQ_MOD = k
      BY <3>1, SeqModAssumption
    <3> QED BY <3>2 DEF k
  <2> QED BY <2>6, <2>8
<1>2. Init => TInv(D) /\ Numbered /\ Reached
  BY InitTInv, InitNumbered, InitFresh, FreshReached
<1>3. IInv /\ IInv' /\ TInv(D) /\ [Next]_vars => TInv(D)'
  BY NextTInv DEF Timely
<1>4. IInv /\ NumbersFit /\ Numbered /\ [Next]_vars => Numbered'
  BY NextNumbered
<1>5. IInv /\ IInv' /\ TInv(D) /\ TInv(D)' /\ NumbersFit /\ Numbered /\ Numbered' /\ Reached
        /\ [Next]_vars => Reached'
  BY NextReached
<1> QED BY <1>1, <1>2, <1>3, <1>4, <1>5, Invariance, PTL DEF Spec
================================================================================
