---------------------------- MODULE DVNetworkProofs ----------------------------
(***************************************************************************)
(* The safety of a network of distance-vector routers, for every topology, *)
(* every configuration of events, delays, periods and timeouts, and        *)
(* whatever packets lossy links lose.                                      *)
(*                                                                         *)
(* DVRouterProofs shows what one router grants as long as its neighbours   *)
(* send it tables that are well formed.  Here the circle is closed: every  *)
(* packet in flight is what IInv says of it because a router granted it,   *)
(* and every router stays Sound because the packets are.                   *)
(*                                                                         *)
(* The second half, from IsAlarm on, is about time: what is known of every *)
(* PING and PONG by when it arrives, and so of the neighbours.             *)
(***************************************************************************)
EXTENDS DVNetwork, DVTablesProofs, FiniteSetTheorems, WellFoundedInduction

(* What a packet is that router u has sent to router v. *)
PacketOK(m, u, v) ==
  \/ m.type = "DATA"
  \/ m.type \in {"PING", "PONG"} /\ m.src = u /\ m.stamp \in Nat
  \/ /\ m.type = "DV" /\ m.src = u
     /\ m.entries \in PMap(Router, Cost)
     /\ v \in DOMAIN m.entries /\ u \notin DOMAIN m.entries

AlarmOK(e) == /\ e.type = "alarm" /\ e.time \in Nat
              /\ e.router \in Router /\ e.alarm \in DOMAIN Period

RecvOK(e) == /\ e.type = "recv" /\ e.time \in Nat
             /\ e.router \in Router /\ e.port \in DOMAIN Wire[e.router]
             /\ PacketOK(e.pkt, Wire[e.router][e.port], e.router)

EventOK(e) == Listed(e) \/ AlarmOK(e) \/ RecvOK(e)

NodesOK(nodes) == \A u \in Router : Sound(nodes[u], u, Wire[u])

IInv ==
  /\ node \in [Router -> Node] /\ NodesOK(node)
  /\ delay \in [Link -> Nat]
  /\ global_time \in Nat
  /\ IsABag(event_q) /\ \A e \in DOMAIN event_q : EventOK(e)
  /\ QueueSound

(* How router u may end a handler. *)
WayOK(way, u) ==
  /\ Sound(way.node, u, Wire[u])
  /\ \A m \in way.out : m.port \in DOMAIN Wire[u] /\ PacketOK(m.pkt, u, Wire[u][m.port])
--------------------------------------------------------------------------------
(* Every port of a router has its link, and leads to a port that leads     *)
(* back.                                                                   *)
LEMMA WireFacts ==
  ASSUME NEW u \in Router
  PROVE  /\ Wired(u, Wire[u])
         /\ \A p \in DOMAIN Wire[u] :
               /\ LinkAt(u, p) \in Link
               /\ Wire[u][p] \in Router
               /\ get_link_port(Wire[u][p], u) \in DOMAIN Wire[Wire[u][p]]
               /\ Wire[Wire[u][p]][get_link_port(Wire[u][p], u)] = u
<1>1. /\ \A p, q \in DOMAIN Wire[u] : /\ {u, Wire[u][p]} \in Link /\ Wire[u][p] # u
                                      /\ Wire[u][p] = Wire[u][q] => p = q
      /\ \A l \in Link : /\ l \subseteq Router
                         /\ \A x \in l : \E p \in DOMAIN Wire[x] : l = {x, Wire[x][p]}
  BY NetworkAssumption DEF WellWired
<1>2. ASSUME NEW p \in DOMAIN Wire[u]
      PROVE  /\ LinkAt(u, p) \in Link
             /\ Wire[u][p] \in Router \ {u}
             /\ get_link_port(Wire[u][p], u) \in DOMAIN Wire[Wire[u][p]]
             /\ Wire[Wire[u][p]][get_link_port(Wire[u][p], u)] = u
  <2> DEFINE v == Wire[u][p]
  <2>1. {u, v} \in Link /\ v # u /\ v \in Router
    BY <1>1
  <2>2. PICK q \in DOMAIN Wire[v] : {u, v} = {v, Wire[v][q]}
    BY <1>1, <2>1
  <2>3. \E r : r \in DOMAIN Wire[v] /\ Wire[v][r] = u
    BY <2>1, <2>2
  <2>4. get_link_port(v, u) \in DOMAIN Wire[v] /\ Wire[v][get_link_port(v, u)] = u
    BY <2>3 DEF get_link_port
  <2> QED BY <2>1, <2>4 DEF LinkAt
<1> QED BY <1>1, <1>2, WireAssumption DEF Wired

LEMMA PeriodFacts == \A a \in DOMAIN Period : Period[a] \in Nat \ {0}
BY NetworkAssumption DEF WellWired
--------------------------------------------------------------------------------
(* Every packet a handler sends is one that its receiver may get. *)
LEMMA PingsOK ==
  ASSUME NEW u \in Router, NEW t \in Nat, NEW m \in send_ping(u, DOMAIN Wire[u], t)
  PROVE  m.port \in DOMAIN Wire[u] /\ PacketOK(m.pkt, u, Wire[u][m.port])
BY DEF send_ping, PacketOK

LEMMA EndedOK ==
  ASSUME NEW u \in Router, NEW n, NEW r, Handled(n, r, u, Wire[u]),
         NEW way \in Ended(r, u)
  PROVE  WayOK(way, u)
<1>1. /\ way.node = r.node
      /\ \A x \in way.out : \E m \in send(r.node) :
            x = [port |-> m.port, pkt |-> [type |-> "DV", src |-> u, entries |-> m.entries]]
  BY DEF Ended
<1>2. Sound(r.node, u, Wire[u])
  BY DEF Handled
<1>3. ASSUME NEW x \in way.out
      PROVE  x.port \in DOMAIN Wire[u] /\ PacketOK(x.pkt, u, Wire[u][x.port])
  <2>1. PICK m \in send(r.node) :
           x = [port |-> m.port, pkt |-> [type |-> "DV", src |-> u, entries |-> m.entries]]
    BY <1>1
  <2>2. /\ m.port \in DOMAIN Wire[u] /\ Wire[u][m.port] = m.dest
        /\ m.entries \in PMap(Router, Cost)
        /\ m.dest \in DOMAIN m.entries /\ u \notin DOMAIN m.entries
    BY <1>2, SendWellFormed
  <2> QED BY <2>1, <2>2 DEF PacketOK
<1> QED BY <1>1, <1>2, <1>3 DEF WayOK

(* A DATA packet is forwarded as it is, wherever it comes from. *)
LEMMA DataHandled ==
  ASSUME NEW u \in Router, NEW n, Sound(n, u, Wire[u]), NEW port, NEW t,
         NEW msg, msg.type = "DATA", NEW way \in recv(n, u, port, msg, t)
  PROVE  WayOK(way, u)
<1>1. way = [node |-> n, out |-> forward(n, u, msg)]
  BY DEF recv
<1>2. recv_data(n, u, msg.dst) \subseteq DOMAIN Wire[u]
  BY RecvDataForwards
<1>3. \A m \in forward(n, u, msg) : m.port \in recv_data(n, u, msg.dst) /\ m.pkt = msg
  BY DEF forward
<1> QED BY <1>1, <1>2, <1>3 DEF WayOK, PacketOK

LEMMA RecvHandled ==
  ASSUME NEW u \in Router, NEW n, Sound(n, u, Wire[u]), NEW port \in DOMAIN Wire[u],
         NEW t \in Nat, NEW msg, PacketOK(msg, Wire[u][port], u),
         NEW way \in recv(n, u, port, msg, t)
  PROVE  WayOK(way, u)
<1> DEFINE peer == Wire[u]
<1>1. Wired(u, peer)
  BY WireFacts
<1>2. CASE msg.type = "DATA"
  BY <1>2, DataHandled
<1>3. CASE msg.type = "PING" /\ msg.stamp \in Nat
  <2>1. way = [node |-> n, out |-> recv_ping_send_pong(u, port, msg)]
    BY <1>3 DEF recv
  <2> QED BY <1>3, <2>1 DEF recv_ping_send_pong, PacketOK, WayOK
<1>4. CASE msg.type = "PONG" /\ msg.src = peer[port] /\ msg.stamp \in Nat
  <2>1. CASE msg.dst # u
    <3>1. way = [node |-> n, out |-> {}]
      BY <1>4, <2>1 DEF recv
    <3> QED BY <3>1 DEF WayOK
  <2>2. CASE msg.dst = u
    <3> DEFINE cost == RTT(msg, t)
               r == recv_pong_DV(n, port, peer[port], cost)
    <3>1. way \in Ended(r, u)
      BY <1>4, <2>2 DEF recv
    <3>2. cost \in Cost
      BY <1>4, CostModAssumption DEF RTT, Cost
    <3> HIDE DEF cost, peer
    <3>3. Handled(n, r, u, peer)
      BY <1>1, <3>2, RecvPongHandled DEF peer
    <3> HIDE DEF r
    <3> QED BY <3>1, <3>3, EndedOK DEF peer
  <2> QED BY <2>1, <2>2
<1>5. CASE msg.type = "DV" /\ msg.src = peer[port] /\ msg.entries \in PMap(Router, Cost)
  <2> DEFINE e == msg.entries
             r == recv_DV(n, u, port, peer[port], e)
  <2>1. way \in Ended(r, u)
    BY <1>5 DEF recv
  <2>2. e \in PMap(Router, Cost)
    BY <1>5
  <2> HIDE DEF e, peer
  <2>3. Handled(n, r, u, peer)
    BY <1>1, <2>2, RecvDVHandled DEF peer
  <2> HIDE DEF r
  <2> QED BY <2>1, <2>3, EndedOK DEF peer
<1> QED BY <1>2, <1>3, <1>4, <1>5 DEF PacketOK

LEMMA AlarmHandled ==
  ASSUME NEW u \in Router, NEW n, Sound(n, u, Wire[u]), NEW t \in Nat,
         NEW a \in DOMAIN Period, NEW way \in handle_alarm(n, u, a, t)
  PROVE  WayOK(way, u)
<1> DEFINE peer == Wire[u]
<1>1. a \in {"Ping", "Port", "DV"}
  BY DEF Period
<1>2. CASE a = "Ping"
  <2>1. way = [node |-> n, out |-> send_ping(u, DOMAIN Wire[u], t)]
    BY <1>2 DEF handle_alarm
  <2> QED BY <2>1, PingsOK DEF WayOK
<1>3. CASE a = "DV"
  <2> DEFINE r == [node |-> n, send |-> TRUE]
  <2>1. way \in Ended(r, u)
    BY <1>3 DEF handle_alarm
  <2>2. Handled(n, r, u, peer)
    BY DEF Handled
  <2> HIDE DEF r
  <2> QED BY <2>1, <2>2, EndedOK
<1>4. CASE a = "Port"
  <2> DEFINE r == update_timeout_DV(n)
  <2>1. way \in Ended(r, u)
    BY <1>4 DEF handle_alarm
  <2>2. Handled(n, r, u, peer)
    <3> HIDE DEF peer
    <3> QED BY WireFacts, UpdateTimeoutHandled DEF peer
  <2> HIDE DEF r
  <2> QED BY <2>1, <2>2, EndedOK
<1> QED BY <1>1, <1>2, <1>3, <1>4
--------------------------------------------------------------------------------
LEMMA TakeEvent ==
  ASSUME NEW q, IsABag(q), NEW e \in DOMAIN q
  PROVE  Taken(q, e, q (-) SetToBag({e}))
<1> DEFINE B == [f \in DOMAIN q |-> IF f \in {e} THEN q[f] - 1 ELSE q[f]]
           D == {f \in DOMAIN B : B[f] > 0}
           r == q (-) SetToBag({e})
<1>1. r = [f \in D |-> B[f]]
  BY DEF SetToBag, (-)
<1>2. q \in [DOMAIN q -> {n \in Nat : n > 0}]
  BY DEF IsABag
<1>3. \A f \in DOMAIN q : B[f] \in Nat /\ (f # e => B[f] = q[f] /\ B[f] > 0)
  BY <1>2
<1>4. q[e] = 1 => B[e] = 0
  OBVIOUS
<1>5. DOMAIN B = DOMAIN q
  OBVIOUS
<1> HIDE DEF B, r
<1>6. Taken(q, e, r)
  BY <1>1, <1>3, <1>4, <1>5 DEF IsABag, Taken
<1> QED BY <1>6 DEF r

LEMMA PutEvents ==
  ASSUME NEW q, IsABag(q), NEW S
  PROVE  Joined(q, S, q (+) SetToBag(S))
<1> DEFINE r == q (+) SetToBag(S)
<1>1. r = [f \in DOMAIN q \cup S |-> (IF f \in DOMAIN q THEN q[f] ELSE 0)
                                     + (IF f \in S THEN 1 ELSE 0)]
  BY DEF SetToBag, (+)
<1>2. \A f \in DOMAIN q : q[f] \in Nat /\ q[f] > 0
  BY DEF IsABag
<1> HIDE DEF r
<1>3. Joined(q, S, r)
  BY <1>1, <1>2 DEF IsABag, Joined
<1> QED BY <1>3 DEF r

LEMMA Requeue ==
  ASSUME NEW q, IsABag(q), NEW e \in DOMAIN q, NEW S, NEW T, S \cap T = {}
  PROVE  Requeued(q, e, S \cup T, (q (-) SetToBag({e})) (+) SetToBag(S) (+) SetToBag(T))
<1> DEFINE q1 == q (-) SetToBag({e})
           q2 == q1 (+) SetToBag(S)
           q3 == q2 (+) SetToBag(T)
<1>1. Taken(q, e, q1)
  BY TakeEvent
<1> HIDE DEF q1
<1>2. Joined(q1, S, q2)
  BY <1>1, PutEvents DEF Taken
<1> HIDE DEF q2
<1>3. Joined(q2, T, q3)
  BY <1>2, PutEvents DEF Joined
<1> HIDE DEF q3
<1>4. Requeued(q, e, S \cup T, q3)
  BY <1>1, <1>2, <1>3 DEF Requeued, Taken, Joined
<1> QED BY <1>4 DEF q1, q2, q3

(* Events that arrive later than e leave the queue sound once e is taken. *)
LEMMA QueueStep ==
  ASSUME IInv, NEW e \in DOMAIN event_q, \A f \in DOMAIN event_q : e.time <= f.time,
         NEW S, \A f \in S : RecvOK(f) /\ f.time >= e.time,
         Requeued(event_q, e, S \cup Rearmed(e), event_q'),
         global_time' = e.time
  PROVE  /\ IsABag(event_q') /\ \A f \in DOMAIN event_q' : EventOK(f)
         /\ QueueSound'
         /\ global_time' \in Nat
<1>1. EventOK(e) /\ e.time \in Nat
  BY DEF IInv, EventOK, AlarmOK, RecvOK, Listed
<1> DEFINE A == AlarmEvent(e.router, e.alarm, e.time)
<1>2. ASSUME e.type = "alarm"
      PROVE  /\ AlarmOK(A) /\ A.router = e.router /\ A.alarm = e.alarm
             /\ A.time = e.time + Period[e.alarm] /\ A.time > e.time
             /\ e.alarm \in DOMAIN Period /\ e.router \in Router
  <2>1. e.router \in Router /\ e.alarm \in DOMAIN Period
    BY <1>1, <1>2 DEF EventOK, AlarmOK, RecvOK, Listed
  <2>2. Period[e.alarm] \in Nat \ {0}
    BY <2>1, PeriodFacts
  <2> QED BY <1>1, <2>1, <2>2 DEF AlarmEvent, AlarmOK
<1>3. ASSUME NEW f \in S \cup Rearmed(e)
      PROVE  EventOK(f) /\ f.time >= e.time
  <2>1. CASE f \in S
    BY <2>1 DEF EventOK
  <2>2. CASE f \in Rearmed(e)
    <3>1. e.type = "alarm" /\ f = A
      BY <2>2 DEF Rearmed
    <3> HIDE DEF A
    <3> QED BY <1>1, <1>2, <3>1 DEF EventOK, AlarmOK
  <2> QED BY <2>1, <2>2
<1>4. /\ IsABag(event_q')
      /\ DOMAIN event_q' \subseteq DOMAIN event_q \cup (S \cup Rearmed(e))
  BY DEF Requeued
<1>5. \A f \in DOMAIN event_q' : EventOK(f) /\ f.time >= e.time
  BY <1>3, <1>4 DEF IInv
<1>6. ASSUME NEW u \in Router, NEW a \in DOMAIN Period
      PROVE  \E E \in DOMAIN event_q' :
                /\ E.type = "alarm" /\ E.router = u /\ E.alarm = a
                /\ \A f \in DOMAIN event_q' :
                      f.type = "alarm" /\ f.router = u /\ f.alarm = a => f = E
                /\ event_q'[E] = 1
                /\ E.time <= e.time + Period[a]
  <2>1. PICK E \in DOMAIN event_q :
           /\ E.type = "alarm" /\ E.router = u /\ E.alarm = a
           /\ \A f \in DOMAIN event_q :
                 f.type = "alarm" /\ f.router = u /\ f.alarm = a => f = E
           /\ event_q[E] = 1
           /\ E.time <= global_time + Period[a]
    <3> DEFINE set == {f \in DOMAIN event_q : f.type = "alarm" /\ f.router = u /\ f.alarm = a}
    <3>1. \E E \in set : /\ set = {E} /\ event_q[E] = 1
                         /\ E.time <= global_time + Period[a]
      BY DEF IInv, QueueSound, BagToSet
    <3> QED BY <3>1
  <2>2. \A f \in S : f.type # "alarm"
    BY DEF RecvOK
  <2>3. Period[a] \in Nat /\ global_time <= e.time /\ global_time \in Nat
    BY PeriodFacts DEF IInv, QueueSound, BagToSet
  <2>4. CASE E = e
    <3>1. Rearmed(e) = {A}
      BY <2>1, <2>4 DEF Rearmed
    <3>2. A # e /\ A.type = "alarm" /\ A.router = u /\ A.alarm = a /\ A.time = e.time + Period[a]
      BY <1>1, <1>2, <2>1, <2>4 DEF AlarmOK
    <3> HIDE DEF A
    <3>3. A \notin DOMAIN event_q
      BY <2>1, <2>4, <3>2
    <3>4. A \in DOMAIN event_q' /\ event_q'[A] = 1
      BY <3>1, <3>3 DEF Requeued
    <3>5. e \notin S \cup Rearmed(e)
      BY <2>1, <2>2, <2>4, <3>1, <3>2
    <3>6. e \notin DOMAIN event_q'
      BY <2>1, <2>4, <3>5 DEF Requeued
    <3>7. \A f \in DOMAIN event_q' :
             f.type = "alarm" /\ f.router = u /\ f.alarm = a => f = A
      BY <1>4, <2>1, <2>2, <2>4, <3>1, <3>6
    <3>8. A.time <= e.time + Period[a]
      BY <1>1, <2>3, <3>2
    <3> QED BY <3>2, <3>4, <3>7, <3>8
  <2>5. CASE E # e
    <3>1. ~(e.type = "alarm" /\ e.router = u /\ e.alarm = a)
      BY <2>1, <2>5
    <3>2. \A f \in Rearmed(e) : ~(f.type = "alarm" /\ f.router = u /\ f.alarm = a)
      BY <1>2, <3>1 DEF Rearmed
    <3>3. E \notin S \cup Rearmed(e)
      BY <2>1, <2>2, <3>2
    <3>4. E \in DOMAIN event_q' /\ event_q'[E] = 1
      BY <2>1, <2>5, <3>3 DEF Requeued
    <3>5. \A f \in DOMAIN event_q' :
             f.type = "alarm" /\ f.router = u /\ f.alarm = a => f = E
      BY <1>4, <2>1, <2>2, <3>2
    <3>6. E.time \in Nat /\ E.time <= e.time + Period[a]
      BY <1>1, <2>1, <2>3 DEF IInv, EventOK, AlarmOK, RecvOK, Listed
    <3> QED BY <2>1, <3>4, <3>5, <3>6
  <2> QED BY <2>4, <2>5
<1>7. QueueSound'
  <2>1. ASSUME NEW u \in Router, NEW a \in DOMAIN Period
        PROVE  \E E \in {f \in DOMAIN event_q' :
                           f.type = "alarm" /\ f.router = u /\ f.alarm = a} :
                  /\ {f \in DOMAIN event_q' :
                        f.type = "alarm" /\ f.router = u /\ f.alarm = a} = {E}
                  /\ event_q'[E] = 1
                  /\ E.time <= global_time' + Period[a]
    BY <1>6
  <2> QED BY <1>5, <2>1 DEF QueueSound, BagToSet
<1> QED BY <1>1, <1>4, <1>5, <1>7
--------------------------------------------------------------------------------
(* A packet arrives at the port of the receiver that leads to the sender.  *)
LEMMA DeliveryOK ==
  ASSUME NEW u \in Router, NEW m, m.port \in DOMAIN Wire[u],
         PacketOK(m.pkt, u, Wire[u][m.port]), NEW t \in Nat, NEW delays \in [Link -> Nat]
  PROVE  RecvOK(Delivery(u, m, t, delays)) /\ Delivery(u, m, t, delays).time >= t
<1> DEFINE v == Wire[u][m.port]
           p == get_link_port(v, u)
<1>1. LinkAt(u, m.port) \in Link /\ v \in Router /\ p \in DOMAIN Wire[v] /\ Wire[v][p] = u
  BY WireFacts
<1>2. delays[LinkAt(u, m.port)] \in Nat
  BY <1>1
<1>3. Delivery(u, m, t, delays) =
         [type |-> "recv", time |-> t + delays[LinkAt(u, m.port)], router |-> v,
          port |-> p, pkt |-> m.pkt]
  BY DEF Delivery
<1> DEFINE w == delays[LinkAt(u, m.port)]
<1>4. PacketOK(m.pkt, u, v)
  OBVIOUS
<1> HIDE DEF v, p, w
<1>5. w \in Nat /\ t + w \in Nat /\ t + w >= t
  BY <1>2 DEF w
<1> QED BY <1>1, <1>3, <1>4, <1>5 DEF RecvOK, w

LEMMA XmitSends ==
  ASSUME IInv, NEW u \in Router, NEW t \in Nat, NEW out,
         \A m \in out : m.port \in DOMAIN Wire[u] /\ PacketOK(m.pkt, u, Wire[u][m.port]),
         NEW sent \in xmit(u, out, t)
  PROVE  \E S : /\ sent.events = SetToBag(S)
                /\ \A f \in S : RecvOK(f) /\ f.time >= t
<1> DEFINE carried == {m \in out : LinkAt(u, m.port) \in is_alive}
<1>1. PICK gone : sent = [events |-> SetToBag({Delivery(u, m, t, delay) : m \in carried \ gone}),
                          gone   |-> Cardinality(gone)]
  BY DEF xmit
<1> DEFINE S == carried \ gone
<1>2. S \subseteq out /\ sent.events = SetToBag({Delivery(u, m, t, delay) : m \in S})
  BY <1>1
<1> HIDE DEF S
<1> DEFINE D == {Delivery(u, m, t, delay) : m \in S}
<1>3. \A f \in D : RecvOK(f) /\ f.time >= t
  BY <1>2, DeliveryOK DEF IInv
<1> QED BY <1>2, <1>3

(* Until e is dispatched time has passed for every router.                 *)
LEMMA ElapsedOK ==
  ASSUME IInv, NEW e \in DOMAIN event_q
  PROVE  /\ e.time \in Nat
         /\ Elapsed(e) \in [Router -> Node] /\ NodesOK(Elapsed(e))
<1>1. e.time \in Nat
  BY DEF IInv, EventOK, AlarmOK, RecvOK, Listed
<1> DEFINE d == e.time - global_time
<1>2. d \in Nat
  BY <1>1 DEF IInv, QueueSound, BagToSet
<1>3. Elapsed(e) = [u \in Router |-> Age(node[u], d)]
  BY DEF Elapsed
<1> HIDE DEF d
<1>4. \A u \in Router : Sound(Age(node[u], d), u, Wire[u])
  BY <1>2, AgeSound DEF IInv, NodesOK
<1>5. NodesOK(Elapsed(e))
  BY <1>3, <1>4 DEF NodesOK
<1>6. \A u \in Router : Age(node[u], d) \in Node
  BY <1>4 DEF Sound, Routed, Settled
<1> QED BY <1>1, <1>3, <1>5, <1>6

LEMMA DispatchIInv ==
  ASSUME IInv, NEW e \in DOMAIN event_q, \A f \in DOMAIN event_q : e.time <= f.time,
         e.router \in Router, NEW ways, \A way \in ways : WayOK(way, e.router),
         Dispatch(e, ways, Rearmed(e))
  PROVE  IInv'
<1>1. PICK way \in ways : \E sent \in xmit(e.router, way.out, e.time) :
         /\ node' = [Elapsed(e) EXCEPT ![e.router] = way.node]
         /\ event_q' = (event_q (-) SetToBag({e})) (+) sent.events (+) SetToBag(Rearmed(e))
         /\ global_time' = e.time
         /\ delay' = delay
  BY DEF Dispatch
<1>2. PICK sent \in xmit(e.router, way.out, e.time) :
         event_q' = (event_q (-) SetToBag({e})) (+) sent.events (+) SetToBag(Rearmed(e))
  BY <1>1
<1>3. /\ e.time \in Nat
      /\ Elapsed(e) \in [Router -> Node] /\ NodesOK(Elapsed(e))
  BY ElapsedOK
<1>4. WayOK(way, e.router)
  OBVIOUS
<1>5. PICK S : /\ sent.events = SetToBag(S)
               /\ \A f \in S : RecvOK(f) /\ f.time >= e.time
  BY <1>3, <1>4, XmitSends DEF WayOK
<1>6. S \cap Rearmed(e) = {}
  BY <1>5 DEF RecvOK, Rearmed, AlarmEvent
<1>7. Requeued(event_q, e, S \cup Rearmed(e), event_q')
  BY <1>2, <1>5, <1>6, Requeue DEF IInv
<1>8. /\ IsABag(event_q') /\ \A f \in DOMAIN event_q' : EventOK(f)
      /\ QueueSound'
      /\ global_time' \in Nat
  BY <1>1, <1>5, <1>7, QueueStep
<1>9. way.node \in Node /\ Sound(way.node, e.router, Wire[e.router])
  BY <1>4 DEF WayOK, Sound, Routed, Settled
<1>10. node' \in [Router -> Node] /\ NodesOK(node')
  BY <1>1, <1>3, <1>9 DEF NodesOK
<1> QED BY <1>1, <1>8, <1>10 DEF IInv, NodesOK

LEMMA ChangeIInv ==
  ASSUME IInv, NEW e \in DOMAIN event_q, \A f \in DOMAIN event_q : e.time <= f.time,
         e.type # "alarm", ChangeLink(e), delay' \in [Link -> Nat]
  PROVE  IInv'
<1>1. /\ node' = Elapsed(e)
      /\ event_q' = event_q (-) SetToBag({e})
      /\ global_time' = e.time
  BY DEF ChangeLink
<1>2. Taken(event_q, e, event_q')
  BY <1>1, TakeEvent DEF IInv
<1> DEFINE S == {}
<1>3. Requeued(event_q, e, S \cup Rearmed(e), event_q')
  BY <1>2 DEF Requeued, Taken, Rearmed
<1>4. \A f \in S : RecvOK(f) /\ f.time >= e.time
  OBVIOUS
<1> HIDE DEF S
<1>5. /\ IsABag(event_q') /\ \A f \in DOMAIN event_q' : EventOK(f)
      /\ QueueSound'
      /\ global_time' \in Nat
  BY <1>1, <1>3, <1>4, QueueStep
<1>6. node' \in [Router -> Node] /\ NodesOK(node')
  BY <1>1, ElapsedOK
<1> QED BY <1>5, <1>6 DEF IInv, NodesOK
--------------------------------------------------------------------------------
LEMMA InitIInv == Init => IInv
<1> SUFFICES ASSUME Init PROVE IInv
  OBVIOUS
<1> DEFINE As == {AlarmEvent(u, a, 0) : u \in Router, a \in DOMAIN Period}
           Ds == UNION {{Delivery(u, m, 0, InitialDelay) : m \in Hello(u)} : u \in Router}
           Q == scenario.events \cup As \cup Ds
<1>1. /\ node = [u \in Router |-> NewNode]
      /\ scenario \in Scenarios
      /\ event_q = SetToBag(Q)
      /\ global_time = 0 /\ delay = InitialDelay
  BY DEF Init
<1>2. \A e \in scenario.events : Listed(e)
  BY <1>1, NetworkAssumption DEF WellWired
<1>3. InitialDelay \in [Link -> Nat]
  BY NetworkAssumption DEF WellWired
<1>4. ASSUME NEW u \in Router, NEW a \in DOMAIN Period
      PROVE  /\ AlarmOK(AlarmEvent(u, a, 0))
             /\ AlarmEvent(u, a, 0).router = u /\ AlarmEvent(u, a, 0).alarm = a
             /\ AlarmEvent(u, a, 0).time = Period[a]
  <2>1. Period[a] \in Nat /\ 0 + Period[a] = Period[a]
    BY PeriodFacts
  <2> QED BY <2>1 DEF AlarmEvent, AlarmOK
<1>5. \A e \in Ds : RecvOK(e)
  <2> SUFFICES ASSUME NEW u \in Router, NEW m \in Hello(u)
               PROVE  RecvOK(Delivery(u, m, 0, InitialDelay))
    OBVIOUS
  <2>1. m.port \in DOMAIN Wire[u] /\ PacketOK(m.pkt, u, Wire[u][m.port])
    BY PingsOK DEF Hello
  <2> QED BY <1>3, <2>1, DeliveryOK
<1>6. \A e \in As : \E u \in Router, a \in DOMAIN Period : e = AlarmEvent(u, a, 0)
  OBVIOUS
<1>7. \A u \in Router, a \in DOMAIN Period : AlarmEvent(u, a, 0) \in As
  OBVIOUS
<1>8. /\ DOMAIN event_q = Q /\ IsABag(event_q)
      /\ \A e \in Q : event_q[e] = 1
  BY <1>1 DEF SetToBag, IsABag
<1>9. Q = scenario.events \cup As \cup Ds
  OBVIOUS
<1> HIDE DEF As, Ds, Q
<1>10. \A e \in DOMAIN event_q : EventOK(e)
  BY <1>2, <1>4, <1>5, <1>6, <1>8, <1>9 DEF EventOK
<1>11. QueueSound
  <2>1. \A e \in DOMAIN event_q : e.time >= global_time
    BY <1>1, <1>10 DEF EventOK, Listed, AlarmOK, RecvOK
  <2>2. ASSUME NEW u \in Router, NEW a \in DOMAIN Period
        PROVE  \E E \in {f \in DOMAIN event_q :
                           f.type = "alarm" /\ f.router = u /\ f.alarm = a} :
                  /\ {f \in DOMAIN event_q :
                        f.type = "alarm" /\ f.router = u /\ f.alarm = a} = {E}
                  /\ event_q[E] = 1
                  /\ E.time <= global_time + Period[a]
    <3> DEFINE E == AlarmEvent(u, a, 0)
    <3>1. /\ E \in DOMAIN event_q /\ event_q[E] = 1
          /\ E.type = "alarm" /\ E.router = u /\ E.alarm = a /\ E.time = Period[a]
      BY <1>4, <1>7, <1>8, <1>9 DEF AlarmOK
    <3>2. ASSUME NEW f \in DOMAIN event_q, f.type = "alarm", f.router = u, f.alarm = a
          PROVE  f = E
      <4>1. f \in As
        BY <1>2, <1>5, <1>8, <1>9, <3>2 DEF Listed, RecvOK
      <4>2. PICK v \in Router, b \in DOMAIN Period : f = AlarmEvent(v, b, 0)
        BY <1>6, <4>1
      <4> QED BY <1>4, <3>2, <4>2
    <3>3. Period[a] \in Nat
      BY PeriodFacts
    <3> HIDE DEF E
    <3> QED BY <1>1, <3>1, <3>2, <3>3
  <2> QED BY <2>1, <2>2 DEF QueueSound, BagToSet
<1>12. node \in [Router -> Node] /\ NodesOK(node)
  <2>1. \A u \in Router : Sound(NewNode, u, Wire[u])
    BY EmptySound
  <2>2. \A u \in Router : NewNode \in Node
    BY <2>1 DEF Sound, Routed, Settled
  <2> QED BY <1>1, <2>1, <2>2 DEF NodesOK
<1> QED BY <1>1, <1>3, <1>8, <1>10, <1>11, <1>12 DEF IInv

(* One step: whatever is dispatched, the invariant holds again. *)
LEMMA NextIInv == IInv /\ [Next]_vars => IInv'
<1> SUFFICES ASSUME IInv, [Next]_vars PROVE IInv'
  OBVIOUS
<1>1. ASSUME NEW type, NEW e \in Due(type)
      PROVE  /\ e \in DOMAIN event_q /\ e.type = type /\ EventOK(e)
             /\ \A f \in DOMAIN event_q : e.time <= f.time
             /\ e.time \in Nat
             /\ e.router \in Router => Sound(Elapsed(e)[e.router], e.router, Wire[e.router])
  <2>1. /\ e \in DOMAIN event_q /\ e.type = type
        /\ \A f \in DOMAIN event_q : e.time <= f.time
    BY DEF Due, BagToSet
  <2>2. e.time \in Nat /\ NodesOK(Elapsed(e))
    BY <2>1, ElapsedOK
  <2> QED BY <2>1, <2>2 DEF IInv, NodesOK
<1>2. CASE HandleAlarm
  <2>1. PICK e \in Due("alarm") :
           Dispatch(e, handle_alarm(Elapsed(e)[e.router], e.router, e.alarm, e.time),
                    {AlarmEvent(e.router, e.alarm, e.time)})
    BY <1>2 DEF HandleAlarm
  <2> DEFINE ways == handle_alarm(Elapsed(e)[e.router], e.router, e.alarm, e.time)
  <2>2. e.router \in Router /\ e.alarm \in DOMAIN Period
    BY <1>1 DEF EventOK, Listed, AlarmOK, RecvOK
  <2>3. \A way \in ways : WayOK(way, e.router)
    BY <1>1, <2>2, AlarmHandled
  <2>4. Rearmed(e) = {AlarmEvent(e.router, e.alarm, e.time)}
    BY <1>1 DEF Rearmed
  <2> HIDE DEF ways
  <2>5. Dispatch(e, ways, Rearmed(e))
    BY <2>1, <2>4 DEF ways
  <2> QED BY <1>1, <2>2, <2>3, <2>5, DispatchIInv
<1>3. CASE RecvPacket
  <2>1. PICK e \in Due("recv") :
           Dispatch(e, recv(Elapsed(e)[e.router], e.router, e.port, e.pkt, e.time), {})
    BY <1>3 DEF RecvPacket
  <2> DEFINE ways == recv(Elapsed(e)[e.router], e.router, e.port, e.pkt, e.time)
  <2>2. RecvOK(e)
    BY <1>1 DEF EventOK, Listed, AlarmOK
  <2>3. \A way \in ways : WayOK(way, e.router)
    BY <1>1, <2>2, RecvHandled DEF RecvOK
  <2>4. Rearmed(e) = {}
    BY <1>1 DEF Rearmed
  <2> HIDE DEF ways
  <2>5. Dispatch(e, ways, Rearmed(e))
    BY <2>1, <2>4 DEF ways
  <2> QED BY <1>1, <2>2, <2>3, <2>5, DispatchIInv DEF RecvOK
<1>4. CASE XmitEndToEnd
  <2>1. PICK e \in Due("xmit") :
           Dispatch(e, recv(Elapsed(e)[e.router], e.router, SPECIAL_PORT, e.pkt, e.time), {})
    BY <1>4 DEF XmitEndToEnd
  <2> DEFINE ways == recv(Elapsed(e)[e.router], e.router, SPECIAL_PORT, e.pkt, e.time)
  <2>2. e.router \in Router /\ e.pkt.type = "DATA"
    BY <1>1 DEF EventOK, Listed, AlarmOK, RecvOK
  <2>3. \A way \in ways : WayOK(way, e.router)
    BY <1>1, <2>2, DataHandled
  <2>4. Rearmed(e) = {}
    BY <1>1 DEF Rearmed
  <2> HIDE DEF ways
  <2>5. Dispatch(e, ways, Rearmed(e))
    BY <2>1, <2>4 DEF ways
  <2> QED BY <1>1, <2>2, <2>3, <2>5, DispatchIInv
<1>5. CASE LinkDies
  <2>1. PICK e \in Due("linkdying") : ChangeLink(e) /\ delay' = delay
    BY <1>5 DEF LinkDies
  <2> QED BY <1>1, <2>1, ChangeIInv DEF IInv
<1>6. CASE LinkComesUp
  <2>1. PICK e \in Due("linkcomingup") : ChangeLink(e) /\ delay' = delay
    BY <1>6 DEF LinkComesUp
  <2> QED BY <1>1, <2>1, ChangeIInv DEF IInv
<1>7. CASE ChangeDelay
  <2>1. PICK e \in Due("changedelay") :
           ChangeLink(e) /\ delay' = [delay EXCEPT ![e.link] = e.delay]
    BY <1>7 DEF ChangeDelay
  <2>2. e.link \in Link /\ e.delay \in Nat
    BY <1>1 DEF EventOK, Listed, AlarmOK, RecvOK
  <2>3. delay' \in [Link -> Nat]
    BY <2>1, <2>2 DEF IInv
  <2> QED BY <1>1, <2>1, <2>3, ChangeIInv
<1>8. CASE UNCHANGED vars
  BY <1>8 DEF vars, IInv, NodesOK, QueueSound, BagToSet
<1> QED BY <1>2, <1>3, <1>4, <1>5, <1>6, <1>7, <1>8 DEF Next

(* Every reachable state satisfies the inductive invariant. *)
LEMMA Invariance == Spec => []IInv
<1> QED BY InitIInv, NextIInv, PTL DEF Spec
--------------------------------------------------------------------------------
(* No event ever lies in the past, and no router loses one of its alarms   *)
(* or has one set twice, whatever else is in the queue.                    *)
THEOREM QueueAlwaysSound == Spec => []QueueSound
<1>1. IInv => QueueSound
  BY DEF IInv
<1> QED BY <1>1, Invariance, PTL

(* Every router of the network always knows the port of every route's next *)
(* hop, in every topology and in the midst of any change.                  *)
THEOREM RoutesAlwaysForward == Spec => []RoutesForward
<1>1. IInv => RoutesForward
  BY RecvDataForwards DEF IInv, NodesOK, RoutesForward
<1> QED BY <1>1, Invariance, PTL

(* Every DV packet in flight lists its receiver and not its sender, and    *)
(* comes in where its sender is: the routers together grant what each of   *)
(* them takes for granted.                                                 *)
THEOREM AdvertsAlwaysWellFormed == Spec => []AdvertsWellFormed
<1>1. IInv => AdvertsWellFormed
  BY DEF IInv, EventOK, Listed, AlarmOK, RecvOK, PacketOK, AdvertsWellFormed, BagToSet
<1> QED BY <1>1, Invariance, PTL
--------------------------------------------------------------------------------
(* Every set of numbers that is not empty has a least one. *)
LEMMA LeastNat ==
  ASSUME NEW T \in SUBSET Nat, T # {}
  PROVE  \E x \in T : \A y \in T : x <= y
<1> DEFINE R == OpToRel(<, Nat)
<1>1. IsWellFoundedOn(R, Nat)
  BY NatLessThanWellFounded
<1>2. \A x, y \in Nat : x < y => <<x, y>> \in R
  BY DEF OpToRel
<1> HIDE DEF R
<1>3. PICK x \in T : \A y \in T : ~(<<y, x>> \in R)
  BY <1>1, WFMin
<1>4. \A y \in T : ~(y < x)
  BY <1>2, <1>3
<1> QED BY <1>3, <1>4

(* Alarms ring a period apart, back to the first ones. *)
LEMMA BeforeNext ==
  ASSUME NEW P \in Nat \ {0}, NEW t \in Nat, NEW s \in Before(t, P)
  PROVE  s \in Nat /\ s + P <= t
<1>1. PICK k \in Nat : t = s + (k + 1) * P
  BY DEF Before
<1>2. k * P \in Nat /\ (k + 1) * P = k * P + P
  BY <1>1
<1> QED BY <1>1, <1>2 DEF Before

LEMMA BeforeLast ==
  ASSUME NEW P \in Nat \ {0}, NEW t \in Nat, NEW s \in Before(t + P, P), s # t
  PROVE  s \in Before(t, P)
<1>1. PICK k \in Nat : t + P = s + (k + 1) * P
  BY DEF Before
<1>2. s \in Nat
  BY DEF Before
<1>3. (k + 1) * P = k * P + P /\ k * P \in Nat
  OBVIOUS
<1>4. t = s + k * P
  BY <1>1, <1>2, <1>3
<1>5. k # 0
  BY <1>2, <1>4
<1>6. k - 1 \in Nat /\ k = (k - 1) + 1
  BY <1>5
<1>7. t = s + ((k - 1) + 1) * P
  BY <1>4, <1>6
<1> QED BY <1>2, <1>6, <1>7 DEF Before

(* In the period before any instant x the alarm rang. *)
LEMMA BeforeAny ==
  ASSUME NEW P \in Nat \ {0}, NEW t \in Nat, NEW x \in Nat, x <= t, x >= P
  PROVE  \E s \in Before(t, P) : s < x /\ s + P >= x
<1> DEFINE T == {k \in Nat : t - (k + 1) * P < x}
<1>1. P \in Nat \ {0}
  OBVIOUS
<1>2. T # {}
  <2>1. (t + 1) * P >= t + 1
    BY <1>1
  <2>2. t - (t + 1) * P < x
    BY <2>1
  <2> QED BY <2>2
<1>3. PICK k \in T : \A j \in T : k <= j
  <2>1. T \in SUBSET Nat
    OBVIOUS
  <2> HIDE DEF T
  <2> QED BY <1>2, <2>1, LeastNat
<1>4. k \in Nat /\ (k + 1) * P = k * P + P /\ k * P \in Nat
  BY <1>1, <1>3
<1>5. t - (k + 1) * P < x
  BY <1>3
<1>6. t - k * P >= x
  <2>1. CASE k = 0
    <3>1. k * P = 0
      BY <1>1, <2>1
    <3> QED BY <3>1
  <2>2. CASE k # 0
    <3> DEFINE j == k - 1
    <3>1. j \in Nat /\ j + 1 = k /\ ~(k <= j)
      BY <1>4, <2>2
    <3> HIDE DEF j
    <3>2. j \notin T
      <4> HIDE DEF T
      <4> QED BY <1>3, <3>1
    <3>3. ~(t - (j + 1) * P < x)
      BY <3>1, <3>2
    <3>4. ~(t - k * P < x)
      BY <3>1, <3>3
    <3> QED BY <1>4, <3>4
  <2> QED BY <1>4, <2>1, <2>2
<1> DEFINE s == t - (k + 1) * P
<1>7. s \in Int /\ s + P >= x /\ s < x /\ t = s + (k + 1) * P
  BY <1>1, <1>4, <1>5, <1>6
<1>8. s \in Nat
  BY <1>1, <1>7
<1> HIDE DEF s
<1>9. s \in Before(t, P)
  BY <1>4, <1>7, <1>8 DEF Before
<1> QED BY <1>7, <1>9
--------------------------------------------------------------------------------
(* Each router has each of its alarms once, due within its period. *)
AlarmsOnce ==
  \A u \in Router : \A a \in DOMAIN Period :
    \E e \in DOMAIN event_q :
      /\ IsAlarm(e, u, a) /\ \A f \in DOMAIN event_q : IsAlarm(f, u, a) => f = e
      /\ e.time \in Nat /\ global_time <= e.time /\ e.time <= global_time + Period[a]

LEMMA AlarmsAreOnce == IInv => AlarmsOnce
<1> SUFFICES ASSUME IInv, NEW u \in Router, NEW a \in DOMAIN Period
             PROVE  \E e \in DOMAIN event_q :
                      /\ IsAlarm(e, u, a) /\ \A f \in DOMAIN event_q : IsAlarm(f, u, a) => f = e
                      /\ e.time \in Nat /\ global_time <= e.time
                      /\ e.time <= global_time + Period[a]
  BY DEF AlarmsOnce
<1> DEFINE set == {e \in DOMAIN event_q : e.type = "alarm" /\ e.router = u /\ e.alarm = a}
<1>1. PICK e \in set : set = {e} /\ e.time <= global_time + Period[a]
  BY DEF IInv, QueueSound, BagToSet
<1>2. e \in DOMAIN event_q /\ IsAlarm(e, u, a)
  BY DEF IsAlarm
<1>3. \A f \in DOMAIN event_q : IsAlarm(f, u, a) => f \in set
  BY DEF IsAlarm
<1>4. e.time \in Nat /\ global_time <= e.time
  BY <1>2 DEF IInv, QueueSound, BagToSet, EventOK, AlarmOK, RecvOK, Listed
<1> HIDE DEF set
<1> QED BY <1>1, <1>2, <1>3, <1>4

Times == /\ PING_DURATION \in Nat \ {0} /\ TIMEOUT_DURATION \in Nat \ {0}
         /\ Period["Ping"] = PING_DURATION /\ Period["Port"] = TIMEOUT_DURATION
         /\ "Ping" \in DOMAIN Period /\ "Port" \in DOMAIN Period
         /\ PONG_TIMEOUT \in Nat
LEMMA TimesFacts == Times
BY PeriodFacts, PongTimeoutAssumption DEF Period, Times

(* An entry of a router's neighbours. *)
LEMMA EntryFacts ==
  ASSUME NEW n, NEW u, NEW peer, Sound(n, u, peer), NEW x \in DOMAIN n.neighbor_table
  PROVE  n.neighbor_table[x].timeout \in Nat /\ n.neighbor_table[x].timeout <= PONG_TIMEOUT
<1>1. n.neighbor_table[x] \in Neighbor
  BY NodeFields, MapElim DEF Sound, Routed, Settled
<1> QED BY <1>1, PongTimeoutAssumption DEF Neighbor

(* Right after a change there is nothing to show. *)
Fresh(D) == IInv /\ Bounded(D) /\ changed = global_time

LEMMA FreshTInv == ASSUME NEW D \in Nat PROVE Fresh(D) => TInv(D)
<1> SUFFICES ASSUME Fresh(D) PROVE TInv(D)
  OBVIOUS
<1>1. IInv /\ Bounded(D) /\ changed = global_time /\ changed \in Nat
  BY DEF Fresh, Bounded
<1>2. AlarmsOnce /\ Times
  BY <1>1, AlarmsAreOnce, TimesFacts
<1>3. ASSUME NEW e \in DOMAIN event_q, e.type = "recv" PROVE InTime(e, D)
  <2>1. e.time \in Nat /\ e.time <= changed + D
    BY <1>1, <1>3 DEF Bounded, IInv, EventOK, AlarmOK, RecvOK, Listed
  <2>2. e.time <= changed + 2 * D
    BY <1>1, <2>1
  <2> QED BY <2>1, <2>2 DEF InTime
<1>4. Expiring(D)
  <2> SUFFICES ASSUME NEW u \in Router, NEW x \in DOMAIN node[u].neighbor_table
               PROVE  /\ global_time + node[u].neighbor_table[x].timeout <= changed + D + PONG_TIMEOUT
                      /\ \A e \in DOMAIN event_q : IsAlarm(e, u, "Port") =>
                            e.time <= changed + D + PONG_TIMEOUT + TIMEOUT_DURATION
    BY DEF Expiring
  <2>1. Sound(node[u], u, Wire[u])
    BY <1>1 DEF IInv, NodesOK
  <2>2. /\ node[u].neighbor_table[x].timeout \in Nat
        /\ node[u].neighbor_table[x].timeout <= PONG_TIMEOUT
    BY <2>1, EntryFacts
  <2>3. ASSUME NEW e \in DOMAIN event_q, IsAlarm(e, u, "Port")
        PROVE  e.time <= changed + D + PONG_TIMEOUT + TIMEOUT_DURATION
    <3>1. e.time \in Nat /\ e.time <= global_time + TIMEOUT_DURATION
      BY <1>2, <2>3 DEF AlarmsOnce, Times
    <3> QED BY <1>1, <1>2, <3>1 DEF Times
  <2> QED BY <1>1, <1>2, <2>2, <2>3 DEF Times
<1>5. Rounds(D)
  <2> SUFFICES ASSUME NEW u \in Router, NEW e \in DOMAIN event_q, IsAlarm(e, u, "Ping"),
                      NEW s \in Before(e.time, PING_DURATION)
               PROVE  ~(s > changed + 2 * D)
    BY DEF Rounds
  <2>1. e.time \in Nat /\ e.time <= global_time + PING_DURATION
    BY <1>2 DEF AlarmsOnce, Times
  <2>2. s \in Nat /\ s + PING_DURATION <= e.time
    BY <1>2, <2>1, BeforeNext DEF Times
  <2> QED BY <1>1, <1>2, <2>1, <2>2 DEF Times
<1> QED BY <1>1, <1>3, <1>4, <1>5 DEF TInv

LEMMA FreshTInvNext == ASSUME NEW D \in Nat PROVE Fresh(D)' => TInv(D)'
<1>1. Fresh(D) => TInv(D)
  BY FreshTInv
<1> QED BY <1>1, PTL
--------------------------------------------------------------------------------
(* What a handler does to the neighbours and what of PINGs and PONGs it    *)
(* sends: n is the router before event e, way how its handler ends.        *)
NoPings(way) == \A m \in way.out : m.pkt.type \notin {"PING", "PONG"}

Did(e, n, way) ==
  \/ /\ e.type = "recv" /\ e.pkt.type = "PONG" /\ e.pkt.dst = e.router
     /\ way.node.neighbor_table
          = Put(n.neighbor_table, Wire[e.router][e.port], Entry(e.port, RTT(e.pkt, e.time)))
     /\ NoPings(way)
  \/ /\ e.type = "recv" /\ e.pkt.type = "PING"
     /\ way.node.neighbor_table = n.neighbor_table
     /\ way.out = recv_ping_send_pong(e.router, e.port, e.pkt)
  \/ /\ IsAlarm(e, e.router, "Ping")
     /\ way.node.neighbor_table = n.neighbor_table
     /\ way.out = send_ping(e.router, DOMAIN Wire[e.router], e.time)
  \/ /\ IsAlarm(e, e.router, "Port")
     /\ way.node.neighbor_table = Erase(n.neighbor_table, Silent(n))
     /\ NoPings(way)
  \/ /\ ~(e.type = "recv" /\ e.pkt.type = "PING")
     /\ ~(e.type = "recv" /\ e.pkt.type = "PONG" /\ e.pkt.dst = e.router)
     /\ ~IsAlarm(e, e.router, "Ping") /\ ~IsAlarm(e, e.router, "Port")
     /\ way.node.neighbor_table = n.neighbor_table
     /\ NoPings(way)

LEMMA EndedNoPings == ASSUME NEW u, NEW r, NEW way \in Ended(r, u)
                      PROVE  way.node = r.node /\ NoPings(way)
<1>1. /\ way.node = r.node
      /\ \A x \in way.out : \E m \in send(r.node) :
            x = [port |-> m.port, pkt |-> [type |-> "DV", src |-> u, entries |-> m.entries]]
  BY DEF Ended
<1> QED BY <1>1 DEF NoPings

LEMMA DataDid ==
  ASSUME NEW u \in Router, NEW n, NEW port, NEW t, NEW msg, msg.type = "DATA",
         NEW way \in recv(n, u, port, msg, t)
  PROVE  way.node = n /\ NoPings(way)
<1>1. way = [node |-> n, out |-> forward(n, u, msg)]
  BY DEF recv
<1> QED BY <1>1 DEF forward, NoPings

LEMMA RecvDid ==
  ASSUME NEW e, RecvOK(e), e.type = "recv", NEW n, Sound(n, e.router, Wire[e.router]),
         NEW way \in recv(n, e.router, e.port, e.pkt, e.time)
  PROVE  Did(e, n, way)
<1> DEFINE u == e.router
           port == e.port
           msg == e.pkt
           peer == Wire[u]
           t == e.time
<1>1. /\ u \in Router /\ port \in DOMAIN peer /\ t \in Nat
      /\ PacketOK(msg, peer[port], u) /\ way \in recv(n, u, port, msg, t)
      /\ ~IsAlarm(e, u, "Ping") /\ ~IsAlarm(e, u, "Port")
      /\ Sound(n, u, peer)
  BY DEF RecvOK, IsAlarm
<1>2. CASE msg.type = "DATA"
  BY <1>1, <1>2, DataDid DEF Did
<1>3. CASE msg.type = "PING"
  <2>1. way = [node |-> n, out |-> recv_ping_send_pong(u, port, msg)]
    BY <1>1, <1>3 DEF recv
  <2> QED BY <1>1, <1>3, <2>1 DEF Did
<1>4. CASE msg.type = "PONG" /\ msg.src = peer[port] /\ msg.stamp \in Nat
  <2>1. CASE msg.dst # u
    <3>1. way = [node |-> n, out |-> {}]
      BY <1>1, <1>4, <2>1 DEF recv
    <3> QED BY <1>1, <1>4, <2>1, <3>1 DEF Did, NoPings
  <2>2. CASE msg.dst = u
    <3> DEFINE cost == RTT(msg, t)
               r == recv_pong_DV(n, port, peer[port], cost)
    <3>1. way \in Ended(r, u)
      BY <1>1, <1>4, <2>2 DEF recv
    <3>2. cost \in Cost
      BY <1>1, <1>4, CostModAssumption DEF RTT, Cost
    <3>3. Wired(u, peer)
      BY <1>1, WireFacts
    <3> HIDE DEF cost, peer, u, port
    <3>4. r.node.neighbor_table = Put(n.neighbor_table, peer[port], Entry(port, cost))
      BY <1>1, <3>2, <3>3, RecvPongHandled
    <3> HIDE DEF r
    <3>5. way.node = r.node /\ NoPings(way)
      BY <3>1, EndedNoPings
    <3>6. way.node.neighbor_table = Put(n.neighbor_table, peer[port], Entry(port, cost))
      BY <3>4, <3>5
    <3> QED BY <1>4, <2>2, <3>5, <3>6 DEF Did, cost, peer, u, port
  <2> QED BY <2>1, <2>2
<1>5. CASE msg.type = "DV" /\ msg.src = peer[port] /\ msg.entries \in PMap(Router, Cost)
  <2> DEFINE d == msg.entries
             r == recv_DV(n, u, port, peer[port], d)
  <2>1. way \in Ended(r, u)
    BY <1>1, <1>5 DEF recv
  <2>2. d \in PMap(Router, Cost)
    BY <1>5
  <2>3. Wired(u, peer)
    BY <1>1, WireFacts
  <2> HIDE DEF d, peer, u, port
  <2>4. r.node.neighbor_table = n.neighbor_table
    BY <1>1, <2>2, <2>3, RecvDVHandled
  <2> HIDE DEF r
  <2>5. way.node = r.node /\ NoPings(way)
    BY <2>1, EndedNoPings
  <2> QED BY <1>1, <1>5, <2>4, <2>5 DEF Did, u
<1> QED BY <1>1, <1>2, <1>3, <1>4, <1>5 DEF PacketOK

LEMMA AlarmDid ==
  ASSUME NEW e, AlarmOK(e), NEW n, Sound(n, e.router, Wire[e.router]),
         NEW way \in handle_alarm(n, e.router, e.alarm, e.time)
  PROVE  Did(e, n, way)
<1> DEFINE u == e.router
           a == e.alarm
<1>1. /\ u \in Router /\ a \in {"Ping", "Port", "DV"} /\ e.type = "alarm"
      /\ way \in handle_alarm(n, u, a, e.time)
  BY DEF AlarmOK, Period
<1>2. CASE a = "Ping"
  <2>1. way = [node |-> n, out |-> send_ping(u, DOMAIN Wire[u], e.time)]
    BY <1>1, <1>2 DEF handle_alarm
  <2> QED BY <1>1, <1>2, <2>1 DEF Did, IsAlarm
<1>3. CASE a = "DV"
  <2> DEFINE r == [node |-> n, send |-> TRUE]
  <2>1. way \in Ended(r, u)
    BY <1>1, <1>3 DEF handle_alarm
  <2>2. r.node = n
    OBVIOUS
  <2> HIDE DEF r
  <2>3. way.node = n /\ NoPings(way)
    BY <2>1, <2>2, EndedNoPings
  <2> QED BY <1>1, <1>3, <2>3 DEF Did, IsAlarm
<1>4. CASE a = "Port"
  <2> DEFINE r == update_timeout_DV(n)
  <2>1. way \in Ended(r, u)
    BY <1>1, <1>4 DEF handle_alarm
  <2>2. r.node.neighbor_table = Erase(n.neighbor_table, Silent(n))
    BY <1>1, WireFacts, UpdateTimeoutHandled
  <2> HIDE DEF r
  <2>3. way.node = r.node /\ NoPings(way)
    BY <2>1, EndedNoPings
  <2> QED BY <1>1, <1>4, <2>2, <2>3 DEF Did, IsAlarm
<1> QED BY <1>1, <1>2, <1>3, <1>4
--------------------------------------------------------------------------------
(* Event e is dispatched, way is how its handler ends, S are the arrivals  *)
(* of the packets it sends; if none of them is lost, all are there that    *)
(* were sent on links that are alive.                                      *)
Dispatching(e, way, S) ==
  /\ e \in DOMAIN event_q /\ e.time \in Nat /\ e.time >= global_time /\ e.router \in Router
  /\ WayOK(way, e.router) /\ Did(e, Elapsed(e)[e.router], way)
  /\ node' = [Elapsed(e) EXCEPT ![e.router] = way.node]
  /\ Requeued(event_q, e, S \cup Rearmed(e), event_q')
  /\ \A f \in S : \E m \in way.out : /\ f = Delivery(e.router, m, e.time, delay)
                                     /\ LinkAt(e.router, m.port) \in is_alive
  /\ global_time' = e.time
  /\ is_alive' = is_alive /\ delay' = delay
  /\ \/ changed' = e.time
     \/ /\ changed' = changed
        /\ IsFiniteSet(way.out) =>
             \A m \in way.out : LinkAt(e.router, m.port) \in is_alive =>
                Delivery(e.router, m, e.time, delay) \in S

LEMMA DispatchSums ==
  ASSUME IInv, NEW e \in DOMAIN event_q, e.router \in Router, NEW ways,
         \A way \in ways : WayOK(way, e.router) /\ Did(e, Elapsed(e)[e.router], way),
         Dispatch(e, ways, Rearmed(e))
  PROVE  \E way \in ways : \E S : Dispatching(e, way, S)
<1>1. PICK way \in ways : \E sent \in xmit(e.router, way.out, e.time) :
         /\ node' = [Elapsed(e) EXCEPT ![e.router] = way.node]
         /\ event_q' = (event_q (-) SetToBag({e})) (+) sent.events (+) SetToBag(Rearmed(e))
         /\ changed' = IF sent.gone = 0 THEN changed ELSE e.time
         /\ global_time' = e.time
         /\ is_alive' = is_alive /\ delay' = delay
  BY DEF Dispatch
<1>2. PICK sent \in xmit(e.router, way.out, e.time) :
         /\ event_q' = (event_q (-) SetToBag({e})) (+) sent.events (+) SetToBag(Rearmed(e))
         /\ changed' = IF sent.gone = 0 THEN changed ELSE e.time
  BY <1>1
<1> DEFINE carried == {m \in way.out : LinkAt(e.router, m.port) \in is_alive}
           risky == {m \in carried : /\ e.time <= LossEnd
                                     /\ LinkAt(e.router, m.port) \in scenario.lossy}
<1>3. PICK gone \in SUBSET risky :
         sent = [events |-> SetToBag({Delivery(e.router, m, e.time, delay) : m \in carried \ gone}),
                 gone   |-> Cardinality(gone)]
  BY DEF xmit
<1> DEFINE S == {Delivery(e.router, m, e.time, delay) : m \in carried \ gone}
<1>4. sent.events = SetToBag(S) /\ sent.gone = Cardinality(gone)
  BY <1>3
<1>5. \A f \in S : \E m \in way.out : /\ f = Delivery(e.router, m, e.time, delay)
                                      /\ LinkAt(e.router, m.port) \in is_alive
  OBVIOUS
<1>6. ASSUME IsFiniteSet(way.out), Cardinality(gone) = 0
      PROVE  \A m \in way.out : LinkAt(e.router, m.port) \in is_alive =>
                Delivery(e.router, m, e.time, delay) \in S
  <2>1. gone \subseteq way.out
    OBVIOUS
  <2>2. IsFiniteSet(gone)
    BY <1>6, <2>1, FS_Subset
  <2>3. gone = {}
    BY <1>6, <2>2, FS_EmptySet
  <2> QED BY <2>3
<1>7. S \cap Rearmed(e) = {}
  BY DEF Delivery, Rearmed, AlarmEvent
<1> HIDE DEF S
<1>8. Requeued(event_q, e, S \cup Rearmed(e), event_q')
  BY <1>2, <1>4, <1>7, Requeue DEF IInv
<1>9. e.time \in Nat /\ e.time >= global_time
  BY ElapsedOK DEF IInv, QueueSound, BagToSet
<1>10. \/ changed' = e.time
       \/ /\ changed' = changed
          /\ IsFiniteSet(way.out) =>
             \A m \in way.out : LinkAt(e.router, m.port) \in is_alive =>
                Delivery(e.router, m, e.time, delay) \in S
  BY <1>2, <1>4, <1>6
<1>11. Dispatching(e, way, S)
  BY <1>1, <1>5, <1>8, <1>9, <1>10 DEF Dispatching
<1> QED BY <1>11

(* The arrivals a handler's packets make. *)
LEMMA ArrivalFacts ==
  ASSUME NEW u \in Router, NEW p \in DOMAIN Wire[u], NEW m, m.port = p, NEW t,
         NEW f, f = Delivery(u, m, t, delay)
  PROVE  /\ f.type = "recv" /\ f.pkt = m.pkt /\ f.router = Wire[u][p] /\ f.router \in Router
         /\ f.port = get_link_port(Wire[u][p], u) /\ f.port \in DOMAIN Wire[f.router]
         /\ Wire[f.router][f.port] = u
         /\ LinkAt(f.router, f.port) = LinkAt(u, p)
         /\ f.time = t + delay[LinkAt(u, p)]
         /\ get_link_port(u, f.router) = p
<1>1. /\ f.type = "recv" /\ f.pkt = m.pkt /\ f.router = Wire[u][p]
      /\ f.port = get_link_port(Wire[u][p], u)
      /\ f.time = t + delay[LinkAt(u, p)]
  BY DEF Delivery
<1>2. /\ Wire[u][p] \in Router
      /\ get_link_port(Wire[u][p], u) \in DOMAIN Wire[Wire[u][p]]
      /\ Wire[Wire[u][p]][get_link_port(Wire[u][p], u)] = u
      /\ Wired(u, Wire[u])
  BY WireFacts
<1>3. LinkAt(f.router, f.port) = LinkAt(u, p)
  BY <1>1, <1>2 DEF LinkAt
<1>4. get_link_port(u, Wire[u][p]) = p
  <2> DEFINE q == get_link_port(u, Wire[u][p])
  <2>1. q \in DOMAIN Wire[u] /\ Wire[u][q] = Wire[u][p]
    BY DEF get_link_port
  <2> HIDE DEF q
  <2>2. q = p
    BY <1>2, <2>1 DEF Wired
  <2> QED BY <2>2 DEF q
<1> QED BY <1>1, <1>2, <1>3, <1>4

LEMMA DelayFacts ==
  ASSUME IInv, NEW u \in Router, NEW p \in DOMAIN Wire[u]
  PROVE  LinkAt(u, p) \in Link /\ delay[LinkAt(u, p)] \in Nat
BY WireFacts DEF IInv

(* What a step keeps of Bounded. *)
LEMMA BoundedStep ==
  ASSUME NEW D \in Nat, IInv, Bounded(D), NEW e, NEW way, NEW S, Dispatching(e, way, S)
  PROVE  Bounded(D)'
<1>1. /\ is_alive' \subseteq Link /\ \A l \in Link : delay'[l] <= D
      /\ global_time \in Nat /\ changed \in Nat /\ changed <= global_time
      /\ e.time \in Nat /\ e.time >= global_time /\ global_time' = e.time
      /\ changed' \in {changed, e.time}
  BY DEF Bounded, Dispatching, IInv
<1>2. changed' \in Nat /\ changed' <= global_time'
  BY <1>1
<1>3. ASSUME NEW f \in DOMAIN event_q' PROVE f \in DOMAIN event_q \/ f \in S \/ f \in Rearmed(e)
  BY <1>3 DEF Dispatching, Requeued
<1>4. ASSUME NEW f \in S
      PROVE  f.type = "recv" /\ f.time <= e.time + D
  <2>1. PICK m \in way.out : f = Delivery(e.router, m, e.time, delay)
    BY DEF Dispatching
  <2>2. e.router \in Router /\ m.port \in DOMAIN Wire[e.router]
    BY DEF Dispatching, WayOK
  <2>3. f.type = "recv" /\ f.time = e.time + delay[LinkAt(e.router, m.port)]
    BY <2>1, <2>2, ArrivalFacts
  <2>4. /\ delay[LinkAt(e.router, m.port)] \in Nat
        /\ delay[LinkAt(e.router, m.port)] <= D
    BY <2>2, DelayFacts DEF Bounded
  <2> QED BY <1>1, <2>3, <2>4
<1>5. \A f \in Rearmed(e) : f.type = "alarm"
  BY DEF Rearmed, AlarmEvent
<1>6. ASSUME NEW f \in DOMAIN event_q', f.type = "recv" PROVE f.time <= global_time' + D
  <2>1. CASE f \in DOMAIN event_q
    <3>1. f.time \in Nat /\ f.time <= global_time + D
      BY <1>6, <2>1 DEF Bounded, IInv, EventOK, AlarmOK, RecvOK, Listed
    <3> QED BY <1>1, <3>1
  <2>2. CASE f \in S
    BY <1>1, <1>4, <2>2
  <2> QED BY <1>3, <1>5, <1>6, <2>1, <2>2
<1>7. ASSUME NEW f \in DOMAIN event_q', f.type = "changedelay" PROVE f.delay <= D
  BY <1>3, <1>4, <1>5, <1>7 DEF Bounded
<1> QED BY <1>1, <1>2, <1>6, <1>7 DEF Bounded
--------------------------------------------------------------------------------
(* A PONG goes out at the time its PING came in, over the same link. *)
LEMMA InTimeStep ==
  ASSUME NEW D \in Nat, IInv, TInv(D), NEW e, NEW way, NEW S, Dispatching(e, way, S),
         changed' = changed, NEW f \in DOMAIN event_q', f.type = "recv"
  PROVE  InTime(f, D)'
<1>1. CASE f \in DOMAIN event_q
  <2>1. InTime(f, D)
    BY <1>1 DEF TInv
  <2> QED BY <2>1 DEF InTime, Dispatching
<1>2. CASE f \in S
  <2>1. PICK m \in way.out : /\ f = Delivery(e.router, m, e.time, delay)
                             /\ LinkAt(e.router, m.port) \in is_alive
    BY <1>2 DEF Dispatching
  <2> DEFINE u == e.router
             p == m.port
             d == delay[LinkAt(u, p)]
  <2>2. u \in Router /\ p \in DOMAIN Wire[u] /\ e.time \in Nat
    BY <2>1 DEF Dispatching, WayOK
  <2>3. /\ LinkAt(f.router, f.port) = LinkAt(u, p) /\ f.pkt = m.pkt /\ f.time = e.time + d
    BY <2>1, <2>2, ArrivalFacts
  <2>4. d \in Nat /\ d <= D
    BY <2>2, DelayFacts DEF TInv, Bounded
  <2>5. ASSUME f.pkt.type = "PING" PROVE f.time = f.pkt.stamp + d
    <3>1. way.out = send_ping(u, DOMAIN Wire[u], e.time)
      BY <2>1, <2>3, <2>5 DEF Dispatching, Did, NoPings, recv_ping_send_pong
    <3>2. m.pkt.stamp = e.time
      BY <2>1, <3>1 DEF send_ping
    <3> QED BY <2>3, <3>2
  <2>6. ASSUME f.pkt.type = "PONG"
        PROVE  f.time <= changed + 2 * D \/ f.time = f.pkt.stamp + 2 * d
    <3>1. /\ way.out = recv_ping_send_pong(u, e.port, e.pkt)
          /\ e.type = "recv" /\ e.pkt.type = "PING"
      BY <2>1, <2>3, <2>6 DEF Dispatching, Did, NoPings, send_ping
    <3>2. p = e.port /\ m.pkt.stamp = e.pkt.stamp
      BY <2>1, <3>1 DEF recv_ping_send_pong
    <3>3. e \in DOMAIN event_q
      BY DEF Dispatching
    <3>4. e.time <= changed + D \/ e.time = e.pkt.stamp + d
      BY <3>1, <3>2, <3>3 DEF TInv, InTime
    <3>5. changed \in Nat
      BY DEF TInv, Bounded
    <3>6. e.pkt.stamp \in Nat
      BY <3>1, <3>3 DEF IInv, EventOK, AlarmOK, Listed, RecvOK, PacketOK
    <3> HIDE DEF d
    <3> QED BY <2>2, <2>3, <2>4, <3>2, <3>4, <3>5, <3>6
  <2>7. changed' = changed /\ delay' = delay /\ is_alive' = is_alive
    BY DEF Dispatching
  <2> HIDE DEF d
  <2> QED BY <2>1, <2>3, <2>5, <2>6, <2>7 DEF InTime, d
<1>3. f \notin Rearmed(e)
  BY DEF Rearmed, AlarmEvent
<1>4. f \in DOMAIN event_q \cup (S \cup Rearmed(e))
  BY DEF Dispatching, Requeued
<1> QED BY <1>1, <1>2, <1>3, <1>4

(* What is left of an entry when time has passed until e. *)
LEMMA ElapsedEntry ==
  ASSUME IInv, NEW e \in DOMAIN event_q, NEW u \in Router
  PROVE  LET n == Elapsed(e)[u]
         IN  /\ Sound(n, u, Wire[u])
             /\ DOMAIN n.neighbor_table = DOMAIN node[u].neighbor_table
             /\ \A x \in DOMAIN node[u].neighbor_table :
                  /\ n.neighbor_table[x].cost = node[u].neighbor_table[x].cost
                  /\ n.neighbor_table[x].timeout \in Nat
                  /\ node[u].neighbor_table[x].timeout \in Nat
                  /\ \/ n.neighbor_table[x].timeout = 0
                     \/ e.time + n.neighbor_table[x].timeout
                          = global_time + node[u].neighbor_table[x].timeout
                  /\ e.time + n.neighbor_table[x].timeout
                          >= global_time + node[u].neighbor_table[x].timeout
<1> DEFINE d == e.time - global_time
           n == Elapsed(e)[u]
           old == node[u].neighbor_table
<1>1. e.time \in Nat /\ global_time \in Nat /\ d \in Nat
  BY ElapsedOK DEF IInv, QueueSound, BagToSet
<1>2. n = Age(node[u], d)
  BY DEF Elapsed
<1>3. Sound(node[u], u, Wire[u])
  BY DEF IInv, NodesOK
<1> HIDE DEF d
<1>4. /\ Sound(n, u, Wire[u])
      /\ DOMAIN n.neighbor_table = DOMAIN old
      /\ \A x \in DOMAIN old :
            /\ old[x].timeout \in 0 .. PONG_TIMEOUT
            /\ n.neighbor_table[x].cost = old[x].cost
            /\ n.neighbor_table[x].timeout = Elapse(old[x].timeout, d)
  <2> DEFINE m == node[u]
             peer == Wire[u]
  <2> HIDE DEF m, peer
  <2>1. Sound(m, u, peer) /\ n = Age(m, d)
    BY <1>2, <1>3 DEF m, peer
  <2> HIDE DEF n
  <2>2. /\ Sound(Age(m, d), u, peer)
        /\ DOMAIN Age(m, d).neighbor_table = DOMAIN m.neighbor_table
        /\ \A x \in DOMAIN m.neighbor_table :
              /\ m.neighbor_table[x].timeout \in 0 .. PONG_TIMEOUT
              /\ Age(m, d).neighbor_table[x].cost = m.neighbor_table[x].cost
              /\ Age(m, d).neighbor_table[x].timeout = Elapse(m.neighbor_table[x].timeout, d)
    <3>1. d \in Nat /\ Sound(m, u, peer)
      BY <1>1, <2>1
    <3> QED BY <3>1, AgeSound
  <2> QED BY <2>1, <2>2 DEF m, peer
<1> HIDE DEF n
<1>5. ASSUME NEW x \in DOMAIN old
      PROVE  /\ n.neighbor_table[x].cost = old[x].cost
             /\ n.neighbor_table[x].timeout \in Nat /\ old[x].timeout \in Nat
             /\ \/ n.neighbor_table[x].timeout = 0
                \/ e.time + n.neighbor_table[x].timeout = global_time + old[x].timeout
             /\ e.time + n.neighbor_table[x].timeout >= global_time + old[x].timeout
  <2> DEFINE t == old[x].timeout
  <2>1. t \in Nat /\ n.neighbor_table[x].timeout = IF t <= d THEN 0 ELSE t - d
    BY <1>4, PongTimeoutAssumption DEF Elapse
  <2>2. n.neighbor_table[x].cost = old[x].cost
    BY <1>4
  <2>3. d = e.time - global_time
    BY DEF d
  <2> QED BY <1>1, <2>1, <2>2, <2>3
<1> QED BY <1>4, <1>5 DEF n

(* The link of an entry. *)
LEMMA NeighborLink ==
  ASSUME NEW u \in Router, NEW n, Sound(n, u, Wire[u]), NEW x \in DOMAIN n.neighbor_table
  PROVE  \E p \in DOMAIN Wire[u] : Wire[u][p] = x /\ LinkAt(u, p) = {u, x}
BY DEF Sound, Linked, LinkAt

(* A router's neighbours after the step: those it had, aged, but for a     *)
(* neighbour whose PONG came in, and without those that fell silent.       *)
LEMMA NeighborsStep ==
  ASSUME IInv, NEW e, NEW way, NEW S, Dispatching(e, way, S), NEW u \in Router
  PROVE  LET n == Elapsed(e)[u]
             after == node'[u].neighbor_table
         IN  \/ /\ e.router = u /\ e.type = "recv" /\ e.pkt.type = "PONG" /\ e.pkt.dst = u
                /\ after = Put(n.neighbor_table, Wire[u][e.port],
                               Entry(e.port, RTT(e.pkt, e.time)))
             \/ /\ IsAlarm(e, u, "Port")
                /\ after = Erase(n.neighbor_table, Silent(n))
             \/ /\ ~(e.router = u /\ e.type = "recv" /\ e.pkt.type = "PONG" /\ e.pkt.dst = u)
                /\ ~IsAlarm(e, u, "Port")
                /\ after = n.neighbor_table
<1> DEFINE n == Elapsed(e)[u]
<1>1. Elapsed(e) \in [Router -> Node]
  BY ElapsedOK DEF Dispatching
<1>2. node' = [Elapsed(e) EXCEPT ![e.router] = way.node] /\ e.router \in Router
  BY DEF Dispatching
<1>3. CASE e.router = u
  <2>1. node'[u] = way.node
    BY <1>1, <1>2, <1>3
  <2>2. Did(e, n, way)
    BY <1>3 DEF Dispatching
  <2> HIDE DEF n
  <2> QED BY <1>3, <2>1, <2>2 DEF Did, IsAlarm, n
<1>4. CASE e.router # u
  <2>1. node'[u] = n
    BY <1>1, <1>2, <1>4
  <2> QED BY <1>4, <2>1 DEF IsAlarm
<1> QED BY <1>3, <1>4
--------------------------------------------------------------------------------
LEMMA AlarmsAreOnceNext == IInv' => AlarmsOnce'
<1> QED BY AlarmsAreOnce, PTL

LEMMA ExpiringStep ==
  ASSUME NEW D \in Nat, IInv, IInv', TInv(D), NEW e, NEW way, NEW S, Dispatching(e, way, S),
         changed' = changed
  PROVE  Expiring(D)'
<1> SUFFICES ASSUME NEW u \in Router, NEW x \in DOMAIN node'[u].neighbor_table,
                    {u, x} \notin is_alive
             PROVE  /\ \/ node'[u].neighbor_table[x].timeout = 0
                       \/ e.time + node'[u].neighbor_table[x].timeout
                            <= changed + D + PONG_TIMEOUT
                    /\ \A f \in DOMAIN event_q' : IsAlarm(f, u, "Port") =>
                         f.time <= changed + D + PONG_TIMEOUT + TIMEOUT_DURATION
  BY DEF Expiring, Dispatching
<1> DEFINE n == Elapsed(e)[u].neighbor_table
           old == node[u].neighbor_table
           after == node'[u].neighbor_table
           B == changed + D + PONG_TIMEOUT
<1>1. /\ e \in DOMAIN event_q /\ e.time \in Nat /\ global_time' = e.time /\ changed \in Nat
      /\ global_time \in Nat /\ global_time <= e.time
      /\ Times /\ AlarmsOnce' /\ B \in Nat
  BY AlarmsAreOnceNext, TimesFacts DEF Dispatching, IInv, TInv, Bounded, Times
<1>2. /\ Sound(Elapsed(e)[u], u, Wire[u])
      /\ DOMAIN n = DOMAIN old
      /\ \A y \in DOMAIN old :
           /\ n[y].timeout \in Nat /\ old[y].timeout \in Nat
           /\ n[y].timeout = 0 \/ e.time + n[y].timeout = global_time + old[y].timeout
  BY <1>1, ElapsedEntry
<1>3. \A f \in DOMAIN event_q' : IsAlarm(f, u, "Port") =>
         f.time \in Nat /\ f.time <= e.time + TIMEOUT_DURATION
  BY <1>1 DEF AlarmsOnce, Times
<1>4. ASSUME NEW f \in DOMAIN event_q', IsAlarm(f, u, "Port"), ~IsAlarm(e, u, "Port")
      PROVE  f \in DOMAIN event_q
  <2>1. f \in DOMAIN event_q \cup (S \cup Rearmed(e))
    BY DEF Dispatching, Requeued
  <2>2. f \notin S
    BY <1>4 DEF Dispatching, Delivery, IsAlarm
  <2>3. f \notin Rearmed(e)
    BY <1>4 DEF Rearmed, AlarmEvent, IsAlarm
  <2> QED BY <2>1, <2>2, <2>3
<1>5. ASSUME x \in DOMAIN old
      PROVE  /\ n[x].timeout = 0 \/ e.time + n[x].timeout <= B
             /\ \A f \in DOMAIN event_q : IsAlarm(f, u, "Port") => f.time <= B + TIMEOUT_DURATION
  <2>1. /\ old[x].timeout = 0 \/ global_time + old[x].timeout <= B
        /\ \A f \in DOMAIN event_q : IsAlarm(f, u, "Port") => f.time <= B + TIMEOUT_DURATION
    BY <1>5 DEF TInv, Expiring
  <2>2. n[x].timeout = 0 \/ e.time + n[x].timeout <= B
    BY <1>1, <1>2, <1>5, <2>1
  <2> QED BY <2>1, <2>2
<1> HIDE DEF n, old, B
<1>6. /\ after[x].timeout = 0 \/ e.time + after[x].timeout <= B
      /\ \A f \in DOMAIN event_q' : IsAlarm(f, u, "Port") => f.time <= B + TIMEOUT_DURATION
  <2>1. CASE /\ e.router = u /\ e.type = "recv" /\ e.pkt.type = "PONG" /\ e.pkt.dst = u
             /\ after = Put(n, Wire[u][e.port], Entry(e.port, RTT(e.pkt, e.time)))
    <3>1. ~IsAlarm(e, u, "Port")
      BY <2>1 DEF IsAlarm
    <3>2. CASE x = Wire[u][e.port]
      <4>1. LinkAt(e.router, e.port) \notin is_alive
        BY <2>1, <3>2 DEF LinkAt
      <4>2. e.time <= changed + D
        BY <1>1, <2>1, <4>1 DEF TInv, InTime
      <4>3. after[x].timeout = PONG_TIMEOUT
        BY <2>1, <3>2 DEF Put, Entry
      <4>4. e.time + PONG_TIMEOUT <= B
        BY <1>1, <4>2 DEF B, Times
      <4>5. \A f \in DOMAIN event_q' : IsAlarm(f, u, "Port") => f.time <= B + TIMEOUT_DURATION
        BY <1>1, <1>3, <4>4 DEF Times
      <4> QED BY <4>3, <4>4, <4>5
    <3>3. CASE x # Wire[u][e.port]
      <4>1. x \in DOMAIN n /\ after[x] = n[x]
        BY <2>1, <3>3 DEF Put
      <4> QED BY <1>2, <1>4, <1>5, <3>1, <4>1
    <3> QED BY <3>2, <3>3
  <2>2. CASE IsAlarm(e, u, "Port") /\ after = Erase(n, Silent(Elapsed(e)[u]))
    <3>1. x \in DOMAIN n /\ after[x] = n[x] /\ x \notin Silent(Elapsed(e)[u])
      BY <2>2 DEF Erase, Restrict
    <3>2. n[x].timeout # 0
      BY <3>1 DEF Silent, n
    <3>3. e.time + n[x].timeout <= B /\ n[x].timeout \in Nat
      BY <1>2, <1>5, <3>1, <3>2
    <3>4. \A f \in DOMAIN event_q' : IsAlarm(f, u, "Port") => f.time <= B + TIMEOUT_DURATION
      BY <1>1, <1>3, <3>3 DEF Times
    <3> QED BY <3>1, <3>3, <3>4
  <2>3. CASE ~IsAlarm(e, u, "Port") /\ after = n
    BY <1>2, <1>4, <1>5, <2>3
  <2> QED BY <2>1, <2>2, <2>3, NeighborsStep DEF n
<1> QED BY <1>6 DEF B
--------------------------------------------------------------------------------
(* A packet that is sent long after the last change arrives in this step   *)
(* or is still on its way.                                                 *)
LEMMA StaysOrDue ==
  ASSUME NEW e, NEW way, NEW S, Dispatching(e, way, S), NEW f \in DOMAIN event_q, f # e
  PROVE  f \in DOMAIN event_q'
BY DEF Dispatching, Requeued

LEMMA SentArrives ==
  ASSUME NEW e, NEW way, NEW S, Dispatching(e, way, S), changed' = changed, changed # e.time,
         IsFiniteSet(way.out), NEW m \in way.out, LinkAt(e.router, m.port) \in is_alive
  PROVE  Delivery(e.router, m, e.time, delay) \in DOMAIN event_q'
<1>1. Delivery(e.router, m, e.time, delay) \in S
  BY DEF Dispatching
<1>2. S \subseteq DOMAIN event_q'
  BY DEF Dispatching, Requeued
<1> QED BY <1>1, <1>2

(* The alarm sends a PING on every live link. *)
LEMMA PingSent ==
  ASSUME NEW e, NEW way, NEW S, Dispatching(e, way, S), changed' = changed, changed # e.time,
         NEW u \in Router, IsAlarm(e, u, "Ping"),
         NEW p \in DOMAIN Wire[u], LinkAt(u, p) \in is_alive
  PROVE  PingOf(u, p, e.time) \in DOMAIN event_q'
<1>1. way.out = send_ping(u, DOMAIN Wire[u], e.time) /\ e.router = u
  BY DEF Dispatching, Did, IsAlarm
<1> DEFINE Ms == {[port |-> q, pkt |-> [type |-> "PING", src |-> u, stamp |-> e.time]] :
                    q \in DOMAIN Wire[u]}
           m == [port |-> p, pkt |-> [type |-> "PING", src |-> u, stamp |-> e.time]]
<1>2. way.out = Ms
  BY <1>1 DEF send_ping
<1>3. IsFiniteSet(DOMAIN Wire[u])
  BY NetworkAssumption DEF WellWired
<1>4. IsFiniteSet(Ms)
  <2> DEFINE f == [q \in DOMAIN Wire[u] |->
                     [port |-> q, pkt |-> [type |-> "PING", src |-> u, stamp |-> e.time]]]
  <2>1. f \in Surjection(DOMAIN Wire[u], Ms)
    BY DEF Surjection
  <2> HIDE DEF f, Ms
  <2> QED BY <1>3, <2>1, FS_Surjection
<1>5. m \in Ms /\ m.port = p
  OBVIOUS
<1> HIDE DEF Ms, m
<1>6. Delivery(u, m, e.time, delay) \in DOMAIN event_q'
  BY <1>1, <1>2, <1>4, <1>5, SentArrives
<1> QED BY <1>6 DEF PingOf, m

(* A PING that came in is answered over the link it came in on. *)
LEMMA PongSent ==
  ASSUME IInv, NEW e, NEW way, NEW S, Dispatching(e, way, S), changed' = changed, changed # e.time,
         NEW u \in Router, NEW p \in DOMAIN Wire[u], LinkAt(u, p) \in is_alive,
         NEW s \in Nat, e = PingOf(u, p, s)
  PROVE  PongOf(u, p, s) \in DOMAIN event_q'
<1> DEFINE v == Wire[u][p]
           q == get_link_port(v, u)
           x == [port |-> p, pkt |-> [type |-> "PING", src |-> u, stamp |-> s]]
           m == [port |-> q, pkt |-> [type |-> "PONG", src |-> v, dst |-> u, stamp |-> s]]
<1>1. e = Delivery(u, x, s, delay) /\ x.port = p /\ x.pkt.type = "PING"
      /\ x.pkt.src = u /\ x.pkt.stamp = s
  BY DEF PingOf
<1> HIDE DEF x
<1>2. /\ e.type = "recv" /\ e.pkt = x.pkt /\ e.router = v /\ e.port = q
      /\ LinkAt(v, q) = LinkAt(u, p)
      /\ e.time = s + delay[LinkAt(u, p)]
  BY <1>1, ArrivalFacts
<1>3. way.out = recv_ping_send_pong(v, q, e.pkt)
  BY <1>1, <1>2 DEF Dispatching, Did, IsAlarm
<1>4. way.out = {m}
  BY <1>1, <1>2, <1>3 DEF recv_ping_send_pong
<1>5. IsFiniteSet(way.out)
  BY <1>4, FS_Singleton
<1>6. m \in way.out /\ m.port = q
  BY <1>4
<1> HIDE DEF m
<1>7. Delivery(v, m, e.time, delay) \in DOMAIN event_q'
  BY <1>2, <1>5, <1>6, SentArrives
<1> QED BY <1>2, <1>7 DEF PongOf, m

(* The PONG makes the neighbour known, with what its link costs. *)
LEMMA PongLearned ==
  ASSUME NEW D \in Nat, IInv, Bounded(D), 2 * D < CostMod,
         NEW e, NEW way, NEW S, Dispatching(e, way, S),
         NEW u \in Router, NEW p \in DOMAIN Wire[u],
         NEW s \in Nat, e = PongOf(u, p, s)
  PROVE  KnownUntil(u, p, Expiry(u, p, s))'
<1> DEFINE v == Wire[u][p]
           q == get_link_port(v, u)
           d == delay[LinkAt(u, p)]
           m == [port |-> q, pkt |-> [type |-> "PONG", src |-> v, dst |-> u, stamp |-> s]]
<1>1. /\ v \in Router /\ q \in DOMAIN Wire[v] /\ Wire[v][q] = u
      /\ Wired(u, Wire[u])
  BY WireFacts
<1>2. LinkAt(v, q) = LinkAt(u, p)
  BY <1>1 DEF LinkAt
<1>3. e = Delivery(v, m, s + d, delay) /\ m.port = q
      /\ m.pkt.type = "PONG" /\ m.pkt.dst = u /\ m.pkt.stamp = s
  BY DEF PongOf
<1>4. d \in Nat /\ d <= D
  BY DelayFacts DEF Bounded
<1> HIDE DEF m, d, q, v
<1>5. /\ e.type = "recv" /\ e.pkt = m.pkt /\ e.router = u /\ e.port \in DOMAIN Wire[u]
      /\ Wire[u][e.port] = v
      /\ e.time = s + d + delay[LinkAt(v, q)]
  BY <1>1, <1>3, ArrivalFacts
<1>6. e.time = s + d + d
  BY <1>2, <1>5 DEF d
<1>7. RTT(e.pkt, e.time) = 2 * d
  <2>1. e.time - s = 2 * d /\ 2 * d < CostMod /\ 2 * d \in Nat
    BY <1>4, <1>6, CostModAssumption
  <2>2. (2 * d) % CostMod = 2 * d
    BY <2>1, CostModAssumption
  <2> QED BY <1>3, <1>5, <2>1, <2>2 DEF RTT
<1> DEFINE after == node'[u].neighbor_table
<1>8. after = Put(Elapsed(e)[u].neighbor_table, v, Entry(e.port, RTT(e.pkt, e.time)))
  <2>1. ~IsAlarm(e, u, "Port")
    BY <1>5 DEF IsAlarm
  <2> QED BY <1>3, <1>5, <2>1, NeighborsStep
<1> HIDE DEF after
<1>9. v \in DOMAIN after /\ after[v].cost = 2 * d /\ after[v].timeout = PONG_TIMEOUT
  BY <1>7, <1>8 DEF Put, Entry
<1>10. global_time' = e.time /\ delay' = delay
  BY DEF Dispatching
<1>11. s + 2 * d + PONG_TIMEOUT = e.time + PONG_TIMEOUT
  BY <1>4, <1>6, PongTimeoutAssumption
<1>12. e.time + PONG_TIMEOUT >= s + 2 * d + PONG_TIMEOUT
  BY <1>4, <1>6, PongTimeoutAssumption
<1> QED BY <1>9, <1>10, <1>12 DEF KnownUntil, Expiry, v, d, after

(* What is known stays known: a later PONG refreshes it, and the check for *)
(* silent neighbours leaves it alone.                                      *)
LEMMA StaysKnown ==
  ASSUME NEW D \in Nat, IInv, TInv(D), 2 * D < CostMod,
         NEW e, NEW way, NEW S, Dispatching(e, way, S), e.time > changed + 2 * D,
         NEW u \in Router, NEW p \in DOMAIN Wire[u],
         NEW t \in Nat, KnownUntil(u, p, t)
  PROVE  KnownUntil(u, p, t)' \/ global_time' >= t
<1> DEFINE v == Wire[u][p]
           d == delay[LinkAt(u, p)]
           n == Elapsed(e)[u].neighbor_table
           old == node[u].neighbor_table
           after == node'[u].neighbor_table
<1>1. /\ e \in DOMAIN event_q /\ e.time \in Nat /\ global_time' = e.time /\ delay' = delay
      /\ changed \in Nat /\ global_time \in Nat /\ global_time <= e.time /\ Times
  BY TimesFacts DEF Dispatching, IInv, TInv, Bounded
<1>2. /\ Sound(node[u], u, Wire[u])
      /\ v \in DOMAIN old /\ old[v].cost = 2 * d /\ global_time + old[v].timeout >= t
  BY DEF KnownUntil, IInv, NodesOK
<1>3. old[v].timeout \in Nat /\ old[v].timeout <= PONG_TIMEOUT
  BY <1>2, EntryFacts
<1>4. /\ v \in DOMAIN n /\ n[v].cost = 2 * d /\ n[v].timeout \in Nat
      /\ e.time + n[v].timeout >= t
  <2>1. /\ DOMAIN n = DOMAIN old
        /\ n[v].cost = old[v].cost /\ n[v].timeout \in Nat
        /\ e.time + n[v].timeout >= global_time + old[v].timeout
    BY <1>1, <1>2, ElapsedEntry
  <2> QED BY <1>1, <1>2, <1>3, <2>1
<1>5. d \in Nat /\ d <= D
  BY DelayFacts DEF TInv, Bounded
<1> HIDE DEF v, d, n, old, after
<1> SUFFICES \/ v \in DOMAIN after /\ after[v].cost = 2 * d /\ e.time + after[v].timeout >= t
             \/ e.time >= t
  BY <1>1 DEF KnownUntil, v, d, after
<1>6. CASE /\ e.router = u /\ e.type = "recv" /\ e.pkt.type = "PONG" /\ e.pkt.dst = u
           /\ after = Put(n, Wire[u][e.port], Entry(e.port, RTT(e.pkt, e.time)))
  <2>1. CASE v = Wire[u][e.port]
    <3>1. LinkAt(e.router, e.port) = LinkAt(u, p)
      BY <1>6, <2>1 DEF LinkAt, v
    <3>2. e.time = e.pkt.stamp + 2 * d
      <4>1. InTime(e, D)
        BY <1>1, <1>6 DEF TInv
      <4>2. e.time <= changed + 2 * D \/ e.time = e.pkt.stamp + 2 * d
        BY <1>6, <3>1, <4>1 DEF InTime, d
      <4> QED BY <1>1, <4>2
    <3>3. e.pkt.stamp \in Nat
      BY <1>1, <1>6 DEF IInv, EventOK, AlarmOK, Listed, RecvOK, PacketOK
    <3>4. RTT(e.pkt, e.time) = 2 * d
      <4>1. e.time - e.pkt.stamp = 2 * d /\ 2 * d < CostMod /\ 2 * d \in Nat
        BY <1>5, <3>2, <3>3, CostModAssumption
      <4>2. (2 * d) % CostMod = 2 * d
        BY <4>1, CostModAssumption
      <4> QED BY <4>1, <4>2 DEF RTT
    <3>5. v \in DOMAIN after /\ after[v].cost = 2 * d /\ after[v].timeout = PONG_TIMEOUT
      BY <1>6, <2>1, <3>4 DEF Put, Entry
    <3>6. e.time + PONG_TIMEOUT >= t
      BY <1>1, <1>2, <1>3 DEF Times
    <3> QED BY <3>5, <3>6
  <2>2. CASE v # Wire[u][e.port]
    <3>1. v \in DOMAIN after /\ after[v] = n[v]
      BY <1>4, <1>6, <2>2 DEF Put
    <3> QED BY <1>4, <3>1
  <2> QED BY <2>1, <2>2
<1>7. CASE IsAlarm(e, u, "Port") /\ after = Erase(n, Silent(Elapsed(e)[u]))
  <2>1. CASE n[v].timeout = 0
    BY <1>1, <1>4, <2>1
  <2>2. CASE n[v].timeout # 0
    <3>1. v \notin Silent(Elapsed(e)[u])
      BY <2>2 DEF Silent, n
    <3>2. v \in DOMAIN after /\ after[v] = n[v]
      BY <1>4, <1>7, <3>1 DEF Erase, Restrict
    <3> QED BY <1>4, <3>2
  <2> QED BY <2>1, <2>2
<1>8. CASE after = n
  BY <1>4, <1>8
<1> QED BY <1>6, <1>7, <1>8, NeighborsStep DEF n, after
--------------------------------------------------------------------------------
LEMMA PingedStep ==
  ASSUME NEW D \in Nat, IInv, TInv(D), 2 * D < CostMod,
         NEW e, NEW way, NEW S, Dispatching(e, way, S), changed' = changed,
         e.time > changed + 2 * D,
         NEW u \in Router, NEW p \in DOMAIN Wire[u], LinkAt(u, p) \in is_alive,
         NEW s \in Nat, Pinged(u, p, s)
  PROVE  Pinged(u, p, s)'
<1>1. /\ PingOf(u, p, s)' = PingOf(u, p, s) /\ PongOf(u, p, s)' = PongOf(u, p, s)
      /\ Expiry(u, p, s)' = Expiry(u, p, s)
  BY DEF PingOf, PongOf, Expiry, Dispatching
<1>2. /\ e.time \in Nat /\ changed \in Nat /\ global_time \in Nat /\ global_time <= e.time
      /\ global_time' = e.time /\ changed # e.time
  BY DEF Dispatching, IInv, TInv, Bounded
<1>3. Expiry(u, p, s) \in Nat
  BY DelayFacts, PongTimeoutAssumption DEF Expiry
<1>4. CASE PingOf(u, p, s) \in DOMAIN event_q
  <2>1. CASE PingOf(u, p, s) # e
    BY <1>1, <1>4, <2>1, StaysOrDue DEF Pinged
  <2>2. CASE PingOf(u, p, s) = e
    <3>1. PongOf(u, p, s) \in DOMAIN event_q'
      BY <1>2, <2>2, PongSent
    <3> QED BY <1>1, <3>1 DEF Pinged
  <2> QED BY <2>1, <2>2
<1>5. CASE PongOf(u, p, s) \in DOMAIN event_q
  <2>1. CASE PongOf(u, p, s) # e
    BY <1>1, <1>5, <2>1, StaysOrDue DEF Pinged
  <2>2. CASE PongOf(u, p, s) = e
    <3>1. KnownUntil(u, p, Expiry(u, p, s))'
      BY <2>2, PongLearned DEF TInv
    <3> QED BY <3>1 DEF Pinged
  <2> QED BY <2>1, <2>2
<1>6. CASE KnownUntil(u, p, Expiry(u, p, s))
  <2> DEFINE t == Expiry(u, p, s)
  <2>1. t \in Nat /\ KnownUntil(u, p, t) /\ t' = t
    BY <1>1, <1>3, <1>6
  <2>2. KnownUntil(u, p, t)' \/ global_time' >= t
    BY <2>1, StaysKnown
  <2> QED BY <1>1, <2>2 DEF Pinged
<1>7. CASE global_time >= Expiry(u, p, s)
  <2>1. global_time' >= Expiry(u, p, s)
    BY <1>2, <1>3, <1>7
  <2> QED BY <1>1, <2>1 DEF Pinged
<1> QED BY <1>4, <1>5, <1>6, <1>7 DEF Pinged

LEMMA RoundsStep ==
  ASSUME NEW D \in Nat, IInv, IInv', TInv(D), 2 * D < CostMod,
         NEW e, NEW way, NEW S, Dispatching(e, way, S), changed' = changed
  PROVE  Rounds(D)'
<1> SUFFICES ASSUME NEW u \in Router, NEW p \in DOMAIN Wire[u], LinkAt(u, p) \in is_alive,
                    NEW f \in DOMAIN event_q', IsAlarm(f, u, "Ping"),
                    NEW s \in Before(f.time, PING_DURATION), s > changed + 2 * D
             PROVE  Pinged(u, p, s)'
  BY DEF Rounds, Dispatching
<1>1. /\ e \in DOMAIN event_q /\ e.time \in Nat /\ global_time' = e.time /\ changed \in Nat
      /\ Times /\ AlarmsOnce'
  BY AlarmsAreOnceNext, TimesFacts DEF Dispatching, TInv, Bounded
<1>2. f.time \in Nat /\ f.time <= e.time + PING_DURATION
  BY <1>1 DEF AlarmsOnce, Times
<1>3. s \in Nat /\ s + PING_DURATION <= f.time
  BY <1>1, <1>2, BeforeNext DEF Times
<1>4. e.time > changed + 2 * D /\ changed # e.time
  BY <1>1, <1>2, <1>3 DEF Times
<1>5. CASE IsAlarm(e, u, "Ping") /\ s = e.time
  <2>1. PingOf(u, p, s) \in DOMAIN event_q'
    BY <1>4, <1>5, PingSent
  <2>2. PingOf(u, p, s)' = PingOf(u, p, s)
    BY DEF PingOf, Dispatching
  <2> QED BY <2>1, <2>2 DEF Pinged
<1>6. CASE ~(IsAlarm(e, u, "Ping") /\ s = e.time)
  <2>1. PICK g \in DOMAIN event_q : IsAlarm(g, u, "Ping") /\ s \in Before(g.time, PING_DURATION)
    <3>1. CASE IsAlarm(e, u, "Ping")
      <4> DEFINE A == AlarmEvent(u, "Ping", e.time)
      <4>1. A \in DOMAIN event_q'
        BY <3>1 DEF Dispatching, Requeued, Rearmed, IsAlarm
      <4>2. IsAlarm(A, u, "Ping") /\ A.time = e.time + PING_DURATION
        BY <1>1 DEF IsAlarm, AlarmEvent, Times
      <4> HIDE DEF A
      <4>3. f = A
        BY <1>1, <4>1, <4>2 DEF AlarmsOnce, Times
      <4>4. s \in Before(e.time + PING_DURATION, PING_DURATION) /\ s # e.time
        BY <1>6, <3>1, <4>2, <4>3
      <4>5. s \in Before(e.time, PING_DURATION)
        BY <1>1, <4>4, BeforeLast DEF Times
      <4> QED BY <1>1, <3>1, <4>5
    <3>2. CASE ~IsAlarm(e, u, "Ping")
      <4>1. f \in DOMAIN event_q \cup (S \cup Rearmed(e))
        BY DEF Dispatching, Requeued
      <4>2. f \notin S
        BY DEF Dispatching, Delivery, IsAlarm
      <4>3. f \notin Rearmed(e)
        BY <3>2 DEF Rearmed, AlarmEvent, IsAlarm
      <4> QED BY <4>1, <4>2, <4>3
    <3> QED BY <3>1, <3>2
  <2>2. Pinged(u, p, s)
    BY <2>1 DEF TInv, Rounds
  <2> QED BY <1>3, <1>4, <2>2, PingedStep
<1> QED BY <1>5, <1>6
--------------------------------------------------------------------------------
(* A step that dispatches an event to a router, and one that changes a     *)
(* link.                                                                   *)
LEMMA DispatchTInv ==
  ASSUME NEW D \in Nat, IInv, IInv', TInv(D), 2 * D < CostMod,
         NEW e, NEW way, NEW S, Dispatching(e, way, S)
  PROVE  TInv(D)'
<1>1. Bounded(D)'
  BY BoundedStep DEF TInv
<1>2. CASE changed' = e.time
  <2>1. changed' = global_time'
    BY <1>2 DEF Dispatching
  <2>2. Fresh(D)'
    BY <1>1, <2>1 DEF Fresh
  <2> QED BY <2>2, FreshTInvNext
<1>3. CASE changed' = changed
  <2>1. ASSUME NEW f \in DOMAIN event_q', f.type = "recv" PROVE InTime(f, D)'
    BY <1>3, <2>1, InTimeStep
  <2>2. Expiring(D)'
    BY <1>3, ExpiringStep
  <2>3. Rounds(D)'
    BY <1>3, RoundsStep
  <2> QED BY <1>1, <2>1, <2>2, <2>3 DEF TInv
<1> QED BY <1>2, <1>3 DEF Dispatching

LEMMA ChangeTInv ==
  ASSUME NEW D \in Nat, IInv, IInv', TInv(D), NEW e \in DOMAIN event_q, ChangeLink(e),
         is_alive' \subseteq Link, \A l \in Link : delay'[l] <= D
  PROVE  TInv(D)'
<1>1. /\ global_time' = e.time /\ changed' = e.time /\ e.time \in Nat
      /\ global_time \in Nat /\ global_time <= e.time
  BY ElapsedOK DEF ChangeLink, IInv, QueueSound, BagToSet
<1>2. DOMAIN event_q' \subseteq DOMAIN event_q
  BY TakeEvent DEF ChangeLink, IInv, Taken
<1>3. ASSUME NEW f \in DOMAIN event_q', f.type = "recv" PROVE f.time <= e.time + D
  <2>1. f \in DOMAIN event_q
    BY <1>2
  <2>2. f.time \in Nat /\ f.time <= global_time + D
    BY <1>3, <2>1 DEF TInv, Bounded, IInv, EventOK, AlarmOK, RecvOK, Listed
  <2> QED BY <1>1, <2>2
<1>4. \A f \in DOMAIN event_q' : f.type = "changedelay" => f.delay <= D
  BY <1>2 DEF TInv, Bounded
<1>5. Bounded(D)'
  BY <1>1, <1>3, <1>4 DEF Bounded
<1>6. Fresh(D)'
  BY <1>1, <1>5 DEF Fresh
<1> QED BY <1>6, FreshTInvNext
--------------------------------------------------------------------------------
LEMMA InitTInv ==
  ASSUME NEW D \in Nat, Timely(D)
  PROVE  Init => TInv(D)
<1> SUFFICES ASSUME Init PROVE TInv(D)
  OBVIOUS
<1> DEFINE As == {AlarmEvent(u, a, 0) : u \in Router, a \in DOMAIN Period}
           Ds == UNION {{Delivery(u, m, 0, InitialDelay) : m \in Hello(u)} : u \in Router}
           Q == scenario.events \cup As \cup Ds
<1>1. /\ scenario \in Scenarios /\ event_q = SetToBag(Q)
      /\ global_time = 0 /\ changed = 0 /\ is_alive = Link /\ delay = InitialDelay
  BY DEF Init
<1>2. DOMAIN event_q = Q
  BY <1>1 DEF SetToBag
<1>3. /\ \A l \in Link : InitialDelay[l] <= D
      /\ \A e \in scenario.events : e.type = "changedelay" => e.delay <= D
      /\ \A e \in scenario.events : Listed(e)
  BY <1>1, NetworkAssumption DEF Timely, WellWired
<1>4. \A e \in As : e.type = "alarm"
  BY DEF AlarmEvent
<1>5. ASSUME NEW e \in Ds PROVE e.type = "recv" /\ e.time <= D
  <2>1. PICK u \in Router : \E m \in Hello(u) : e = Delivery(u, m, 0, InitialDelay)
    OBVIOUS
  <2>2. PICK m \in Hello(u) : e = Delivery(u, m, 0, InitialDelay)
    BY <2>1
  <2>3. m.port \in DOMAIN Wire[u]
    BY <2>2 DEF Hello, send_ping
  <2>4. e = Delivery(u, m, 0, delay)
    BY <1>1, <2>2
  <2> DEFINE w == delay[LinkAt(u, m.port)]
  <2>5. w \in Nat /\ w <= D
    BY <1>1, <1>3, <2>3, WireFacts, NetworkAssumption DEF WellWired
  <2>6. e.type = "recv" /\ e.time = 0 + w
    BY <2>3, <2>4, ArrivalFacts
  <2> HIDE DEF w
  <2> QED BY <2>5, <2>6
<1> HIDE DEF As, Ds
<1>6. \A e \in DOMAIN event_q : e.type = "changedelay" => e.delay <= D
  BY <1>2, <1>3, <1>4, <1>5
<1>7. \A e \in DOMAIN event_q : e.type = "recv" => e.time <= D
  BY <1>2, <1>3, <1>4, <1>5 DEF Listed
<1>8. Bounded(D)
  <2>1. global_time + D = D /\ changed <= global_time /\ changed \in Nat
    BY <1>1
  <2>2. /\ is_alive \subseteq Link
        /\ \A l \in Link : delay[l] <= D
        /\ \A e \in DOMAIN event_q : e.type = "recv" => e.time <= global_time + D
    BY <1>1, <1>3, <1>7, <2>1
  <2> QED BY <1>6, <2>1, <2>2 DEF Bounded
<1>9. Fresh(D)
  BY <1>1, <1>8, InitIInv DEF Fresh
<1> QED BY <1>9, FreshTInv

LEMMA NextTInv ==
  ASSUME NEW D \in Nat, 2 * D < CostMod
  PROVE  IInv /\ IInv' /\ TInv(D) /\ [Next]_vars => TInv(D)'
<1> SUFFICES ASSUME IInv, IInv', TInv(D), [Next]_vars PROVE TInv(D)'
  OBVIOUS
<1>1. ASSUME NEW type, NEW e \in Due(type)
      PROVE  /\ e \in DOMAIN event_q /\ e.type = type /\ EventOK(e)
             /\ e.time \in Nat
             /\ e.router \in Router => Sound(Elapsed(e)[e.router], e.router, Wire[e.router])
  <2>1. e \in DOMAIN event_q /\ e.type = type
    BY DEF Due, BagToSet
  <2>2. e.time \in Nat /\ NodesOK(Elapsed(e))
    BY <2>1, ElapsedOK
  <2> QED BY <2>1, <2>2 DEF IInv, NodesOK
<1>2. ASSUME NEW e \in DOMAIN event_q, e.router \in Router, NEW ways,
             \A way \in ways : WayOK(way, e.router) /\ Did(e, Elapsed(e)[e.router], way),
             Dispatch(e, ways, Rearmed(e))
      PROVE  TInv(D)'
  <2>1. PICK way \in ways : \E S : Dispatching(e, way, S)
    BY <1>2, DispatchSums
  <2>2. PICK S : Dispatching(e, way, S)
    BY <2>1
  <2> QED BY <2>2, DispatchTInv
<1>3. CASE HandleAlarm
  <2>1. PICK e \in Due("alarm") :
           Dispatch(e, handle_alarm(Elapsed(e)[e.router], e.router, e.alarm, e.time),
                    {AlarmEvent(e.router, e.alarm, e.time)})
    BY <1>3 DEF HandleAlarm
  <2> DEFINE ways == handle_alarm(Elapsed(e)[e.router], e.router, e.alarm, e.time)
  <2>2. AlarmOK(e) /\ e.router \in Router /\ e.alarm \in DOMAIN Period
    BY <1>1 DEF EventOK, Listed, AlarmOK, RecvOK
  <2>3. \A way \in ways : WayOK(way, e.router)
    BY <1>1, <2>2, AlarmHandled
  <2>4. \A way \in ways : Did(e, Elapsed(e)[e.router], way)
    BY <1>1, <2>2, AlarmDid
  <2>5. Rearmed(e) = {AlarmEvent(e.router, e.alarm, e.time)}
    BY <1>1 DEF Rearmed
  <2> HIDE DEF ways
  <2>6. Dispatch(e, ways, Rearmed(e))
    BY <2>1, <2>5 DEF ways
  <2> QED BY <1>1, <1>2, <2>2, <2>3, <2>4, <2>6
<1>4. CASE RecvPacket
  <2>1. PICK e \in Due("recv") :
           Dispatch(e, recv(Elapsed(e)[e.router], e.router, e.port, e.pkt, e.time), {})
    BY <1>4 DEF RecvPacket
  <2> DEFINE ways == recv(Elapsed(e)[e.router], e.router, e.port, e.pkt, e.time)
  <2>2. RecvOK(e) /\ e.router \in Router
    BY <1>1 DEF EventOK, Listed, AlarmOK, RecvOK
  <2>3. \A way \in ways : WayOK(way, e.router)
    BY <1>1, <2>2, RecvHandled DEF RecvOK
  <2>4. \A way \in ways : Did(e, Elapsed(e)[e.router], way)
    BY <1>1, <2>2, RecvDid
  <2>5. Rearmed(e) = {}
    BY <1>1 DEF Rearmed
  <2> HIDE DEF ways
  <2>6. Dispatch(e, ways, Rearmed(e))
    BY <2>1, <2>5 DEF ways
  <2> QED BY <1>1, <1>2, <2>2, <2>3, <2>4, <2>6
<1>5. CASE XmitEndToEnd
  <2>1. PICK e \in Due("xmit") :
           Dispatch(e, recv(Elapsed(e)[e.router], e.router, SPECIAL_PORT, e.pkt, e.time), {})
    BY <1>5 DEF XmitEndToEnd
  <2> DEFINE ways == recv(Elapsed(e)[e.router], e.router, SPECIAL_PORT, e.pkt, e.time)
  <2>2. e.router \in Router /\ e.pkt.type = "DATA" /\ e.type = "xmit"
    BY <1>1 DEF EventOK, Listed, AlarmOK, RecvOK
  <2>3. \A way \in ways : WayOK(way, e.router)
    BY <1>1, <2>2, DataHandled
  <2>4. \A way \in ways : way.node = Elapsed(e)[e.router] /\ NoPings(way)
    BY <1>1, <2>2, DataDid
  <2>5. \A way \in ways : Did(e, Elapsed(e)[e.router], way)
    BY <2>2, <2>4 DEF Did, IsAlarm
  <2>6. Rearmed(e) = {}
    BY <1>1 DEF Rearmed
  <2> HIDE DEF ways
  <2>7. Dispatch(e, ways, Rearmed(e))
    BY <2>1, <2>6 DEF ways
  <2> QED BY <1>1, <1>2, <2>2, <2>3, <2>5, <2>7
<1>6. CASE LinkDies
  <2>1. PICK e \in Due("linkdying") :
           ChangeLink(e) /\ is_alive' = is_alive \ {e.link} /\ delay' = delay
    BY <1>6 DEF LinkDies
  <2> QED BY <1>1, <2>1, ChangeTInv DEF TInv, Bounded
<1>7. CASE LinkComesUp
  <2>1. PICK e \in Due("linkcomingup") :
           ChangeLink(e) /\ is_alive' = is_alive \cup {e.link} /\ delay' = delay
    BY <1>7 DEF LinkComesUp
  <2>2. e.link \in Link
    BY <1>1 DEF EventOK, Listed, AlarmOK, RecvOK
  <2> QED BY <1>1, <2>1, <2>2, ChangeTInv DEF TInv, Bounded
<1>8. CASE ChangeDelay
  <2>1. PICK e \in Due("changedelay") :
           /\ ChangeLink(e) /\ is_alive' = is_alive
           /\ delay' = [delay EXCEPT ![e.link] = e.delay]
    BY <1>8 DEF ChangeDelay
  <2>2. e.delay <= D
    BY <1>1 DEF TInv, Bounded
  <2>3. \A l \in Link : delay'[l] <= D
    BY <2>1, <2>2 DEF TInv, Bounded, IInv
  <2> QED BY <1>1, <2>1, <2>3, ChangeTInv DEF TInv, Bounded
<1>9. CASE UNCHANGED vars
  BY <1>9 DEF vars, TInv, Bounded, InTime, Expiring, Rounds, Pinged, KnownUntil,
              PingOf, PongOf, Expiry
<1> QED BY <1>3, <1>4, <1>5, <1>6, <1>7, <1>8, <1>9 DEF Next
--------------------------------------------------------------------------------
(* Long after a change: dead links have expired, and of the PINGs sent on  *)
(* a live link one was answered and has not expired yet.                   *)
LEMMA DeadForgotten ==
  ASSUME NEW D \in Nat, Timely(D), IInv, TInv(D), QuietFor(DETECT),
         NEW u \in Router, NEW x \in DOMAIN node[u].neighbor_table
  PROVE  x \in Router \ {u} /\ {u, x} \in is_alive
<1>1. Sound(node[u], u, Wire[u])
  BY DEF IInv, NodesOK
<1>2. PICK p \in DOMAIN Wire[u] : Wire[u][p] = x /\ LinkAt(u, p) = {u, x}
  BY <1>1, NeighborLink
<1>3. x \in Router /\ x # u
  BY <1>2, NetworkAssumption, WireFacts DEF WellWired
<1>4. ASSUME {u, x} \notin is_alive PROVE FALSE
  <2>1. AlarmsOnce /\ Times /\ changed \in Nat /\ global_time \in Nat
    BY AlarmsAreOnce, TimesFacts DEF IInv, TInv, Bounded
  <2>2. PICK e \in DOMAIN event_q :
           IsAlarm(e, u, "Port") /\ e.time \in Nat /\ global_time <= e.time
    BY <2>1 DEF AlarmsOnce, Times
  <2>3. e.time <= changed + D + PONG_TIMEOUT + TIMEOUT_DURATION
    BY <1>4, <2>2 DEF TInv, Expiring
  <2>4. PONG_TIMEOUT + TIMEOUT_DURATION + D <= DETECT /\ DETECT \in Nat
    BY DEF Timely
  <2>5. global_time > changed + DETECT
    BY DEF QuietFor
  <2> QED BY <2>1, <2>2, <2>3, <2>4, <2>5 DEF Times
<1> QED BY <1>3, <1>4

LEMMA LiveKnown ==
  ASSUME NEW D \in Nat, Timely(D), IInv, TInv(D), QuietFor(DETECT),
         NEW u \in Router, NEW v \in Router \ {u}, {u, v} \in is_alive
  PROVE  /\ v \in DOMAIN node[u].neighbor_table
         /\ node[u].neighbor_table[v].cost = 2 * delay[{u, v}]
<1>1. {u, v} \in Link
  BY DEF TInv, Bounded
<1>2. PICK p \in DOMAIN Wire[u] : {u, v} = {u, Wire[u][p]}
  BY <1>1, NetworkAssumption DEF WellWired
<1>3. Wire[u][p] = v /\ LinkAt(u, p) = {u, v}
  BY <1>2 DEF LinkAt
<1> DEFINE d == delay[LinkAt(u, p)]
<1>4. d \in Nat /\ d <= D
  BY DelayFacts DEF TInv, Bounded
<1> HIDE DEF d
<1>5. AlarmsOnce /\ Times /\ changed \in Nat /\ global_time \in Nat
  BY AlarmsAreOnce, TimesFacts DEF IInv, TInv, Bounded
<1>6. PICK e \in DOMAIN event_q :
         IsAlarm(e, u, "Ping") /\ e.time \in Nat /\ global_time <= e.time
  BY <1>5 DEF AlarmsOnce, Times
<1>7. /\ PING_DURATION + 4 * D <= DETECT /\ DETECT \in Nat /\ PING_DURATION < PONG_TIMEOUT
      /\ global_time > changed + DETECT
  BY DEF Timely, QuietFor
<1> DEFINE x == global_time - 2 * d
<1>8. x \in Nat /\ x <= e.time /\ x >= PING_DURATION /\ x > changed + 2 * D + PING_DURATION
  BY <1>4, <1>5, <1>6, <1>7 DEF Times
<1>9. PICK s \in Before(e.time, PING_DURATION) : s < x /\ s + PING_DURATION >= x
  <2> HIDE DEF x
  <2> QED BY <1>5, <1>6, <1>8, BeforeAny DEF Times
<1>10. s \in Nat
  BY DEF Before
<1>11. s > changed + 2 * D /\ s + 2 * d < global_time
       /\ global_time < s + 2 * d + PONG_TIMEOUT
  BY <1>4, <1>5, <1>7, <1>8, <1>9, <1>10 DEF Times
<1>12. Pinged(u, p, s)
  BY <1>1, <1>3, <1>6, <1>9, <1>11 DEF TInv, Rounds
<1>13. \A f \in DOMAIN event_q : f.time >= global_time
  BY DEF IInv, QueueSound, BagToSet
<1>14. PingOf(u, p, s) \notin DOMAIN event_q
  <2> DEFINE m == [port |-> p, pkt |-> [type |-> "PING", src |-> u, stamp |-> s]]
  <2>1. PingOf(u, p, s) = Delivery(u, m, s, delay) /\ m.port = p
    BY DEF PingOf
  <2> HIDE DEF m
  <2>2. PingOf(u, p, s).time = s + d
    BY <2>1, ArrivalFacts DEF d
  <2> QED BY <1>4, <1>5, <1>10, <1>11, <1>13, <2>2
<1>15. PongOf(u, p, s) \notin DOMAIN event_q
  <2> DEFINE q == get_link_port(v, u)
             m == [port |-> q, pkt |-> [type |-> "PONG", src |-> v, dst |-> u, stamp |-> s]]
  <2>1. PongOf(u, p, s) = Delivery(v, m, s + d, delay) /\ m.port = q
    BY <1>3 DEF PongOf, d
  <2>2. q \in DOMAIN Wire[v] /\ Wire[v][q] = u
    BY <1>3, WireFacts
  <2>3. LinkAt(v, q) = LinkAt(u, p)
    BY <1>3, <2>2 DEF LinkAt
  <2> HIDE DEF m, q
  <2>4. PongOf(u, p, s).time = s + d + d
    BY <2>1, <2>2, <2>3, ArrivalFacts DEF d
  <2> QED BY <1>4, <1>5, <1>10, <1>11, <1>13, <2>4
<1>16. ~(global_time >= Expiry(u, p, s))
  BY <1>4, <1>5, <1>10, <1>11 DEF Expiry, d, Times
<1>17. KnownUntil(u, p, Expiry(u, p, s))
  BY <1>12, <1>14, <1>15, <1>16 DEF Pinged
<1> QED BY <1>3, <1>17 DEF KnownUntil

(* In every network whose times leave room for a delay of D, the routers'  *)
(* neighbours are right so long after a change: each router knows exactly  *)
(* the routers its live links lead to, with what those links cost.  A dead *)
(* link is noticed and a live one is never forgotten between two PONGs,    *)
(* whatever order the events of one instant are dispatched in.             *)
THEOREM NeighborsAlwaysKnown ==
  ASSUME NEW D \in Nat, Timely(D)
  PROVE  Spec => []NeighborsKnown
<1>1. IInv /\ TInv(D) => NeighborsKnown
  <2> SUFFICES ASSUME IInv, TInv(D), QuietFor(DETECT), NEW u \in Router
               PROVE  LET known == node[u].neighbor_table
                      IN  /\ DOMAIN known = DOMAIN Edges[u]
                          /\ \A v \in DOMAIN known : known[v].cost = Edges[u][v]
    BY DEF NeighborsKnown
  <2> DEFINE known == node[u].neighbor_table
             near == {x \in Router \ {u} : {u, x} \in is_alive}
  <2>1. DOMAIN Edges[u] = near /\ \A v \in near : Edges[u][v] = 2 * delay[{u, v}]
    BY DEF Edges
  <2>2. \A x \in DOMAIN known : x \in near
    BY DeadForgotten
  <2>3. \A v \in near : v \in DOMAIN known /\ known[v].cost = 2 * delay[{u, v}]
    BY LiveKnown
  <2> HIDE DEF known, near
  <2>4. DOMAIN known = near /\ \A v \in DOMAIN known : known[v].cost = 2 * delay[{u, v}]
    BY <2>2, <2>3
  <2> QED BY <2>1, <2>4 DEF known
<1>2. Init => TInv(D)
  BY InitTInv
<1>3. IInv /\ IInv' /\ TInv(D) /\ [Next]_vars => TInv(D)'
  BY NextTInv DEF Timely
<1> QED BY <1>1, <1>2, <1>3, Invariance, PTL DEF Spec
================================================================================
