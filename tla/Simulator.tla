------------------------------- MODULE Simulator -------------------------------
(***************************************************************************)
(* The discrete-event simulator of project3: nodes joined by links, and a  *)
(* queue of events, of which the earliest is dispatched next.  Events of   *)
(* the same time are dispatched in any order: the order is the heap's.     *)
(* What the routers do is a parameter.                                     *)
(*                                                                         *)
(* Node::send puts an event into the queue that is due at once, and which  *)
(* moves the packet to its receiver when the link is alive.  Here xmit     *)
(* does both in one step: such an event can only race with a change of its *)
(* link at the same instant, which may as well come before the handler.    *)
(***************************************************************************)
EXTENDS Integers, FiniteSets, Bags

CONSTANTS Router,              \* the nodes
          Wire,                \* Wire[u][p]: the node at the other end of port p of u
          InitialDelay,        \* of every link; a link is a set of two nodes
          MaxLost, LossEnd,    \* bounds: how many packets are lost, and until when
          Scenarios,           \* what configurations say: see WellWired
          Period,              \* of each of a router's alarms
          NewNode,             \* a router's tables before init
          Age(_, _),           \* a router's tables when so much time has passed
          Hello(_),            \* the packets init sends
          recv(_, _, _, _, _), \* tables, ID, port, packet, time: the ways recv may end
          handle_alarm(_, _, _, _)  \* tables, ID, alarm, time: the ways it may end

Link == DOMAIN InitialDelay
SPECIAL_PORT == -1

(* An event a configuration may list. *)
Listed(e) ==
  /\ e.time \in Nat
  /\ \/ e.type = "xmit" /\ e.router \in Router /\ e.pkt.type = "DATA"
     \/ e.type \in {"linkdying", "linkcomingup"} /\ e.link \in Link
     \/ e.type = "changedelay" /\ e.link \in Link /\ e.delay \in Nat

(* What the configuration has to be: a node has finitely many ports, and   *)
(* every link is at one port of each of its two nodes.  The rest of it     *)
(* differs from run to run: the events it lists, the links that may lose   *)
(* packets, and the time it stops.                                         *)
WellWired ==
  /\ \A u \in Router : IsFiniteSet(DOMAIN Wire[u])
  /\ \A u \in Router : \A p, q \in DOMAIN Wire[u] :
        /\ {u, Wire[u][p]} \in Link /\ Wire[u][p] # u
        /\ Wire[u][p] = Wire[u][q] => p = q
  /\ \A l \in Link : l \subseteq Router
                    /\ \A u \in l : \E p \in DOMAIN Wire[u] : l = {u, Wire[u][p]}
  /\ \A f \in Scenarios : /\ \A e \in f.events : Listed(e)
                          /\ f.lossy \subseteq Link /\ f.stop_time \in Nat \ {0}
  /\ MaxLost \in Nat /\ LossEnd \in Nat
  /\ InitialDelay \in [Link -> Nat]
  /\ \A a \in DOMAIN Period : Period[a] \in Nat \ {0}

VARIABLES scenario,     \* the configuration of this run
          node,         \* the routers' tables
          event_q,      \* the events that are waiting, a bag
          global_time,
          is_alive,     \* the links that are alive
          delay,        \* of each link
          lost,         \* how many packets lossy links have lost
          changed       \* when a link last changed or lost a packet

vars == <<scenario, node, event_q, global_time, is_alive, delay, lost, changed>>

get_link_port(v, u) == CHOOSE p \in DOMAIN Wire[v] : Wire[v][p] = u

LinkAt(u, port) == {u, Wire[u][port]}

(* The event at the other end when u sends a packet at time t.             *)
Delivery(u, m, t, delays) ==
  [type |-> "recv", time |-> t + delays[LinkAt(u, m.port)], router |-> Wire[u][m.port],
   port |-> get_link_port(Wire[u][m.port], u), pkt |-> m.pkt]

AlarmEvent(u, a, t) == [type |-> "alarm", time |-> t + Period[a], router |-> u, alarm |-> a]

UndeadXmit(u, out, t) ==                     \* faulty variant: dead links carry packets
  {[events |-> SetToBag({Delivery(u, m, t, delay) : m \in out}), gone |-> 0]}

(* The ways the packets may fare that u sends at time t.                   *)
xmit(u, out, t) ==
  LET carried == {m \in out : LinkAt(u, m.port) \in is_alive}
      risky   == {m \in carried : t <= LossEnd /\ LinkAt(u, m.port) \in scenario.lossy}
  IN  {[events |-> SetToBag({Delivery(u, m, t, delay) : m \in carried \ gone}),
        gone   |-> Cardinality(gone)] :
         gone \in {S \in SUBSET risky : lost + Cardinality(S) <= MaxLost}}

(* The queue the configuration and the routers' init leave.  Losses are    *)
(* left to the packets of later times.                                     *)
Init ==
  /\ node = [u \in Router |-> NewNode]
  /\ scenario \in Scenarios
  /\ event_q = SetToBag(scenario.events
                \cup {AlarmEvent(u, a, 0) : u \in Router, a \in DOMAIN Period}
                \cup UNION {{Delivery(u, m, 0, InitialDelay) : m \in Hello(u)} : u \in Router})
  /\ global_time = 0
  /\ is_alive = Link
  /\ delay = InitialDelay
  /\ lost = 0 /\ changed = 0

(* What run may take from the queue: its top, until one was after the end. *)
Due(type) ==
  {e \in BagToSet(event_q) : /\ global_time <= scenario.stop_time
                             /\ e.type = type
                             /\ \A f \in BagToSet(event_q) : e.time <= f.time}

(* The routers when event e is dispatched: time has passed until then.     *)
Elapsed(e) == [u \in Router |-> Age(node[u], e.time - global_time)]

(* The router of event e ends its handler in one of ways, which sends      *)
(* packets, and the events more are set.                                   *)
Dispatch(e, ways, more) ==
  \E way \in ways : \E sent \in xmit(e.router, way.out, e.time) :
     /\ node' = [Elapsed(e) EXCEPT ![e.router] = way.node]
     /\ event_q' = (event_q (-) SetToBag({e})) (+) sent.events (+) SetToBag(more)
     /\ lost' = lost + sent.gone
     /\ changed' = IF sent.gone = 0 THEN changed ELSE e.time
     /\ global_time' = e.time
     /\ UNCHANGED <<scenario, is_alive, delay>>

OneShotAlarm ==                              \* faulty variant: no set_alarm
  \E e \in Due("alarm") :
     Dispatch(e, handle_alarm(Elapsed(e)[e.router], e.router, e.alarm, e.time), {})

HandleAlarm ==
  \E e \in Due("alarm") :
     Dispatch(e, handle_alarm(Elapsed(e)[e.router], e.router, e.alarm, e.time),
              {AlarmEvent(e.router, e.alarm, e.time)})

RecvPacket ==
  \E e \in Due("recv") :
     Dispatch(e, recv(Elapsed(e)[e.router], e.router, e.port, e.pkt, e.time), {})

XmitEndToEnd ==
  \E e \in Due("xmit") :
     Dispatch(e, recv(Elapsed(e)[e.router], e.router, SPECIAL_PORT, e.pkt, e.time), {})

(* Event e changes its link and nothing else.                              *)
ChangeLink(e) ==
  /\ node' = Elapsed(e)
  /\ event_q' = event_q (-) SetToBag({e})
  /\ global_time' = e.time /\ changed' = e.time
  /\ UNCHANGED <<scenario, lost>>

LinkDies == \E e \in Due("linkdying") :
  ChangeLink(e) /\ is_alive' = is_alive \ {e.link} /\ UNCHANGED delay

LinkComesUp == \E e \in Due("linkcomingup") :
  ChangeLink(e) /\ is_alive' = is_alive \cup {e.link} /\ UNCHANGED delay

ChangeDelay == \E e \in Due("changedelay") :
  ChangeLink(e) /\ delay' = [delay EXCEPT ![e.link] = e.delay] /\ UNCHANGED is_alive

Next == HandleAlarm \/ RecvPacket \/ XmitEndToEnd \/ LinkDies \/ LinkComesUp \/ ChangeDelay
Spec == Init /\ [][Next]_vars
--------------------------------------------------------------------------------
(* For the properties: what a packet needs there and back between two      *)
(* routers, and whether the network has had the time t to take in changes. *)
Edges == [u \in Router |-> [v \in {x \in Router \ {u} : {u, x} \in is_alive} |->
                              2 * delay[{u, v}]]]
QuietFor(t) == global_time > changed + t

(* Events lie in the future, and each router has each of its alarms set    *)
(* once: never none, when it would stop acting, and never two.             *)
QueueSound ==
  /\ \A e \in BagToSet(event_q) : e.time >= global_time
  /\ \A u \in Router, a \in DOMAIN Period :
        LET set == {e \in BagToSet(event_q) :
                      e.type = "alarm" /\ e.router = u /\ e.alarm = a}
        IN  \E e \in set : /\ set = {e} /\ event_q[e] = 1
                           /\ e.time <= global_time + Period[a]

IsData(e) == e.type \in {"recv", "xmit"} /\ e.pkt.type = "DATA"

(* The DATA events a step dispatches.                                      *)
DataTaken ==
  {e \in BagToSet(event_q) :
     IsData(e) /\ (e \in BagToSet(event_q') => event_q'[e] < event_q[e])}
================================================================================
