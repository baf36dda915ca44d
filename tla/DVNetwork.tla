------------------------------- MODULE DVNetwork -------------------------------
(***************************************************************************)
(* Routers that run the distance-vector protocol, in the simulator: every  *)
(* packet one of them gets was sent by another, and took the delay of its  *)
(* link.  Times are milliseconds.                                          *)
(***************************************************************************)
EXTENDS DVProImp, RouterPackets, CheapestPaths, Bags

CONSTANTS Wire, InitialDelay, MaxLost, LossEnd, Scenarios,
          PING_DURATION, DV_DURATION, TIMEOUT_DURATION,
          DETECT,             \* after so long without a change the neighbours are known
          SETTLE              \* after so long without a change the routes are right

VARIABLES scenario, node, event_q, global_time, is_alive, delay, lost, changed

Period == [Ping |-> PING_DURATION, Port |-> TIMEOUT_DURATION, DV |-> DV_DURATION]

Hello(self) == send_ping(self, DOMAIN Wire[self], 0)

(* How a handler ends: its tables, and the DV packets if it called send(). *)
Ended(r, self) ==
  {[node |-> r.node,
    out  |-> {[port |-> m.port, pkt |-> [type |-> "DV", src |-> self, entries |-> m.entries]] :
                m \in IF r.send THEN send(r.node) ELSE {}}]}

recv(n, self, port, msg, t) ==
  CASE msg.type = "PING" -> {[node |-> n, out |-> recv_ping_send_pong(self, port, msg)]}
    [] msg.type = "PONG" -> IF msg.dst # self THEN {[node |-> n, out |-> {}]}
                            ELSE Ended(recv_pong_DV(n, port, msg.src, RTT(msg, t)), self)
    [] msg.type = "DV"   -> Ended(recv_DV(n, self, port, msg.src, msg.entries), self)
    [] msg.type = "DATA" -> {[node |-> n, out |-> forward(n, self, msg)]}

QuietHandleAlarm(n, self, alarm, t) ==   \* faulty variant: no periodic DV packets
  CASE alarm = "Ping" -> {[node |-> n, out |-> send_ping(self, DOMAIN Wire[self], t)]}
    [] alarm = "DV"   -> {[node |-> n, out |-> {}]}
    [] alarm = "Port" -> Ended(update_timeout_DV(n), self)

handle_alarm(n, self, alarm, t) ==
  CASE alarm = "Ping" -> {[node |-> n, out |-> send_ping(self, DOMAIN Wire[self], t)]}
    [] alarm = "DV"   -> Ended([node |-> n, send |-> TRUE], self)
    [] alarm = "Port" -> Ended(update_timeout_DV(n), self)

INSTANCE Neighborhood

ASSUME NetworkAssumption == WellWired
ASSUME WireAssumption == \A u \in Router : DOMAIN Wire[u] \subseteq Port
--------------------------------------------------------------------------------
(* Once the links have been as they are for a while, every router has the  *)
(* routes it should have: to each router that can be reached, over a       *)
(* neighbour on one of the cheapest paths and with its cost, and to no     *)
(* other.                                                                  *)
FindsCheapest ==
  QuietFor(SETTLE) =>
    \A u \in Router : \A d \in Router \ {u} :
      LET routes == node[u].routing_table
      IN  IF Paths(Edges, u, d) = {} THEN d \notin DOMAIN routes
          ELSE /\ d \in DOMAIN routes
               /\ CheapestVia(Edges, u, d, routes[d].cost, routes[d].next_hop)

(* At all times, whatever has just changed or is on its way, a router      *)
(* forwards a DATA packet for a destination it knows on exactly one port,  *)
(* and the wire of that port leads to the next hop of the route: dropping  *)
(* a neighbour, taking in its packets and expiring routes never leave a    *)
(* route behind whose next hop recv_data does not find.                    *)
RoutesForward ==
  \A u \in Router : \A d \in DOMAIN node[u].routing_table :
     \E p \in DOMAIN Wire[u] : /\ recv_data(node[u], u, d) = {p}
                              /\ Wire[u][p] = node[u].routing_table[d].next_hop

(* What DVRouter takes for granted of its neighbours holds of every DV     *)
(* packet in flight, however old: it comes in on the port of its sender,   *)
(* lists its receiver, whose entry recv reads without looking whether it   *)
(* is there, and does not list its sender.                                 *)
AdvertsWellFormed ==
  \A e \in BagToSet(event_q) : e.type = "recv" /\ e.pkt.type = "DV" =>
     /\ e.pkt.src = Wire[e.router][e.port]
     /\ e.router \in DOMAIN e.pkt.entries
     /\ e.pkt.src \notin DOMAIN e.pkt.entries

(* A DATA packet that a router gets in a settled network leaves at once to *)
(* the next router of one of the cheapest paths to where it has to go,     *)
(* unless the link loses it.                                               *)
DataOnCourse ==
  [][QuietFor(SETTLE) /\ lost' = lost =>
       \A e \in DataTaken : \A p \in Paths(Edges, e.router, e.pkt.dst) :
          e.router # e.pkt.dst =>
            \E f \in BagToSet(event_q') :
               /\ f.type = "recv" /\ f.pkt = e.pkt
               /\ f.time = e.time + delay[{e.router, f.router}]
               /\ \E q \in Paths(Edges, e.router, e.pkt.dst) :
                     q[2] = f.router /\ PathCost(Edges, q) <= PathCost(Edges, p)]_vars

(* A router to which no path is left is forgotten by all.                  *)
ForgetsUnreachable ==
  QuietFor(SETTLE) =>
    \A u \in Router : \A d \in DOMAIN node[u].routing_table : Paths(Edges, u, d) # {}

(* What poison reverse is for: no two neighbours route a destination over  *)
(* each other, not even between a change and the packets that tell of it.  *)
(* It does not hold: when both lose their own route and the packets each   *)
(* then sends cross on the wire, each takes the other's old route.         *)
NoPingPong ==
  \A u, v \in Router : \A d \in DOMAIN node[u].routing_table \cap DOMAIN node[v].routing_table :
     ~ /\ u # v
       /\ node[u].routing_table[d].next_hop = v
       /\ node[v].routing_table[d].next_hop = u
================================================================================
