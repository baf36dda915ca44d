------------------------------- MODULE DVRouter -------------------------------
(***************************************************************************)
(* One router running the distance-vector protocol, driven by its alarms   *)
(* and by whatever its neighbours may send: PONGs with any measured cost   *)
(* and DV packets with any table a neighbour may hold.  The steps are the  *)
(* events the simulator dispatches to this router; each runs its handler   *)
(* to completion.  Time is counted in units of the shortest alarm period.  *)
(***************************************************************************)
EXTENDS DVProImp

CONSTANTS self,               \* this router
          Peer,               \* the router at the other end of each port
          RTTs,               \* round-trip times a PONG may measure
          Adverts,            \* tables a DV packet may carry
          PING_DURATION, DV_DURATION, TIMEOUT_DURATION

ASSUME SelfAssumption == self \in Router
ASSUME PeerAssumption == /\ Peer \in [Port -> Router \ {self}]
                         /\ \A p, q \in Port : Peer[p] = Peer[q] => p = q
ASSUME RTTAssumption == RTTs \subseteq Cost
ASSUME AdvertsAssumption == \A e \in Adverts : e \in PMap(Router, Cost)
ASSUME PeriodAssumption == {PING_DURATION, DV_DURATION, TIMEOUT_DURATION} \subseteq Nat \ {0}

VARIABLES node,     \* the router's tables
          alarm,    \* time left until each of its alarms fires
          sending,  \* whether the last event sent DV packets
          quiet     \* the links are cut: nothing arrives any more

vars == <<node, alarm, sending, quiet>>

Period == [Ping |-> PING_DURATION, Port |-> TIMEOUT_DURATION, DV |-> DV_DURATION]
Alarms == DOMAIN Period

(* A neighbour's DV packet lists its receiver and never its sender. *)
AdvertsFrom(src) == {e \in Adverts : self \in DOMAIN e /\ src \notin DOMAIN e}

Init == /\ node = NewNode
        /\ alarm = Period
        /\ sending = FALSE
        /\ quiet = FALSE

Result(r) == node' = r.node /\ sending' = r.send

RecvPong(port) ==
  /\ ~quiet
  /\ \E RTT \in RTTs : Result(recv_pong_DV(node, port, Peer[port], RTT))
  /\ UNCHANGED <<alarm, quiet>>

RecvDV(port) ==
  /\ ~quiet
  /\ \E e \in AdvertsFrom(Peer[port]) : Result(recv_DV(node, self, port, Peer[port], e))
  /\ UNCHANGED <<alarm, quiet>>

(* handle_alarm: the handler of the alarm that is due, then set_alarm. *)
HandleAlarm(a) ==
  /\ alarm[a] = 0
  /\ Result(IF a = "Port" THEN update_timeout_DV(node)
            ELSE [node |-> node, send |-> a = "DV"])
  /\ alarm' = [alarm EXCEPT ![a] = Period[a]]
  /\ UNCHANGED quiet

(* The simulator's clock moves on once every event that is due is done. *)
Tick ==
  /\ \A a \in Alarms : alarm[a] > 0
  /\ node' = Age(node, 1)
  /\ alarm' = [a \in Alarms |-> alarm[a] - 1]
  /\ sending' = FALSE
  /\ UNCHANGED quiet

CutOff == ~quiet /\ quiet' = TRUE /\ UNCHANGED <<node, alarm, sending>>

Next == \/ \E p \in Port : RecvPong(p) \/ RecvDV(p)
        \/ \E a \in Alarms : HandleAlarm(a)
        \/ Tick
        \/ CutOff

Fairness == WF_vars(Tick) /\ \A a \in Alarms : WF_vars(HandleAlarm(a))
Spec == Init /\ [][Next]_vars
FairSpec == Spec /\ Fairness
-----------------------------------------------------------------------------
(* Every field of the tables keeps its type and every alarm is armed. *)
TypeOK == /\ node \in Node
          /\ alarm \in [Alarms -> Nat]
          /\ sending \in BOOLEAN
          /\ quiet \in BOOLEAN

(* A DATA packet for a destination in the routing table always leaves on   *)
(* one port, and that port leads to the next hop: recv_data never finds a  *)
(* route whose next hop is missing from the neighbour table (where it      *)
(* would keep the packet and forward nothing).                             *)
RoutesForward ==
  \A d \in DOMAIN node.routing_table :
     \E p \in Port : /\ recv_data(node, self, d) = {p}
                     /\ Peer[p] = node.routing_table[d].next_hop

(* Every timer of DV_time has its route: refresh dereferences the route it *)
(* finds for a timer without checking that there is one.  Every route has  *)
(* its timer: a route without one would never expire.                      *)
TimersMatchRoutes == DOMAIN node.DV_time = DOMAIN node.routing_table

(* What RecvDV takes for granted of the neighbours, this router grants     *)
(* them: each of them is sent a packet that lists the neighbour itself     *)
(* (recv reads the entry of its own ID without looking whether it is       *)
(* there), never lists its sender, and leaves on the neighbour's port.     *)
AdvertsWellFormed ==
  /\ {m.dest : m \in send(node)} = DOMAIN node.neighbor_table
  /\ \A m \in send(node) : /\ m.dest \in DOMAIN m.entries
                           /\ self \notin DOMAIN m.entries
                           /\ Peer[m.port] = m.dest

(* The port map and the neighbour table stay inverse to each other: recv   *)
(* looks the sender of a DV packet up through both without a check.        *)
PortsMatchNeighbors ==
  /\ \A p \in DOMAIN node.port_table :
        /\ node.port_table[p] = Peer[p]
        /\ Peer[p] \in DOMAIN node.neighbor_table
  /\ \A x \in DOMAIN node.neighbor_table :
        /\ node.neighbor_table[x].port \in DOMAIN node.port_table
        /\ Peer[node.neighbor_table[x].port] = x

(* Triggered updates: an event that changes the routing table also sends   *)
(* the DV packets, whichever of the handlers changed it.                   *)
TriggeredUpdate == [][node'.routing_table # node.routing_table => sending']_vars

(* A router that is cut off forgets every neighbour and every route, the   *)
(* direct routes that refresh keeps young included.                        *)
Forgets == quiet ~> /\ DOMAIN node.neighbor_table = {}
                    /\ DOMAIN node.routing_table = {}
-----------------------------------------------------------------------------
(* The route a router uses over the link to a neighbour costs what the     *)
(* link costs: "Link cost is the same as round-trip-time" (global.h).      *)
DirectRouteCostsRTT ==
  \A x \in DOMAIN node.neighbor_table \cap DOMAIN node.routing_table :
     node.routing_table[x].next_hop = x =>
        node.routing_table[x].cost = node.neighbor_table[x].cost
=============================================================================
