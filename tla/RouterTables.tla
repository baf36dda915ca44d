----------------------------- MODULE RouterTables -----------------------------
(***************************************************************************)
(* The tables one router of project3 keeps and the part of                 *)
(* RoutingProtocolImpl that both routing protocols share: learning a       *)
(* neighbour from a PONG, finding the neighbours that fell silent, and     *)
(* choosing the port of a DATA packet.                                     *)
(*                                                                         *)
(* A router is a record n whose fields carry the names of the source.  An  *)
(* unordered_map is a function whose DOMAIN is the set of keys present.    *)
(* An instant stored in a table (sys->time() + timeout) is kept as the     *)
(* time left until it, so "sys->time() >= t" reads "t = 0"; the clock is   *)
(* then the operator Age, which takes what has passed off every instant.   *)
(***************************************************************************)
EXTENDS Integers, Functions

CONSTANTS Router,        \* router IDs
          NoRouter,      \* the ID 0 of a value-initialised entry; no router has it
          Port,          \* port numbers, 0 among them
          CostMod,       \* 2^16: costs are unsigned shorts
          PONG_TIMEOUT   \* life of a neighbour entry without a PONG

ASSUME NoRouterAssumption == NoRouter \notin Router
ASSUME PortAssumption == 0 \in Port /\ Port \subseteq Nat
ASSUME CostModAssumption == CostMod \in Nat \ {0}
ASSUME PongTimeoutAssumption == PONG_TIMEOUT \in Nat \ {0}

Cost == 0 .. CostMod - 1
INFINITY_COST == CostMod - 1

(***************************************************************************)
(* Maps.  PMap(K, V): the maps from some keys of K to values of V.         *)
(* Put is m[k] = v; Touch is what reading m[k] does, which inserts the     *)
(* value-initialised entry zero when the key is absent; Erase removes the  *)
(* keys of S.                                                              *)
(***************************************************************************)
PMap(K, V) == UNION {[D -> V] : D \in SUBSET K}
EmptyMap == [x \in {} |-> x]
Put(m, k, v) == [x \in DOMAIN m \cup {k} |-> IF x = k THEN v ELSE m[x]]
Touch(m, k, zero) == IF k \in DOMAIN m THEN m ELSE Put(m, k, zero)
Erase(m, S) == Restrict(m, DOMAIN m \ S)

Neighbor == [cost : Cost, port : Port, timeout : 0 .. PONG_TIMEOUT]
Route == [cost : Cost, next_hop : Router \cup {NoRouter}]

ZeroNeighbor == [cost |-> 0, port |-> 0, timeout |-> 0]
ZeroRoute == [cost |-> 0, next_hop |-> NoRouter]
DirectRoute(n, x) == [cost |-> n.neighbor_table[x].cost, next_hop |-> x]

(***************************************************************************)
(* recv_pong up to the switch on the protocol, for a PONG whose            *)
(* destination is this router: the tables, the old cost read from the      *)
(* routing table, and whether the protocol has to be told.                 *)
(***************************************************************************)
StalePong(n, port, src, RTT) ==             \* faulty variant: only a new cost is stored
  LET known  == port \in DOMAIN n.port_table /\ n.port_table[port] \in DOMAIN n.neighbor_table
      same   == known /\ n.neighbor_table[n.port_table[port]].cost = RTT
      entry  == [cost |-> RTT, port |-> port, timeout |-> PONG_TIMEOUT]
  IN  [node   |-> IF same THEN n
                  ELSE [n EXCEPT !.neighbor_table = Put(@, src, entry),
                                 !.port_table = Touch(@, port, src)],
       oldRTT |-> IF known THEN Touch(n.routing_table, src, ZeroRoute)[src].cost ELSE 0,
       update |-> ~same]

recv_pong(n, port, src, RTT) ==
  LET known  == port \in DOMAIN n.port_table
      before == IF known
                THEN Touch(n.neighbor_table, n.port_table[port], ZeroNeighbor)
                ELSE n.neighbor_table
      routes == IF known THEN Touch(n.routing_table, src, ZeroRoute)
                         ELSE n.routing_table
      entry  == [cost |-> RTT, port |-> port, timeout |-> PONG_TIMEOUT]
  IN  [node   |-> [n EXCEPT !.neighbor_table = Put(before, src, entry),
                            !.port_table = Touch(@, port, src),
                            !.routing_table = routes],
       oldRTT |-> IF known THEN routes[src].cost ELSE 0,
       update |-> known => before[n.port_table[port]].cost # RTT]

(* The neighbours update_timeout finds expired, and the tables without them. *)
Silent(n) == {x \in DOMAIN n.neighbor_table : n.neighbor_table[x].timeout = 0}

PortKeepingDropNeighbors(n, toErase) ==     \* faulty variant: the ports stay
  [n EXCEPT !.neighbor_table = Erase(@, toErase)]

DropNeighbors(n, toErase) ==
  [n EXCEPT !.port_table = Erase(@, {n.neighbor_table[x].port : x \in toErase}),
            !.neighbor_table = Erase(@, toErase)]

NeighborRecvData(n, self, dest) ==          \* faulty variant: a neighbour is sent to directly
  {n.neighbor_table[x].port :
     x \in {y \in DOMAIN n.neighbor_table : /\ dest # self
                                            /\ dest \in DOMAIN n.routing_table
                                            /\ \/ dest = y
                                               \/ /\ dest \notin DOMAIN n.neighbor_table
                                                  /\ n.routing_table[dest].next_hop = y}}

(* The ports recv_data sends a packet for dest on: one, or none when it is *)
(* for this router, has no route, or its next hop is not a neighbour.      *)
recv_data(n, self, dest) ==
  {n.neighbor_table[x].port :
     x \in {y \in DOMAIN n.neighbor_table : /\ dest # self
                                            /\ dest \in DOMAIN n.routing_table
                                            /\ n.routing_table[dest].next_hop = y}}

(* What is left of t after d units of time. *)
Elapse(t, d) == IF t <= d THEN 0 ELSE t - d
=============================================================================
