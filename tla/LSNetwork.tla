------------------------------- MODULE LSNetwork -------------------------------
(***************************************************************************)
(* Routers that run the link-state protocol, in the simulator, as in       *)
(* DVNetwork.                                                              *)
(***************************************************************************)
EXTENDS LSImpl, RouterPackets, CheapestPaths, Bags

CONSTANTS Wire, InitialDelay, MaxLost, LossEnd, Scenarios,
          PING_DURATION, LS_DURATION, TIMEOUT_DURATION,
          DETECT,             \* after so long without a change the neighbours are known
          SETTLE              \* after so long without a change the graphs are right

VARIABLES scenario, node, event_q, global_time, is_alive, delay, lost, changed

Period == [Ping |-> PING_DURATION, Port |-> TIMEOUT_DURATION, LS |-> LS_DURATION]

Hello(self) == send_ping(self, DOMAIN Wire[self], 0)

(* How a handler ends: its tables, and the LSPs it sent.                   *)
Ended(r) ==
  [node |-> r.node,
   out  |-> {[port |-> m.port, pkt |-> [type |-> "LS", lsp |-> m.lsp]] : m \in r.out}]

recv(n, self, port, msg, t) ==
  CASE msg.type = "PING" -> {[node |-> n, out |-> recv_ping_send_pong(self, port, msg)]}
    [] msg.type = "PONG" -> IF msg.dst # self THEN {[node |-> n, out |-> {}]}
                            ELSE {Ended(r) : r \in recv_pong_LS(n, self, port, msg.src, RTT(msg, t))}
    [] msg.type = "LS"   -> {Ended(recv_LS(n, self, port, msg.lsp))}
    [] msg.type = "DATA" -> {[node |-> n, out |-> forward(n, self, msg)]}

handle_alarm(n, self, alarm, t) ==
  CASE alarm = "Ping" -> {[node |-> n, out |-> send_ping(self, DOMAIN Wire[self], t)]}
    [] alarm = "LS"   -> {Ended(update_LS(n, self, table)) : table \in Tables(n)}
    [] alarm = "Port" -> {Ended(r) : r \in update_timeout_LS(n, self)}

INSTANCE Neighborhood

ASSUME NetworkAssumption == WellWired
ASSUME WireAssumption == \A u \in Router : DOMAIN Wire[u] \subseteq Port
--------------------------------------------------------------------------------
(* SETTLE is enough, when no delay is above D: for LSPs of what was before *)
(* to be passed on by every router, for their edges to expire and for the  *)
(* check that drops them, and for every router to announce its neighbours  *)
(* again.                                                                  *)
Settles(D) ==
  /\ SETTLE \in Nat
  /\ DETECT + D * (1 + Cardinality(Router)) + DV_LS_TIMEOUT + TIMEOUT_DURATION <= SETTLE
  /\ DETECT + LS_DURATION + D <= SETTLE

(* The graphs of a settled network know no edge that is not there, and     *)
(* none with another cost than its link's.                                 *)
GraphsTrue ==
  QuietFor(SETTLE) =>
    \A u, x \in Router : \A y \in DOMAIN node[u].graph[x] :
       y \in DOMAIN Edges[x] /\ node[u].graph[x][y].cost = Edges[x][y]

LSPsOnTheWay == {e \in BagToSet(event_q) : e.type = "recv" /\ e.pkt.type = "LS"}

(* Flooding reaches everyone: when no LSP is on the way any more, each     *)
(* router has had the last LSP of every router it is connected with.       *)
FloodsReachAll ==
  QuietFor(SETTLE) /\ LSPsOnTheWay = {} =>
    \A u, d \in Router :
       u # d /\ Paths(Edges, u, d) # {} =>
         /\ d \in DOMAIN node[u].max_sequence_num
         /\ node[u].max_sequence_num[d] = (node[d].sequence_num - 1) % SEQ_MOD

(* In a settled network no packet goes around in circles: no set of        *)
(* routers sends the packets for a destination only among themselves.      *)
NoLoops ==
  QuietFor(SETTLE) =>
    \A d \in Router : \A S \in SUBSET (Router \ {d}) \ {{}} :
       \E u \in S : \/ d \notin DOMAIN node[u].routing_table
                   \/ node[u].routing_table[d].next_hop \notin S

(* A router with a live link does not live on old tables.  Only LSPs of    *)
(* others make it compute its routes anew, not a change of its own links   *)
(* (update_LS), and a PONG may put in a route to nowhere (recv_pong); but  *)
(* once the network has settled every route of it leads over a live link   *)
(* to its next hop.                                                        *)
RoutesForward ==
  QuietFor(SETTLE) =>
    \A u \in {x \in Router : DOMAIN Edges[x] # {}} :
      \A d \in DOMAIN node[u].routing_table :
        \E p \in recv_data(node[u], u, d) :
           /\ Wire[u][p] = node[u].routing_table[d].next_hop
           /\ LinkAt(u, p) \in is_alive

(* "loop until all the least cost paths to every destination are known"    *)
(* (LSImpl.cc): the routing table of a settled network lists the routers   *)
(* that can be reached, each with its cost and the first hop of one of the *)
(* cheapest paths.                                                         *)
FindsCheapest ==
  QuietFor(SETTLE) =>
    \A u, d \in Router :
      u # d /\ Paths(Edges, u, d) # {} =>
        LET routes == node[u].routing_table
        IN  /\ d \in DOMAIN routes
            /\ CheapestVia(Edges, u, d, routes[d].cost, routes[d].next_hop)
================================================================================
