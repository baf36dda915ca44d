------------------------------ MODULE DijkstraLoop ------------------------------
(***************************************************************************)
(* The loop of update_forwarding_table, one turn at a time, on every graph *)
(* and every set of neighbours of a given family, and what it computes:    *)
(* the cheapest paths, by a definition that enumerates them.               *)
(***************************************************************************)
EXTENDS Dijkstra, CheapestPaths

CONSTANTS root,       \* the router that computes
          Records     \* the routers' records the loop may be run on
ASSUME RootAssumption == root \in Router
(* As in every router running the protocol, neighbours are others, each    *)
(* known by its port, and edges lead to routers.                           *)
ASSUME RecordsAssumption ==
  \A t \in Records :
     /\ "routing_table" \in DOMAIN t
     /\ DOMAIN t.neighbor_table \subseteq Router \ {root}
     /\ \A x \in DOMAIN t.neighbor_table : /\ t.neighbor_table[x].cost \in Cost
                                          /\ t.port_table[t.neighbor_table[x].port] = x
     /\ \A u \in Router : /\ DOMAIN t.graph[u] \subseteq Router
                          /\ \A v \in DOMAIN t.graph[u] : t.graph[u][v].cost \in Cost

(* No path is so long that the sum of its costs is cut: even if it led     *)
(* through every router, with links and edges of the greatest cost.        *)
CostsUpTo(c) ==
  \A t \in Records : /\ \A x \in DOMAIN t.neighbor_table : t.neighbor_table[x].cost <= c
                     /\ \A u \in Router : \A v \in DOMAIN t.graph[u] : t.graph[u][v].cost <= c
RecordsNarrow == \E c \in Cost : c * Cardinality(Router) < CostMod /\ CostsUpTo(c)

VARIABLES record,     \* the record it is run on
          locals      \* the local variables

loopVars == <<record, locals>>

StartLoop == record \in Records /\ locals = Start(record, root)
TakeTurn == /\ locals.minq # {}
            /\ locals' = Turn(locals, record.graph)
            /\ UNCHANGED record
LoopSpec == StartLoop /\ [][TakeTurn]_loopVars /\ WF_loopVars(TakeTurn)
-----------------------------------------------------------------------------
(* The links to the neighbours and the edges of the others.                *)
RecordEdges ==
  [u \in Router |-> IF u = root THEN [x \in DOMAIN record.neighbor_table |->
                                        record.neighbor_table[x].cost]
                    ELSE [x \in DOMAIN record.graph[u] |-> record.graph[u][x].cost]]

(* Distances and next hops are kept for the same routers, the visited ones *)
(* among them.                                                             *)
LocalsOK ==
  /\ DOMAIN locals.distance = DOMAIN locals.next_hop
  /\ locals.visited \subseteq DOMAIN locals.distance /\ DOMAIN locals.distance \subseteq Router
  /\ \A v \in DOMAIN locals.distance : locals.distance[v] \in Cost /\ locals.next_hop[v] \in Router
  /\ locals.minq \subseteq Cost \X Router

(* "loop until all the least cost paths to every destination are known"    *)
(* (LSImpl.cc): the routing table that is stored lists the routers that    *)
(* have a path, each with the cost of its cheapest path and with the first *)
(* hop of a cheapest path.                                                 *)
ComputesCheapest ==
  LET routes == update_forwarding_table(record, root).routing_table
  IN  locals.minq = {} =>
        \A d \in Router \ {root} :
           IF Paths(RecordEdges, root, d) = {} THEN d \notin DOMAIN routes
           ELSE /\ d \in DOMAIN routes
                /\ CheapestVia(RecordEdges, root, d, routes[d].cost, routes[d].next_hop)

(* A router that was visited has its final distance: nothing in the queue  *)
(* is closer, and every edge out of it has been used.                      *)
VisitedIsFinal ==
  \A u \in locals.visited \ {root} :
     /\ \A p \in locals.minq : locals.distance[u] <= p[1]
     /\ \A v \in DOMAIN record.graph[u] :
           /\ v \in DOMAIN locals.distance
           /\ locals.distance[v] <= locals.distance[u] + record.graph[u][v].cost

(* The loop comes to an end, in cycles of the graph too.                   *)
Terminates == <>(locals.minq = {})
=============================================================================
