-------------------------------- MODULE Dijkstra --------------------------------
(***************************************************************************)
(* update_forwarding_table of the link-state protocol: Dijkstra's          *)
(* algorithm over the edges of graph, started from the links to the        *)
(* neighbours.  A state of its loop is a record of its four local          *)
(* variables; the set visited holds the keys that map to true.  The heap   *)
(* is a set: a pair that is pushed twice is skipped the second time.       *)
(***************************************************************************)
EXTENDS RouterTables, FiniteSets

ASSUME RouterIdAssumption == Router \subseteq Nat /\ IsFiniteSet(Router)

Start(n, self) ==
  LET nb == n.neighbor_table
      known == DOMAIN nb \cup {self}
  IN  [distance |-> [v \in known |-> IF v = self THEN 0 ELSE nb[v].cost],
       next_hop |-> [v \in known |-> IF v = self THEN self ELSE n.port_table[nb[v].port]],
       visited  |-> {self},
       minq     |-> {<<nb[v].cost, v>> : v \in DOMAIN nb}]

LargestTop(minq) == CHOOSE p \in minq :          \* faulty variant: the heap's own order
                      \A q \in minq : p[1] > q[1] \/ (p[1] = q[1] /\ p[2] >= q[2])

(* The pair minq.top() shows: pairs are ordered by cost, then by router. *)
Top(minq) == CHOOSE p \in minq :
               \A q \in minq : p[1] < q[1] \/ (p[1] = q[1] /\ p[2] <= q[2])

PredecessorRelax(s, u, edges) ==                \* faulty variant: next_hop[v] = u
  LET through(v) == s.distance[u] + edges[v].cost
      closer == {v \in DOMAIN edges : \/ v \notin DOMAIN s.distance
                                      \/ s.distance[v] > through(v)}
      cut(v) == through(v) % CostMod
  IN  [s EXCEPT
        !.distance = [v \in DOMAIN @ \cup closer |-> IF v \in closer THEN cut(v) ELSE @[v]],
        !.next_hop = [v \in DOMAIN @ \cup closer |-> IF v \in closer THEN u ELSE @[v]],
        !.minq     = @ \cup {<<cut(v), v>> : v \in closer}]

HoplessRelax(s, u, edges) ==                    \* faulty variant: next_hop is not set
  LET through(v) == s.distance[u] + edges[v].cost
      closer == {v \in DOMAIN edges : \/ v \notin DOMAIN s.distance
                                      \/ s.distance[v] > through(v)}
      cut(v) == through(v) % CostMod
  IN  [s EXCEPT
        !.distance = [v \in DOMAIN @ \cup closer |-> IF v \in closer THEN cut(v) ELSE @[v]],
        !.minq     = @ \cup {<<cut(v), v>> : v \in closer}]

LongestRelax(s, u, edges) ==                    \* faulty variant: "<" for ">"
  LET through(v) == s.distance[u] + edges[v].cost
      closer == {v \in DOMAIN edges : \/ v \notin DOMAIN s.distance
                                      \/ s.distance[v] < through(v)}
      cut(v) == through(v) % CostMod
  IN  [s EXCEPT
        !.distance = [v \in DOMAIN @ \cup closer |-> IF v \in closer THEN cut(v) ELSE @[v]],
        !.next_hop = [v \in DOMAIN @ \cup closer |-> IF v \in closer THEN @[u] ELSE @[v]],
        !.minq     = @ \cup {<<cut(v), v>> : v \in closer}]

(* "distance[v] > distance[u] + w" compares the whole sum, the assignment  *)
(* cuts it to 16 bits.                                                     *)
Relax(s, u, edges) ==
  LET through(v) == s.distance[u] + edges[v].cost
      closer == {v \in DOMAIN edges : \/ v \notin DOMAIN s.distance
                                      \/ s.distance[v] > through(v)}
      cut(v) == through(v) % CostMod
  IN  [s EXCEPT
        !.distance = [v \in DOMAIN @ \cup closer |-> IF v \in closer THEN cut(v) ELSE @[v]],
        !.next_hop = [v \in DOMAIN @ \cup closer |-> IF v \in closer THEN @[u] ELSE @[v]],
        !.minq     = @ \cup {<<cut(v), v>> : v \in closer}]

(* One turn of the loop "while (!minq.empty())". *)
UnpoppedTurn(s, graph) ==                       \* faulty variant: "continue" before pop()
  LET u == Top(s.minq)[2]
      popped == [s EXCEPT !.minq = @ \ {Top(@)}]
  IN  IF u \in s.visited THEN s
      ELSE Relax([popped EXCEPT !.visited = @ \cup {u}], u, graph[u])

Turn(s, graph) ==
  LET u == Top(s.minq)[2]
      popped == [s EXCEPT !.minq = @ \ {Top(@)}]
  IN  IF u \in s.visited THEN popped
      ELSE Relax([popped EXCEPT !.visited = @ \cup {u}], u, graph[u])

(* Every router is visited once and pushes every other one at most.        *)
MaxTurns == Cardinality(Router) * Cardinality(Router)

Loop(n, self) ==
  LET after[k \in Nat] ==
        IF k = 0 THEN Start(n, self)
        ELSE LET s == after[k - 1] IN IF s.minq = {} THEN s ELSE Turn(s, n.graph)
  IN  after[MaxTurns]

KeepingUpdate(n, self) ==                       \* faulty variant: no routing_table.clear()
  LET end == Loop(n, self)
  IN  [n EXCEPT !.routing_table =
         [v \in (DOMAIN @ \cup DOMAIN end.distance) \ {self} |->
            IF v \in DOMAIN end.distance
            THEN [cost |-> end.distance[v], next_hop |-> end.next_hop[v]] ELSE @[v]]]

update_forwarding_table(n, self) ==
  LET end == Loop(n, self)
  IN  [n EXCEPT !.routing_table =
         [v \in DOMAIN end.distance \ {self} |->
            [cost |-> end.distance[v], next_hop |-> end.next_hop[v]]]]
=============================================================================
