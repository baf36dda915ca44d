---------------------------- MODULE DVTablesProofs ----------------------------
(***************************************************************************)
(* Lemmas about the map operators of RouterTables and about the methods of *)
(* DVProImp, each for one method: what it does to a well-formed router.    *)
(***************************************************************************)
EXTENDS DVProImp, TLAPS

(* A function from some keys of K to V is a map, and conversely. *)
LEMMA MapIntro == ASSUME NEW K, NEW V, NEW D \in SUBSET K, NEW m \in [D -> V]
                  PROVE  m \in PMap(K, V)
BY DEF PMap

LEMMA MapElim == ASSUME NEW K, NEW V, NEW m \in PMap(K, V)
                 PROVE  DOMAIN m \subseteq K /\ m \in [DOMAIN m -> V]
BY DEF PMap

(* m[k] = v keeps a map a map, and so does erasing keys. *)
LEMMA PutMap == ASSUME NEW K, NEW V, NEW m \in PMap(K, V), NEW k \in K, NEW v \in V
                PROVE  Put(m, k, v) \in PMap(K, V)
<1>1. Put(m, k, v) \in [DOMAIN m \cup {k} -> V]
  BY MapElim DEF Put
<1> QED BY <1>1, MapElim, MapIntro

LEMMA EraseMap == ASSUME NEW K, NEW V, NEW m \in PMap(K, V), NEW S
                  PROVE  Erase(m, S) \in PMap(K, V)
<1>1. Erase(m, S) \in [DOMAIN m \ S -> V]
  BY MapElim DEF Erase, Restrict
<1> QED BY <1>1, MapElim, MapIntro

-----------------------------------------------------------------------------
(***************************************************************************)
(* What the methods keep of the tables of the router self.  Settled drops  *)
(* the two clauses that a change of the neighbour table breaks for a       *)
(* moment, until the routes have been brought in line with it.             *)
(***************************************************************************)
Settled(n, self) ==
  /\ n \in Node
  /\ DOMAIN n.DV_time = DOMAIN n.routing_table
  /\ self \notin DOMAIN n.routing_table

Routed(n, self) ==
  /\ Settled(n, self)
  /\ DOMAIN n.neighbor_table \subseteq DOMAIN n.routing_table
  /\ \A x \in DOMAIN n.routing_table :
        n.routing_table[x].next_hop \in DOMAIN n.neighbor_table

SameLinks(n, m) == m.neighbor_table = n.neighbor_table /\ m.port_table = n.port_table

(* A change of the routes leaves IsUpdated false, and nobody sets it true. *)
Marks(n, m) == /\ m.routing_table # n.routing_table => ~m.IsUpdated
               /\ ~n.IsUpdated => ~m.IsUpdated

LEMMA NodeFields ==
  ASSUME NEW n \in Node
  PROVE  /\ n.neighbor_table \in PMap(Router, Neighbor)
         /\ n.port_table \in PMap(Port, Router)
         /\ n.routing_table \in PMap(Router, Route)
         /\ n.DV_time \in PMap(Router, 0 .. DV_LS_TIMEOUT)
         /\ n.IsUpdated \in BOOLEAN
BY DEF Node

(* The direct route to a neighbour is a route. *)
LEMMA DirectRouteType ==
  ASSUME NEW n \in Node, NEW x \in DOMAIN n.neighbor_table
  PROVE  /\ x \in Router
         /\ DirectRoute(n, x) \in Route
         /\ DirectRoute(n, x).next_hop = x
<1>1. x \in Router /\ n.neighbor_table[x] \in Neighbor
  BY NodeFields, MapElim
<1> QED BY <1>1 DEF DirectRoute, Route, Neighbor

(* Flush leaves the tables alone and sends exactly what is marked. *)
LEMMA FlushTables ==
  ASSUME NEW self, NEW n, Routed(n, self)
  PROVE  /\ Routed(Flush(n).node, self)
         /\ SameLinks(n, Flush(n).node)
         /\ Flush(n).node.routing_table = n.routing_table
         /\ Flush(n).send = ~n.IsUpdated
BY DEF Flush, Routed, Settled, SameLinks, Node

(* SetDirect: the direct route to a neighbour and its timer are set. *)
LEMMA SetDirectRouted ==
  ASSUME NEW self, NEW n, Settled(n, self),
         NEW id \in DOMAIN n.neighbor_table, id # self,
         DOMAIN n.neighbor_table \ {id} \subseteq DOMAIN n.routing_table,
         \A x \in DOMAIN n.routing_table :
            n.routing_table[x].next_hop \in DOMAIN n.neighbor_table,
         NEW RTT \in Cost
  PROVE  Routed(SetDirect(n, id, RTT), self) /\ SameLinks(n, SetDirect(n, id, RTT))
<1> DEFINE m == SetDirect(n, id, RTT)
           route == [cost |-> RTT, next_hop |-> id]
           R == Put(n.routing_table, id, route)
           T == Put(n.DV_time, id, DV_LS_TIMEOUT)
<1>1. n \in Node /\ id \in Router
  BY NodeFields, MapElim DEF Settled
<1>2. route \in Route /\ route.next_hop = id
  BY <1>1 DEF Route
<1>3. R \in PMap(Router, Route)
  <2>1. n.routing_table \in PMap(Router, Route)
    BY <1>1, NodeFields
  <2> QED BY <1>1, <1>2, <2>1, PutMap
<1>4. T \in PMap(Router, 0 .. DV_LS_TIMEOUT)
  <2>1. n.DV_time \in PMap(Router, 0 .. DV_LS_TIMEOUT)
    BY <1>1, NodeFields
  <2>2. DV_LS_TIMEOUT \in 0 .. DV_LS_TIMEOUT
    BY DVTimeoutAssumption
  <2> QED BY <1>1, <2>1, <2>2, PutMap
<1>5. m = [n EXCEPT !.routing_table = R, !.DV_time = T, !.IsUpdated = n.IsUpdated]
  BY <1>1 DEF SetDirect, Node
<1> HIDE DEF m
<1>6. m \in Node /\ SameLinks(n, m) /\ m.routing_table = R /\ m.DV_time = T
  <2>1. n.IsUpdated \in BOOLEAN
    BY <1>1, NodeFields
  <2> HIDE DEF R, T
  <2> QED BY <1>1, <1>3, <1>4, <1>5, <2>1 DEF Node, SameLinks
<1>7. Routed(m, self)
  BY <1>2, <1>6 DEF Routed, Settled, SameLinks, Put
<1> QED
  BY <1>6, <1>7 DEF m

(* ShiftRoutes: the costs of some routes change, and some become direct. *)
LEMMA ShiftRoutesRouted ==
  ASSUME NEW self, NEW n, Routed(n, self), NEW id, NEW difference \in Cost
  PROVE  /\ Routed(ShiftRoutes(n, id, difference), self)
         /\ SameLinks(n, ShiftRoutes(n, id, difference))
<1> DEFINE via(x) == n.routing_table[x].next_hop = id
           shifted(x) == IF via(x) THEN (n.routing_table[x].cost + difference) % CostMod
                                   ELSE n.routing_table[x].cost
           closer(x) == /\ x \in DOMAIN n.neighbor_table
                        /\ n.neighbor_table[x].cost < shifted(x)
           R == [x \in DOMAIN n.routing_table |->
                   IF closer(x) THEN DirectRoute(n, x)
                                ELSE [n.routing_table[x] EXCEPT !.cost = shifted(x)]]
           T == [x \in DOMAIN n.DV_time \cup {y \in DOMAIN n.routing_table : via(y)} |->
                   IF x \in DOMAIN n.routing_table /\ via(x) THEN DV_LS_TIMEOUT
                                                            ELSE n.DV_time[x]]
           m == ShiftRoutes(n, id, difference)
<1>1. n \in Node /\ DOMAIN n.DV_time = DOMAIN n.routing_table
  BY DEF Routed, Settled
<1>2. /\ DOMAIN n.routing_table \subseteq Router
      /\ n.routing_table \in [DOMAIN n.routing_table -> Route]
  BY <1>1, NodeFields, MapElim
<1>3. ASSUME NEW x \in DOMAIN n.routing_table
      PROVE  /\ R[x] \in Route
             /\ R[x].next_hop \in {n.routing_table[x].next_hop, x}
             /\ R[x].next_hop \in DOMAIN n.neighbor_table
  <2>1. n.routing_table[x] \in Route
    BY <1>2
  <2>2. n.routing_table[x].next_hop \in DOMAIN n.neighbor_table
    BY DEF Routed
  <2>3. shifted(x) \in Cost
    BY <2>1, CostModAssumption DEF Route, Cost
  <2>4. CASE closer(x)
    <3>1. R[x] = DirectRoute(n, x) /\ x \in DOMAIN n.neighbor_table
      BY <2>4
    <3>2. /\ DirectRoute(n, x) \in Route
          /\ DirectRoute(n, x).next_hop = x
      BY <1>1, <3>1, DirectRouteType
    <3> HIDE DEF R
    <3> QED BY <3>1, <3>2
  <2>5. CASE ~closer(x)
    <3> HIDE DEF shifted, closer
    <3>1. R[x] = [n.routing_table[x] EXCEPT !.cost = shifted(x)]
      BY <2>5
    <3> QED BY <2>1, <2>2, <2>3, <3>1 DEF Route
  <2> QED BY <2>4, <2>5
<1>4. R \in PMap(Router, Route)
  <2>1. R \in [DOMAIN n.routing_table -> Route]
    BY <1>3
  <2> QED BY <1>2, <2>1, MapIntro
<1>5. /\ DOMAIN T = DOMAIN n.routing_table
      /\ T \in PMap(Router, 0 .. DV_LS_TIMEOUT)
  <2>1. n.DV_time \in [DOMAIN n.DV_time -> 0 .. DV_LS_TIMEOUT]
    BY <1>1, NodeFields, MapElim
  <2>2. DOMAIN T = DOMAIN n.routing_table
    BY <1>1
  <2>3. T \in [DOMAIN n.routing_table -> 0 .. DV_LS_TIMEOUT]
    BY <1>1, <2>1, DVTimeoutAssumption
  <2> HIDE DEF T
  <2> QED BY <1>2, <2>2, <2>3, MapIntro
<1>6. m = [n EXCEPT !.routing_table = R, !.DV_time = T, !.IsUpdated = n.IsUpdated]
  BY <1>1 DEF ShiftRoutes, Node
<1>7. DOMAIN R = DOMAIN n.routing_table
  OBVIOUS
<1> HIDE DEF m, R, T
<1>8. m \in Node /\ SameLinks(n, m) /\ m.routing_table = R /\ m.DV_time = T
  <2>1. n.IsUpdated \in BOOLEAN
    BY <1>1, NodeFields
  <2> QED BY <1>1, <1>4, <1>5, <1>6, <2>1 DEF Node, SameLinks
<1>9. Routed(m, self)
  BY <1>3, <1>5, <1>7, <1>8 DEF Routed, Settled, SameLinks
<1> QED
  BY <1>8, <1>9 DEF m

(* update gives a neighbour that has just been learnt a route, and settles *)
(* every other route.                                                      *)
LEMMA UpdateRouted ==
  ASSUME NEW self, NEW n, Settled(n, self),
         NEW id \in DOMAIN n.neighbor_table, id # self,
         DOMAIN n.neighbor_table \ {id} \subseteq DOMAIN n.routing_table,
         \A x \in DOMAIN n.routing_table :
            n.routing_table[x].next_hop \in DOMAIN n.neighbor_table,
         NEW RTT \in Cost, NEW oldRTT \in Cost
  PROVE  /\ Routed(update(n, id, RTT, oldRTT), self)
         /\ SameLinks(n, update(n, id, RTT, oldRTT))
<1> DEFINE m == SetDirect(n, id, RTT)
           difference == (RTT - oldRTT) % CostMod
<1>1. Routed(m, self) /\ SameLinks(n, m)
  BY SetDirectRouted
<1>2. difference \in Cost
  BY CostModAssumption DEF Cost
<1> HIDE DEF m, difference
<1>3. Routed(ShiftRoutes(m, id, difference), self)
      /\ SameLinks(m, ShiftRoutes(m, id, difference))
  BY <1>1, <1>2, ShiftRoutesRouted
<1>4. CASE id \notin DOMAIN n.routing_table
  BY <1>1, <1>4 DEF update, m
<1>5. CASE /\ id \in DOMAIN n.routing_table
           /\ n.routing_table[id].next_hop = id \/ RTT < n.routing_table[id].cost
  <2>1. update(n, id, RTT, oldRTT) = ShiftRoutes(m, id, difference)
    BY <1>5 DEF update, m, difference
  <2> QED BY <1>1, <1>3, <2>1 DEF SameLinks
<1>6. CASE /\ id \in DOMAIN n.routing_table
           /\ ~(n.routing_table[id].next_hop = id \/ RTT < n.routing_table[id].cost)
  <2>1. update(n, id, RTT, oldRTT) = n
    BY <1>6 DEF update
  <2>2. DOMAIN n.neighbor_table \subseteq DOMAIN n.routing_table
    BY <1>6
  <2> QED BY <2>1, <2>2 DEF Routed, SameLinks
<1> QED BY <1>4, <1>5, <1>6

(* AdoptReverse may make one indirect route direct; it then leaves a mark. *)
LEMMA AdoptReverseRouted ==
  ASSUME NEW self, NEW n, Routed(n, self),
         NEW source_id \in DOMAIN n.neighbor_table,
         NEW entries \in PMap(Router, Cost)
  PROVE  /\ Routed(AdoptReverse(n, self, source_id, entries), self)
         /\ SameLinks(n, AdoptReverse(n, self, source_id, entries))
         /\ Marks(n, AdoptReverse(n, self, source_id, entries))
<1> DEFINE m == AdoptReverse(n, self, source_id, entries)
           route == [cost |-> CostToMe(self, entries), next_hop |-> source_id]
           R == Put(n.routing_table, source_id, route)
<1>1. n \in Node /\ source_id \in Router /\ source_id \in DOMAIN n.routing_table
  BY NodeFields, MapElim DEF Routed, Settled
<1>2. CostToMe(self, entries) \in Cost
  <2>1. entries \in [DOMAIN entries -> Cost]
    BY MapElim
  <2> QED BY <2>1, CostModAssumption DEF CostToMe, Cost
<1>3. route \in Route /\ route.next_hop = source_id
  BY <1>1, <1>2 DEF Route
<1>4. R \in PMap(Router, Route)
  <2>1. n.routing_table \in PMap(Router, Route)
    BY <1>1, NodeFields
  <2> HIDE DEF route
  <2> QED BY <1>1, <1>3, <2>1, PutMap
<1>5. CASE m = n
  BY <1>5 DEF Marks, SameLinks
<1>6. CASE m = [n EXCEPT !.routing_table = R, !.IsUpdated = FALSE]
  <2> HIDE DEF m
  <2>1. Marks(n, m)
    BY <1>1, <1>6 DEF Marks, Node
  <2> HIDE DEF R
  <2>2. m \in Node /\ SameLinks(n, m) /\ m.routing_table = R /\ m.DV_time = n.DV_time
    BY <1>1, <1>4, <1>6 DEF Node, SameLinks
  <2>3. Routed(m, self)
    BY <1>1, <1>3, <2>2 DEF Routed, Settled, SameLinks, Put, R
  <2> QED BY <2>1, <2>2, <2>3 DEF m
<1> QED BY <1>1, <1>5, <1>6 DEF AdoptReverse, Node

(* TakeEntries points every route it replaces at the sender of the packet. *)
LEMMA TakeEntriesRouted ==
  ASSUME NEW self, NEW n, Routed(n, self),
         NEW source_id \in DOMAIN n.neighbor_table,
         NEW entries \in PMap(Router, Cost), NEW linkCost \in Cost
  PROVE  /\ Routed(TakeEntries(n, self, source_id, entries, linkCost), self)
         /\ SameLinks(n, TakeEntries(n, self, source_id, entries, linkCost))
         /\ Marks(n, TakeEntries(n, self, source_id, entries, linkCost))
<1> DEFINE usable == {x \in DOMAIN entries \ {self} : entries[x] # INFINITY_COST}
           total(x) == totalCost(entries[x], linkCost)
           fresh(x) == x \notin DOMAIN n.routing_table
           mine(x) == n.routing_table[x].next_hop = source_id
           old(x) == n.routing_table[x].cost
           replaced == {x \in usable : \/ fresh(x)
                                       \/ mine(x) /\ old(x) # total(x)
                                       \/ old(x) > total(x)}
           confirmed == {x \in usable \ replaced : mine(x) /\ old(x) = total(x)}
           R == [x \in DOMAIN n.routing_table \cup replaced |->
                   IF x \in replaced THEN [cost |-> total(x), next_hop |-> source_id]
                                     ELSE n.routing_table[x]]
           T == [x \in DOMAIN n.DV_time \cup replaced \cup confirmed |->
                   IF x \in replaced \cup confirmed THEN DV_LS_TIMEOUT
                                                    ELSE n.DV_time[x]]
           u == n.IsUpdated /\ replaced = {}
           m == TakeEntries(n, self, source_id, entries, linkCost)
<1>1. n \in Node /\ DOMAIN n.DV_time = DOMAIN n.routing_table
  BY DEF Routed, Settled
<1>2. /\ DOMAIN n.routing_table \subseteq Router
      /\ n.routing_table \in [DOMAIN n.routing_table -> Route]
      /\ source_id \in Router
  BY <1>1, NodeFields, MapElim
<1>3. DOMAIN entries \subseteq Router /\ entries \in [DOMAIN entries -> Cost]
  BY MapElim
<1>4. replaced \subseteq DOMAIN entries \ {self} /\ confirmed \subseteq DOMAIN n.routing_table
  OBVIOUS
<1>5. \A x \in DOMAIN entries : [cost |-> total(x), next_hop |-> source_id] \in Route
  BY <1>2, <1>3, CostModAssumption DEF Route, Cost, totalCost
<1>6. m = [n EXCEPT !.routing_table = R, !.DV_time = T, !.IsUpdated = u]
  BY <1>1 DEF TakeEntries, Node
<1>7. u \in BOOLEAN
  BY <1>1, NodeFields
<1>8. (replaced # {} => ~u) /\ (~n.IsUpdated => ~u)
  OBVIOUS
<1> HIDE DEF m, u, total, replaced, confirmed
<1>9. R \in PMap(Router, Route)
  <2>1. R \in [DOMAIN n.routing_table \cup replaced -> Route]
    BY <1>2, <1>4, <1>5
  <2>2. DOMAIN n.routing_table \cup replaced \subseteq Router
    BY <1>2, <1>3, <1>4
  <2> HIDE DEF R
  <2> QED BY <2>1, <2>2, MapIntro
<1>10. T \in PMap(Router, 0 .. DV_LS_TIMEOUT)
  <2>1. n.DV_time \in [DOMAIN n.DV_time -> 0 .. DV_LS_TIMEOUT]
    BY <1>1, NodeFields, MapElim
  <2>2. T \in [DOMAIN n.routing_table \cup replaced \cup confirmed -> 0 .. DV_LS_TIMEOUT]
    BY <1>1, <2>1, DVTimeoutAssumption
  <2>3. DOMAIN n.routing_table \cup replaced \cup confirmed \subseteq Router
    BY <1>2, <1>3, <1>4
  <2> HIDE DEF T
  <2> QED BY <2>2, <2>3, MapIntro
<1>11. /\ DOMAIN R = DOMAIN n.routing_table \cup replaced
       /\ DOMAIN T = DOMAIN R
  BY <1>1, <1>4
<1>12. \A x \in DOMAIN R : R[x].next_hop \in DOMAIN n.neighbor_table
  BY DEF Routed
<1>13. replaced = {} => R = n.routing_table
  BY <1>2
<1> HIDE DEF R, T
<1>14. /\ m \in Node /\ SameLinks(n, m)
       /\ m.routing_table = R /\ m.DV_time = T /\ m.IsUpdated = u
  BY <1>1, <1>6, <1>7, <1>9, <1>10 DEF Node, SameLinks
<1>15. Routed(m, self)
  BY <1>4, <1>11, <1>12, <1>14 DEF Routed, Settled, SameLinks
<1>16. Marks(n, m)
  BY <1>8, <1>13, <1>14 DEF Marks
<1> QED
  BY <1>14, <1>15, <1>16 DEF m

(* What recv grants of the routes: r is what it returns for the router n.  *)
Answered(n, r, self) == /\ Routed(r.node, self)
                        /\ SameLinks(n, r.node)
                        /\ r.send \in BOOLEAN
                        /\ r.node.routing_table # n.routing_table => r.send

(* recv: whatever a neighbour advertises, the routes stay in order, and a  *)
(* change of the routes is sent on.                                        *)
LEMMA RecvDVRouted ==
  ASSUME NEW self, NEW n, Routed(n, self), NEW port, NEW source_id,
         source_id \in DOMAIN n.neighbor_table =>
            port \in DOMAIN n.port_table /\ n.port_table[port] = source_id,
         NEW entries \in PMap(Router, Cost)
  PROVE  Answered(n, recv_DV(n, self, port, source_id, entries), self)
<1> DEFINE r == recv_DV(n, self, port, source_id, entries)
<1>1. CASE source_id \notin DOMAIN n.neighbor_table
  BY <1>1 DEF recv_DV, SameLinks, Answered
<1>2. CASE source_id \in DOMAIN n.neighbor_table
  <2> DEFINE a == AdoptReverse(n, self, source_id, entries)
             linkCost == n.neighbor_table[n.port_table[port]].cost
             m == TakeEntries(a, self, source_id, entries, linkCost)
  <2>1. linkCost \in Cost
    <3>1. n.neighbor_table[source_id] \in Neighbor
      BY <1>2, NodeFields, MapElim DEF Routed, Settled
    <3> QED BY <1>2, <3>1 DEF Neighbor
  <2>2. r = Flush(m)
    BY <1>2 DEF recv_DV
  <2>3. Routed(a, self) /\ SameLinks(n, a) /\ Marks(n, a)
    BY <1>2, AdoptReverseRouted
  <2>4. source_id \in DOMAIN a.neighbor_table
    BY <1>2, <2>3 DEF SameLinks
  <2> HIDE DEF a, linkCost
  <2>5. Routed(m, self) /\ SameLinks(a, m) /\ Marks(a, m)
    BY <2>1, <2>3, <2>4, TakeEntriesRouted
  <2> HIDE DEF m
  <2>6. m.IsUpdated \in BOOLEAN
    BY <2>5, NodeFields DEF Routed, Settled
  <2>7. /\ Routed(Flush(m).node, self)
        /\ SameLinks(m, Flush(m).node)
        /\ Flush(m).node.routing_table = m.routing_table
        /\ Flush(m).send = ~m.IsUpdated
    BY <2>5, FlushTables
  <2> HIDE DEF r
  <2>8. Answered(n, r, self)
    BY <2>2, <2>3, <2>5, <2>6, <2>7 DEF SameLinks, Marks, Answered
  <2> QED BY <2>8 DEF r
<1> QED BY <1>1, <1>2

(* earseDV: once the routes through the erased neighbours are redirected   *)
(* or gone, every route leads to a neighbour again.                        *)
LEMMA EarseDVRouted ==
  ASSUME NEW self, NEW n, Settled(n, self), NEW toErase,
         toErase \cap DOMAIN n.neighbor_table = {},
         DOMAIN n.neighbor_table \subseteq DOMAIN n.routing_table,
         \A x \in DOMAIN n.routing_table :
            n.routing_table[x].next_hop \in DOMAIN n.neighbor_table \cup toErase
  PROVE  /\ Routed(earseDV(n, toErase), self)
         /\ SameLinks(n, earseDV(n, toErase))
         /\ Marks(n, earseDV(n, toErase))
<1> DEFINE hit == {x \in DOMAIN n.routing_table : n.routing_table[x].next_hop \in toErase}
           back == hit \cap DOMAIN n.neighbor_table
           R == [x \in DOMAIN n.routing_table \ (hit \ back) |->
                   IF x \in back THEN DirectRoute(n, x) ELSE n.routing_table[x]]
           T == [x \in (DOMAIN n.DV_time \cup back) \ (hit \ back) |->
                   IF x \in back THEN DV_LS_TIMEOUT ELSE n.DV_time[x]]
           u == n.IsUpdated /\ hit = {}
           m == earseDV(n, toErase)
<1>1. n \in Node /\ DOMAIN n.DV_time = DOMAIN n.routing_table
  BY DEF Settled
<1>2. /\ DOMAIN n.routing_table \subseteq Router
      /\ n.routing_table \in [DOMAIN n.routing_table -> Route]
  BY <1>1, NodeFields, MapElim
<1>3. \A x \in back : DirectRoute(n, x) \in Route /\ DirectRoute(n, x).next_hop = x
  BY <1>1, DirectRouteType
<1>4. \A x \in DOMAIN n.routing_table \ hit :
         n.routing_table[x].next_hop \in DOMAIN n.neighbor_table
  OBVIOUS
<1>5. /\ back = hit \cap DOMAIN n.neighbor_table
      /\ hit \subseteq DOMAIN n.routing_table
  OBVIOUS
<1>6. m = [n EXCEPT !.routing_table = R, !.DV_time = T, !.IsUpdated = u]
  BY <1>1 DEF earseDV, Node
<1>7. u \in BOOLEAN /\ (hit # {} => ~u) /\ (~n.IsUpdated => ~u)
  BY <1>1, NodeFields
<1> HIDE DEF m, u, hit, back
<1>8. DOMAIN R = DOMAIN n.routing_table \ (hit \ back) /\ DOMAIN T = DOMAIN R
  BY <1>1, <1>5
<1>9. R \in PMap(Router, Route)
  <2>1. R \in [DOMAIN R -> Route] /\ DOMAIN R \subseteq Router
    BY <1>2, <1>3
  <2> HIDE DEF R
  <2> QED BY <2>1, MapIntro
<1>10. T \in PMap(Router, 0 .. DV_LS_TIMEOUT)
  <2>1. n.DV_time \in [DOMAIN n.DV_time -> 0 .. DV_LS_TIMEOUT]
    BY <1>1, NodeFields, MapElim
  <2>2. T \in [(DOMAIN n.DV_time \cup back) \ (hit \ back) -> 0 .. DV_LS_TIMEOUT]
    BY <2>1, DVTimeoutAssumption
  <2>3. (DOMAIN n.DV_time \cup back) \ (hit \ back) \subseteq Router
    BY <1>1, <1>2, <1>5
  <2> HIDE DEF T
  <2> QED BY <2>2, <2>3, MapIntro
<1>11. \A x \in DOMAIN R : R[x].next_hop \in DOMAIN n.neighbor_table
  BY <1>3, <1>4, <1>5
<1>12. DOMAIN n.neighbor_table \subseteq DOMAIN R
  BY <1>5, <1>8
<1>13. hit = {} => R = n.routing_table
  BY <1>2, <1>5
<1> HIDE DEF R, T
<1>14. /\ m \in Node /\ SameLinks(n, m)
       /\ m.routing_table = R /\ m.DV_time = T /\ m.IsUpdated = u
  BY <1>1, <1>6, <1>7, <1>9, <1>10 DEF Node, SameLinks
<1>15. Routed(m, self)
  BY <1>8, <1>11, <1>12, <1>14 DEF Routed, Settled, SameLinks
<1>16. Marks(n, m)
  BY <1>7, <1>13, <1>14 DEF Marks
<1> QED
  BY <1>14, <1>15, <1>16 DEF m

(* refresh keeps the routes in order, and sends on what it changed and     *)
(* what was left marked before it.                                         *)
LEMMA RefreshRouted ==
  ASSUME NEW self, NEW n, Routed(n, self)
  PROVE  /\ Routed(refresh(n).node, self)
         /\ SameLinks(n, refresh(n).node)
         /\ refresh(n).send \in BOOLEAN
         /\ refresh(n).node.routing_table # n.routing_table \/ ~n.IsUpdated
              => refresh(n).send
<1> DEFINE timer(x) == IF n.routing_table[x].next_hop = x THEN DV_LS_TIMEOUT
                                                          ELSE n.DV_time[x]
           expired == {x \in DOMAIN n.DV_time : timer(x) = 0}
           gone == expired \ DOMAIN n.neighbor_table
           R == [x \in DOMAIN n.routing_table \ gone |->
                   IF x \in expired THEN DirectRoute(n, x) ELSE n.routing_table[x]]
           T == [x \in DOMAIN n.DV_time \ gone |->
                   IF x \in expired THEN DV_LS_TIMEOUT ELSE timer(x)]
           u == n.IsUpdated /\ expired = {}
           m == [n EXCEPT !.routing_table = R, !.DV_time = T, !.IsUpdated = u]
<1>1. n \in Node /\ DOMAIN n.DV_time = DOMAIN n.routing_table
  BY DEF Routed, Settled
<1>2. /\ DOMAIN n.routing_table \subseteq Router
      /\ n.routing_table \in [DOMAIN n.routing_table -> Route]
  BY <1>1, NodeFields, MapElim
<1>3. \A x \in expired \ gone : /\ x \in DOMAIN n.neighbor_table
                                /\ DirectRoute(n, x) \in Route
                                /\ DirectRoute(n, x).next_hop = x
  BY <1>1, DirectRouteType
<1>4. refresh(n) = Flush(m)
  BY <1>1 DEF refresh, Node
<1>5. u \in BOOLEAN /\ (expired # {} => ~u) /\ (~n.IsUpdated => ~u)
  BY <1>1, NodeFields
<1>6. /\ gone = expired \ DOMAIN n.neighbor_table
      /\ expired \subseteq DOMAIN n.DV_time
  OBVIOUS
<1>7. T \in PMap(Router, 0 .. DV_LS_TIMEOUT)
  <2>1. n.DV_time \in [DOMAIN n.DV_time -> 0 .. DV_LS_TIMEOUT]
    BY <1>1, NodeFields, MapElim
  <2>2. T \in [DOMAIN n.DV_time \ gone -> 0 .. DV_LS_TIMEOUT]
    BY <2>1, DVTimeoutAssumption
  <2>3. DOMAIN n.DV_time \ gone \subseteq Router
    BY <1>1, <1>2
  <2> HIDE DEF T
  <2> QED BY <2>2, <2>3, MapIntro
<1> HIDE DEF expired, gone, u
<1>8. R \in PMap(Router, Route)
  <2>1. R \in [DOMAIN n.routing_table \ gone -> Route]
    BY <1>2, <1>3
  <2>2. DOMAIN n.routing_table \ gone \subseteq Router
    BY <1>2
  <2> HIDE DEF R
  <2> QED BY <2>1, <2>2, MapIntro
<1>9. DOMAIN R = DOMAIN n.routing_table \ gone /\ DOMAIN T = DOMAIN R
  BY <1>1
<1>10. \A x \in DOMAIN R : R[x].next_hop \in DOMAIN n.neighbor_table
  BY <1>3 DEF Routed
<1>11. DOMAIN n.neighbor_table \subseteq DOMAIN R
  BY <1>6, <1>9 DEF Routed
<1>12. expired = {} => R = n.routing_table
  BY <1>2, <1>6
<1> HIDE DEF R, T
<1>13. /\ m \in Node /\ SameLinks(n, m)
       /\ m.routing_table = R /\ m.DV_time = T /\ m.IsUpdated = u
  BY <1>1, <1>5, <1>7, <1>8 DEF Node, SameLinks
<1>14. Routed(m, self)
  BY <1>9, <1>10, <1>11, <1>13 DEF Routed, Settled, SameLinks
<1>15. Marks(n, m)
  BY <1>5, <1>12, <1>13 DEF Marks
<1> HIDE DEF m
<1>16. /\ Routed(Flush(m).node, self)
       /\ SameLinks(m, Flush(m).node)
       /\ Flush(m).node.routing_table = m.routing_table
       /\ Flush(m).send = ~m.IsUpdated
  BY <1>14, FlushTables
<1> QED BY <1>4, <1>5, <1>13, <1>15, <1>16 DEF SameLinks, Marks
-----------------------------------------------------------------------------
(***************************************************************************)
(* The same with the links: peer[p] is the router at the other end of port *)
(* p of the router self.  Linked says that the port map and the neighbour  *)
(* table are inverse to each other and tell the truth about the wires.     *)
(***************************************************************************)
Wired(self, peer) ==
  /\ DOMAIN peer \subseteq Port
  /\ \A p \in DOMAIN peer : peer[p] \in Router \ {self}
  /\ \A p, q \in DOMAIN peer : peer[p] = peer[q] => p = q

Linked(n, peer) ==
  /\ DOMAIN n.port_table \subseteq DOMAIN peer
  /\ \A p \in DOMAIN n.port_table : /\ n.port_table[p] = peer[p]
                                    /\ peer[p] \in DOMAIN n.neighbor_table
  /\ \A x \in DOMAIN n.neighbor_table :
        /\ n.neighbor_table[x].port \in DOMAIN n.port_table
        /\ peer[n.neighbor_table[x].port] = x

Sound(n, self, peer) == Routed(n, self) /\ Linked(n, peer)

(* What every handler grants: r is what it returns for the router n. *)
Handled(n, r, self, peer) ==
  /\ Sound(r.node, self, peer)
  /\ r.send \in BOOLEAN
  /\ r.node.routing_table # n.routing_table => r.send

LEMMA LinkedSame == ASSUME NEW peer, NEW n, NEW m, Linked(n, peer), SameLinks(n, m)
                    PROVE  Linked(m, peer)
BY DEF Linked, SameLinks

(* The entry a PONG leaves. *)
Entry(port, RTT) == [cost |-> RTT, port |-> port, timeout |-> PONG_TIMEOUT]

(* recv_pong: the neighbour is entered under the port its PONG came in on. *)
LEMMA PongLearns ==
  ASSUME NEW self, NEW peer, Wired(self, peer), NEW n, Sound(n, self, peer),
         NEW port \in DOMAIN peer, NEW RTT \in Cost,
         NEW pong, pong = recv_pong(n, port, peer[port], RTT)
  PROVE  /\ Settled(pong.node, self) /\ Linked(pong.node, peer)
         /\ pong.node.routing_table = n.routing_table
         /\ pong.node.neighbor_table = Put(n.neighbor_table, peer[port], Entry(port, RTT))
         /\ pong.oldRTT \in Cost
         /\ pong.update \in BOOLEAN
         /\ ~pong.update => peer[port] \in DOMAIN n.neighbor_table
<1> DEFINE src == peer[port]
           entry == Entry(port, RTT)
           N == Put(n.neighbor_table, src, entry)
           P == Put(n.port_table, port, src)
<1>1. n \in Node /\ src \in Router /\ src # self /\ port \in Port
  BY DEF Wired, Sound, Routed, Settled
<1>2. entry \in Neighbor
  BY <1>1, PongTimeoutAssumption DEF Neighbor, Entry
<1>3. N \in PMap(Router, Neighbor)
  <2>1. n.neighbor_table \in PMap(Router, Neighbor)
    BY <1>1, NodeFields
  <2> HIDE DEF entry, src
  <2> QED BY <1>1, <1>2, <2>1, PutMap
<1>4. P \in PMap(Port, Router)
  <2>1. n.port_table \in PMap(Port, Router)
    BY <1>1, NodeFields
  <2> HIDE DEF src
  <2> QED BY <1>1, <2>1, PutMap
<1>5. CASE port \in DOMAIN n.port_table
  <2>1. /\ n.port_table[port] = src
        /\ src \in DOMAIN n.neighbor_table
        /\ src \in DOMAIN n.routing_table
    BY <1>5 DEF Sound, Linked, Routed
  <2>2. /\ pong.node = [n EXCEPT !.neighbor_table = N]
        /\ pong.oldRTT = n.routing_table[src].cost
        /\ pong.update \in BOOLEAN
    BY <1>1, <1>5, <2>1 DEF recv_pong, Touch, Node, Entry
  <2>3. pong.oldRTT \in Cost
    <3>1. n.routing_table[src] \in Route
      BY <1>1, <2>1, NodeFields, MapElim
    <3> QED BY <2>2, <3>1 DEF Route
  <2>4. Linked(pong.node, peer)
    BY <1>1, <1>5, <2>1, <2>2 DEF Sound, Linked, Put, Node, Entry
  <2> HIDE DEF N
  <2>5. /\ pong.node \in Node
        /\ pong.node.neighbor_table = N
        /\ pong.node.routing_table = n.routing_table
        /\ pong.node.DV_time = n.DV_time
    BY <1>1, <1>3, <2>2 DEF Node
  <2> QED BY <2>1, <2>2, <2>3, <2>4, <2>5 DEF Sound, Routed, Settled, N
<1>6. CASE port \notin DOMAIN n.port_table
  <2>1. /\ pong.node = [n EXCEPT !.neighbor_table = N, !.port_table = P]
        /\ pong.oldRTT = 0
        /\ pong.update = TRUE
    BY <1>1, <1>6 DEF recv_pong, Touch, Node, Entry
  <2>2. pong.oldRTT \in Cost
    BY <2>1, CostModAssumption DEF Cost
  <2>3. Linked(pong.node, peer)
    BY <1>1, <1>6, <2>1 DEF Sound, Linked, Put, Node, Entry
  <2> HIDE DEF N, P
  <2>4. /\ pong.node \in Node
        /\ pong.node.neighbor_table = N
        /\ pong.node.routing_table = n.routing_table
        /\ pong.node.DV_time = n.DV_time
    BY <1>1, <1>3, <1>4, <2>1 DEF Node
  <2> QED BY <2>1, <2>2, <2>3, <2>4 DEF Sound, Routed, Settled, N
<1> QED BY <1>5, <1>6

(* recv_pong with the update it may call. *)
LEMMA RecvPongHandled ==
  ASSUME NEW self, NEW peer, Wired(self, peer), NEW n, Sound(n, self, peer),
         NEW port \in DOMAIN peer, NEW RTT \in Cost
  PROVE  /\ Handled(n, recv_pong_DV(n, port, peer[port], RTT), self, peer)
         /\ recv_pong_DV(n, port, peer[port], RTT).node.neighbor_table
              = Put(n.neighbor_table, peer[port], Entry(port, RTT))
<1> DEFINE src == peer[port]
           pong == recv_pong(n, port, src, RTT)
           m == pong.node
           r == recv_pong_DV(n, port, src, RTT)
           N == Put(n.neighbor_table, src, Entry(port, RTT))
<1>1. /\ Settled(m, self) /\ Linked(m, peer)
      /\ m.routing_table = n.routing_table
      /\ m.neighbor_table = N
      /\ DOMAIN N = DOMAIN n.neighbor_table \cup {src}
      /\ pong.oldRTT \in Cost
      /\ pong.update \in BOOLEAN
      /\ ~pong.update => src \in DOMAIN n.neighbor_table
  <2> HIDE DEF pong
  <2>1. pong = recv_pong(n, port, peer[port], RTT)
    BY DEF pong
  <2>2. DOMAIN N = DOMAIN n.neighbor_table \cup {src}
    BY DEF Put
  <2> QED BY <2>1, <2>2, PongLearns
<1>2. r = [node |-> IF pong.update THEN update(m, src, RTT, pong.oldRTT) ELSE m,
           send |-> pong.update]
  BY DEF recv_pong_DV
<1>3. src # self
  BY DEF Wired
<1> HIDE DEF pong, r, src, N
<1>4. CASE ~pong.update
  <2>1. Routed(m, self)
    BY <1>1, <1>4 DEF Sound, Routed
  <2>2. r.node = m /\ r.send = pong.update
    BY <1>2, <1>4
  <2> QED BY <1>1, <2>1, <2>2 DEF Handled, Sound, r, src, N
<1>5. CASE pong.update
  <2> DEFINE old == pong.oldRTT
             q == update(m, src, RTT, old)
  <2>1. /\ src \in DOMAIN m.neighbor_table
        /\ DOMAIN m.neighbor_table \ {src} \subseteq DOMAIN m.routing_table
        /\ \A x \in DOMAIN m.routing_table :
              m.routing_table[x].next_hop \in DOMAIN m.neighbor_table
    BY <1>1 DEF Sound, Routed
  <2>2. old \in Cost
    BY <1>1
  <2>3. r.node = q /\ r.send = TRUE
    BY <1>2, <1>5
  <2> HIDE DEF m, old
  <2>4. Routed(q, self) /\ SameLinks(m, q)
    BY <1>1, <1>3, <2>1, <2>2, UpdateRouted
  <2> HIDE DEF q
  <2>5. Linked(q, peer) /\ q.neighbor_table = N
    BY <1>1, <2>4, LinkedSame DEF SameLinks
  <2> QED BY <2>3, <2>4, <2>5 DEF Handled, Sound, r, src, N
<1> QED BY <1>1, <1>4, <1>5

LEMMA RecvDVHandled ==
  ASSUME NEW self, NEW peer, Wired(self, peer), NEW n, Sound(n, self, peer),
         NEW port \in DOMAIN peer, NEW e \in PMap(Router, Cost)
  PROVE  /\ Handled(n, recv_DV(n, self, port, peer[port], e), self, peer)
         /\ recv_DV(n, self, port, peer[port], e).node.neighbor_table = n.neighbor_table
<1> DEFINE r == recv_DV(n, self, port, peer[port], e)
<1>1. peer[port] \in DOMAIN n.neighbor_table =>
         port \in DOMAIN n.port_table /\ n.port_table[port] = peer[port]
  BY DEF Sound, Linked, Wired
<1>2. Answered(n, r, self)
  <2>1. Routed(n, self)
    BY DEF Sound
  <2> QED BY <1>1, <2>1, RecvDVRouted
<1> HIDE DEF r
<1>3. Linked(r.node, peer) /\ r.node.neighbor_table = n.neighbor_table
  BY <1>2, LinkedSame DEF Sound, Answered, SameLinks
<1> QED BY <1>2, <1>3 DEF Handled, Sound, Answered, r

(* Dropping the silent neighbours drops exactly their ports. *)
LEMMA DropNeighborsLinked ==
  ASSUME NEW self, NEW peer, Wired(self, peer), NEW n, Sound(n, self, peer),
         NEW S, S \subseteq DOMAIN n.neighbor_table
  PROVE  /\ Settled(DropNeighbors(n, S), self)
         /\ Linked(DropNeighbors(n, S), peer)
         /\ DropNeighbors(n, S).routing_table = n.routing_table
         /\ DropNeighbors(n, S).neighbor_table = Erase(n.neighbor_table, S)
         /\ DOMAIN Erase(n.neighbor_table, S) = DOMAIN n.neighbor_table \ S
<1> DEFINE ports == {n.neighbor_table[x].port : x \in S}
           N == Erase(n.neighbor_table, S)
           P == Erase(n.port_table, ports)
           m == DropNeighbors(n, S)
<1>1. n \in Node
  BY DEF Sound, Routed, Settled
<1>2. /\ N = [x \in DOMAIN n.neighbor_table \ S |-> n.neighbor_table[x]]
      /\ P = [p \in DOMAIN n.port_table \ ports |-> n.port_table[p]]
  BY DEF Erase, Restrict
<1>3. m = [n EXCEPT !.port_table = P, !.neighbor_table = N]
  BY <1>1 DEF DropNeighbors, Node
<1>4. N \in PMap(Router, Neighbor)
  BY <1>1, NodeFields, EraseMap
<1>5. P \in PMap(Port, Router)
  <2>1. n.port_table \in PMap(Port, Router)
    BY <1>1, NodeFields
  <2> HIDE DEF ports
  <2> QED BY <2>1, EraseMap
<1>6. ASSUME NEW p \in DOMAIN n.port_table
      PROVE  p \in ports <=> peer[p] \in S
  <2>1. DOMAIN n.port_table \subseteq DOMAIN peer
    BY DEF Sound, Linked
  <2>2. \A x \in S : /\ n.neighbor_table[x].port \in DOMAIN n.port_table
                     /\ peer[n.neighbor_table[x].port] = x
    BY DEF Sound, Linked
  <2> QED BY <2>1, <2>2 DEF Wired
<1>7. ASSUME NEW x \in DOMAIN n.neighbor_table \ S
      PROVE  /\ n.neighbor_table[x].port \in DOMAIN n.port_table \ ports
             /\ peer[n.neighbor_table[x].port] = x
  BY <1>6 DEF Sound, Linked
<1>8. \A p \in DOMAIN n.port_table \ ports :
         n.port_table[p] = peer[p] /\ peer[p] \in DOMAIN n.neighbor_table \ S
  BY <1>6 DEF Sound, Linked
<1> HIDE DEF m, N, P, ports
<1>9. /\ m \in Node /\ m.port_table = P /\ m.neighbor_table = N
      /\ m.routing_table = n.routing_table /\ m.DV_time = n.DV_time
  BY <1>1, <1>3, <1>4, <1>5 DEF Node
<1>10. Linked(m, peer)
  <2>1. DOMAIN n.port_table \subseteq DOMAIN peer
    BY DEF Sound, Linked
  <2> QED BY <1>2, <1>7, <1>8, <1>9, <2>1 DEF Linked
<1>11. Settled(m, self)
  BY <1>9 DEF Sound, Routed, Settled
<1> QED BY <1>2, <1>9, <1>10, <1>11 DEF m, N

LEMMA UpdateTimeoutHandled ==
  ASSUME NEW self, NEW peer, Wired(self, peer), NEW n, Sound(n, self, peer)
  PROVE  /\ Handled(n, update_timeout_DV(n), self, peer)
         /\ update_timeout_DV(n).node.neighbor_table = Erase(n.neighbor_table, Silent(n))
<1> DEFINE S == Silent(n)
           m == DropNeighbors(n, S)
           q == earseDV(m, S)
           r == update_timeout_DV(n)
<1>1. CASE S = {}
  <2>1. r = refresh(n)
    BY <1>1 DEF update_timeout_DV
  <2> HIDE DEF r
  <2>2. /\ Routed(r.node, self)
        /\ SameLinks(n, r.node)
        /\ r.send \in BOOLEAN
        /\ r.node.routing_table # n.routing_table \/ ~n.IsUpdated => r.send
    BY <2>1, RefreshRouted DEF Sound
  <2>3. Linked(r.node, peer)
    BY <2>2, LinkedSame DEF Sound
  <2>4. n.neighbor_table = Erase(n.neighbor_table, S)
    <3>1. n.neighbor_table \in [DOMAIN n.neighbor_table -> Neighbor]
      BY NodeFields, MapElim DEF Sound, Routed, Settled
    <3> QED BY <1>1, <3>1 DEF Erase, Restrict
  <2> QED BY <2>2, <2>3, <2>4 DEF Handled, Sound, SameLinks, r
<1>2. CASE S # {}
  <2>1. r = refresh(q)
    BY <1>2 DEF update_timeout_DV
  <2>2. S \subseteq DOMAIN n.neighbor_table
    BY DEF Silent
  <2> HIDE DEF S
  <2>3. /\ Settled(m, self)
        /\ Linked(m, peer)
        /\ m.routing_table = n.routing_table
        /\ m.neighbor_table = Erase(n.neighbor_table, S)
        /\ DOMAIN Erase(n.neighbor_table, S) = DOMAIN n.neighbor_table \ S
    BY <2>2, DropNeighborsLinked
  <2> HIDE DEF m
  <2>4. /\ S \cap DOMAIN m.neighbor_table = {}
        /\ DOMAIN m.neighbor_table \subseteq DOMAIN m.routing_table
        /\ \A x \in DOMAIN m.routing_table :
              m.routing_table[x].next_hop \in DOMAIN m.neighbor_table \cup S
    BY <2>3 DEF Sound, Routed
  <2>5. Routed(q, self) /\ SameLinks(m, q) /\ Marks(m, q)
    BY <2>3, <2>4, EarseDVRouted
  <2> HIDE DEF q, r
  <2>6. /\ Routed(r.node, self)
        /\ SameLinks(q, r.node)
        /\ r.send \in BOOLEAN
        /\ r.node.routing_table # q.routing_table \/ ~q.IsUpdated => r.send
    BY <2>1, <2>5, RefreshRouted
  <2>7. Linked(r.node, peer)
    BY <2>3, <2>5, <2>6, LinkedSame
  <2>8. r.node.routing_table # n.routing_table => r.send
    BY <2>3, <2>5, <2>6 DEF Marks
  <2>9. r.node.neighbor_table = Erase(n.neighbor_table, S)
    BY <2>3, <2>5, <2>6 DEF SameLinks
  <2> QED BY <2>6, <2>7, <2>8, <2>9 DEF Handled, Sound, r, S
<1> QED BY <1>1, <1>2

(* What is left of a time. *)
LEMMA ElapseType ==
  ASSUME NEW T \in Nat, NEW t \in 0 .. T, NEW d \in Nat
  PROVE  Elapse(t, d) \in 0 .. T
BY DEF Elapse

LEMMA AgeSound ==
  ASSUME NEW self, NEW peer, NEW n, Sound(n, self, peer), NEW d \in Nat
  PROVE  /\ Sound(Age(n, d), self, peer)
         /\ Age(n, d).routing_table = n.routing_table
         /\ DOMAIN Age(n, d).neighbor_table = DOMAIN n.neighbor_table
         /\ \A x \in DOMAIN n.neighbor_table :
               /\ n.neighbor_table[x].timeout \in 0 .. PONG_TIMEOUT
               /\ Age(n, d).neighbor_table[x].cost = n.neighbor_table[x].cost
               /\ Age(n, d).neighbor_table[x].timeout
                    = Elapse(n.neighbor_table[x].timeout, d)
<1> DEFINE N == [x \in DOMAIN n.neighbor_table |->
                   [n.neighbor_table[x] EXCEPT !.timeout = Elapse(@, d)]]
           T == [x \in DOMAIN n.DV_time |-> Elapse(n.DV_time[x], d)]
           m == Age(n, d)
<1>1. n \in Node
  BY DEF Sound, Routed, Settled
<1>2. m = [n EXCEPT !.neighbor_table = N, !.DV_time = T]
  BY <1>1 DEF Age, Node
<1>3. /\ DOMAIN n.neighbor_table \subseteq Router
      /\ n.neighbor_table \in [DOMAIN n.neighbor_table -> Neighbor]
  BY <1>1, NodeFields, MapElim
<1>4. \A x \in DOMAIN n.neighbor_table :
         /\ N[x] \in Neighbor
         /\ N[x].port = n.neighbor_table[x].port /\ N[x].cost = n.neighbor_table[x].cost
         /\ N[x].timeout = Elapse(n.neighbor_table[x].timeout, d)
         /\ n.neighbor_table[x].timeout \in 0 .. PONG_TIMEOUT
  <2> SUFFICES ASSUME NEW x \in DOMAIN n.neighbor_table
               PROVE  /\ N[x] \in Neighbor
                      /\ N[x].port = n.neighbor_table[x].port
                      /\ N[x].cost = n.neighbor_table[x].cost
                      /\ N[x].timeout = Elapse(n.neighbor_table[x].timeout, d)
                      /\ n.neighbor_table[x].timeout \in 0 .. PONG_TIMEOUT
    OBVIOUS
  <2>1. n.neighbor_table[x] \in Neighbor
    BY <1>3
  <2>2. Elapse(n.neighbor_table[x].timeout, d) \in 0 .. PONG_TIMEOUT
    BY <2>1, ElapseType, PongTimeoutAssumption DEF Neighbor
  <2> QED BY <2>1, <2>2 DEF Neighbor
<1>5. N \in PMap(Router, Neighbor)
  <2>1. N \in [DOMAIN n.neighbor_table -> Neighbor]
    BY <1>4
  <2> HIDE DEF N
  <2> QED BY <1>3, <2>1, MapIntro
<1>6. T \in PMap(Router, 0 .. DV_LS_TIMEOUT)
  <2>1. /\ DOMAIN n.DV_time \subseteq Router
        /\ n.DV_time \in [DOMAIN n.DV_time -> 0 .. DV_LS_TIMEOUT]
    BY <1>1, NodeFields, MapElim
  <2>2. T \in [DOMAIN n.DV_time -> 0 .. DV_LS_TIMEOUT]
    BY <2>1, ElapseType, DVTimeoutAssumption
  <2> HIDE DEF T
  <2> QED BY <2>1, <2>2, MapIntro
<1>7. DOMAIN N = DOMAIN n.neighbor_table /\ DOMAIN T = DOMAIN n.DV_time
  OBVIOUS
<1> HIDE DEF m, N, T
<1>8. /\ m \in Node /\ m.neighbor_table = N /\ m.DV_time = T
      /\ m.port_table = n.port_table /\ m.routing_table = n.routing_table
  BY <1>1, <1>2, <1>5, <1>6 DEF Node
<1>9. Routed(m, self)
  BY <1>7, <1>8 DEF Sound, Routed, Settled
<1>10. Linked(m, peer)
  BY <1>4, <1>7, <1>8 DEF Sound, Linked
<1> QED BY <1>4, <1>7, <1>8, <1>9, <1>10 DEF Sound, m

LEMMA EmptySound ==
  ASSUME NEW self, NEW peer
  PROVE  Sound(NewNode, self, peer)
<1>1. \A K, V : EmptyMap \in PMap(K, V)
  <2> SUFFICES ASSUME NEW K, NEW V PROVE EmptyMap \in PMap(K, V)
    OBVIOUS
  <2>1. EmptyMap \in [{} -> V] /\ {} \in SUBSET K
    BY DEF EmptyMap
  <2> QED BY <2>1, MapIntro
<1>2. NewNode \in Node
  BY <1>1 DEF NewNode, Node
<1> QED BY <1>2 DEF NewNode, EmptyMap, Sound, Routed, Settled, Linked

(* send: every packet lists its receiver, never its sender, and leaves on  *)
(* the receiver's port.                                                    *)
LEMMA SendWellFormed ==
  ASSUME NEW self, NEW peer, NEW n, Sound(n, self, peer), NEW m \in send(n)
  PROVE  /\ m.dest \in DOMAIN n.neighbor_table
         /\ m.port \in DOMAIN peer /\ peer[m.port] = m.dest
         /\ m.entries \in PMap(Router, Cost)
         /\ m.dest \in DOMAIN m.entries /\ self \notin DOMAIN m.entries
<1>1. PICK x \in DOMAIN n.neighbor_table :
         m = [port |-> n.neighbor_table[x].port, dest |-> x, entries |-> send_DV(n, x)]
  BY DEF send
<1>2. DOMAIN send_DV(n, x) = DOMAIN n.routing_table
  BY DEF send_DV
<1>3. /\ DOMAIN n.routing_table \subseteq Router
      /\ n.routing_table \in [DOMAIN n.routing_table -> Route]
  BY NodeFields, MapElim DEF Sound, Routed, Settled
<1>4. INFINITY_COST \in Cost /\ \A y \in DOMAIN n.routing_table : n.routing_table[y].cost \in Cost
  BY <1>3, CostModAssumption DEF Cost, INFINITY_COST, Route
<1>5. send_DV(n, x) \in [DOMAIN n.routing_table -> Cost]
  BY <1>4 DEF send_DV
<1>6. send_DV(n, x) \in PMap(Router, Cost)
  BY <1>3, <1>5, MapIntro
<1> QED BY <1>1, <1>2, <1>6 DEF Sound, Routed, Settled, Linked

(* recv_data: a packet for a known destination leaves on one port, which   *)
(* leads to the next hop; for any other, on none.                          *)
LEMMA RecvDataForwards ==
  ASSUME NEW self, NEW peer, NEW n, Sound(n, self, peer), NEW d
  PROVE  /\ d \in DOMAIN n.routing_table =>
               \E p \in DOMAIN peer : /\ recv_data(n, self, d) = {p}
                                      /\ peer[p] = n.routing_table[d].next_hop
         /\ d \notin DOMAIN n.routing_table => recv_data(n, self, d) = {}
<1>1. CASE d \in DOMAIN n.routing_table
  <2> DEFINE hop == n.routing_table[d].next_hop
             p == n.neighbor_table[hop].port
  <2>1. d # self /\ hop \in DOMAIN n.neighbor_table
    BY <1>1 DEF Sound, Routed, Settled
  <2>2. p \in DOMAIN peer /\ peer[p] = hop
    BY <2>1 DEF Sound, Linked
  <2>3. recv_data(n, self, d) = {p}
    BY <1>1, <2>1 DEF recv_data
  <2> QED BY <1>1, <2>2, <2>3
<1>2. CASE d \notin DOMAIN n.routing_table
  BY <1>2 DEF recv_data
<1> QED BY <1>1, <1>2
===============================================================================
