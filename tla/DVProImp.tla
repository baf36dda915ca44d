------------------------------- MODULE DVProImp -------------------------------
(***************************************************************************)
(* The distance-vector protocol of one router: class DVProImp, and the     *)
(* branches of RoutingProtocolImpl that call it.  Each operator is a whole *)
(* method on the router record n; a handler returns the router it leaves   *)
(* and whether it called send().  Wherever the code loops over a table,    *)
(* an iteration reads and writes the entry of its own key only, so the     *)
(* order of the iterations does not matter and the loop is a function.     *)
(***************************************************************************)
EXTENDS RouterTables

CONSTANT DV_LS_TIMEOUT    \* life of a route that is not confirmed
ASSUME DVTimeoutAssumption == DV_LS_TIMEOUT \in Nat \ {0}

Node == [neighbor_table : PMap(Router, Neighbor),
         port_table     : PMap(Port, Router),
         routing_table  : PMap(Router, Route),
         DV_time        : PMap(Router, 0 .. DV_LS_TIMEOUT),
         IsUpdated      : BOOLEAN]

NewNode == [neighbor_table |-> EmptyMap, port_table |-> EmptyMap,
            routing_table |-> EmptyMap, DV_time |-> EmptyMap, IsUpdated |-> TRUE]

(* d units of time pass. *)
Age(n, d) ==
  LET older(x) == [n.neighbor_table[x] EXCEPT !.timeout = Elapse(@, d)]
  IN  [n EXCEPT !.neighbor_table = [x \in DOMAIN @ |-> older(x)],
                !.DV_time = [x \in DOMAIN @ |-> Elapse(@[x], d)]]

(* "if (!IsUpdated) { send(); IsUpdated = true; }" *)
Flush(n) == [node |-> [n EXCEPT !.IsUpdated = TRUE], send |-> ~n.IsUpdated]

SilentSendDV(n, dest_id) ==              \* faulty variant: split horizon without poison
  [x \in {y \in DOMAIN n.routing_table : n.routing_table[y].next_hop # dest_id} |->
     n.routing_table[x].cost]

(* The entries send_DV writes for dest_id, with poison reverse. *)
send_DV(n, dest_id) ==
  [x \in DOMAIN n.routing_table |->
     IF n.routing_table[x].next_hop = dest_id /\ x # dest_id
     THEN INFINITY_COST ELSE n.routing_table[x].cost]

(* send(): one packet for every neighbour, on the port of that neighbour. *)
send(n) ==
  {[port |-> n.neighbor_table[x].port, dest |-> x, entries |-> send_DV(n, x)] :
     x \in DOMAIN n.neighbor_table}

(***************************************************************************)
(* update: the direct route to id is set when it is in use or better; then *)
(* every route through id is shifted by the change of cost and a           *)
(* neighbour that is closer directly is routed directly.                   *)
(***************************************************************************)
UntimedSetDirect(n, id, RTT) ==                       \* faulty variant: no timer is set
  [n EXCEPT !.routing_table = Put(@, id, [cost |-> RTT, next_hop |-> id])]

SetDirect(n, id, RTT) ==
  [n EXCEPT !.routing_table = Put(@, id, [cost |-> RTT, next_hop |-> id]),
            !.DV_time = Put(@, id, DV_LS_TIMEOUT)]

ShiftRoutes(n, id, difference) ==
  LET via(x)     == n.routing_table[x].next_hop = id
      shifted(x) == IF via(x) THEN (n.routing_table[x].cost + difference) % CostMod
                              ELSE n.routing_table[x].cost
      closer(x)  == /\ x \in DOMAIN n.neighbor_table
                    /\ n.neighbor_table[x].cost < shifted(x)
  IN  [n EXCEPT
        !.routing_table = [x \in DOMAIN @ |->
           IF closer(x) THEN DirectRoute(n, x) ELSE [@[x] EXCEPT !.cost = shifted(x)]],
        !.DV_time = [x \in DOMAIN @ \cup {y \in DOMAIN n.routing_table : via(y)} |->
           IF x \in DOMAIN n.routing_table /\ via(x) THEN DV_LS_TIMEOUT ELSE @[x]]]

update(n, id, RTT, oldRTT) ==
  IF id \notin DOMAIN n.routing_table THEN SetDirect(n, id, RTT)
  ELSE IF n.routing_table[id].next_hop = id \/ RTT < n.routing_table[id].cost
       THEN ShiftRoutes(SetDirect(n, id, RTT), id, (RTT - oldRTT) % CostMod)
       ELSE n

(* recv_pong with the P_DV branch of its switch. *)
recv_pong_DV(n, port, src, RTT) ==
  LET pong == recv_pong(n, port, src, RTT)
  IN  [node |-> IF pong.update THEN update(pong.node, src, RTT, pong.oldRTT)
                               ELSE pong.node,
       send |-> pong.update]

(***************************************************************************)
(* recv: first the sender's cost to this router may replace the route to   *)
(* the sender, then every finite entry of the sender is taken in.  Reading *)
(* DV_table[router_id] yields 0 when the packet does not list this router. *)
(***************************************************************************)
CostToMe(self, entries) == IF self \in DOMAIN entries THEN entries[self] ELSE 0

UnmarkedAdoptReverse(n, self, source_id, entries) ==  \* faulty variant: IsUpdated is kept
  IF /\ source_id \in DOMAIN n.routing_table
     /\ n.routing_table[source_id].cost > CostToMe(self, entries)
     /\ n.routing_table[source_id].next_hop # source_id
  THEN [n EXCEPT !.routing_table = Put(@, source_id,
                    [cost |-> CostToMe(self, entries), next_hop |-> source_id])]
  ELSE n

AdoptReverse(n, self, source_id, entries) ==
  IF /\ source_id \in DOMAIN n.routing_table
     /\ n.routing_table[source_id].cost > CostToMe(self, entries)
     /\ n.routing_table[source_id].next_hop # source_id
  THEN [n EXCEPT !.routing_table = Put(@, source_id,
                    [cost |-> CostToMe(self, entries), next_hop |-> source_id]),
                 !.IsUpdated = FALSE]
  ELSE n

(* The cost of a route over a link, kept to the width of a cost. *)
UncutTotalCost(cost, linkCost) == cost + linkCost    \* faulty variant: wider than a cost
totalCost(cost, linkCost) == (cost + linkCost) % CostMod

TakeEntries(n, self, source_id, entries, linkCost) ==
  LET usable   == {x \in DOMAIN entries \ {self} : entries[x] # INFINITY_COST}
      total(x) == totalCost(entries[x], linkCost)
      fresh(x) == x \notin DOMAIN n.routing_table
      mine(x)  == n.routing_table[x].next_hop = source_id
      old(x)   == n.routing_table[x].cost
      replaced == {x \in usable : \/ fresh(x)
                                  \/ mine(x) /\ old(x) # total(x)
                                  \/ old(x) > total(x)}
      confirmed == {x \in usable \ replaced : mine(x) /\ old(x) = total(x)}
  IN  [n EXCEPT
        !.routing_table = [x \in DOMAIN @ \cup replaced |->
           IF x \in replaced THEN [cost |-> total(x), next_hop |-> source_id] ELSE @[x]],
        !.DV_time = [x \in DOMAIN @ \cup replaced \cup confirmed |->
           IF x \in replaced \cup confirmed THEN DV_LS_TIMEOUT ELSE @[x]],
        !.IsUpdated = @ /\ replaced = {}]

recv_DV(n, self, port, source_id, entries) ==
  IF source_id \notin DOMAIN n.neighbor_table THEN [node |-> n, send |-> FALSE]
  ELSE Flush(TakeEntries(AdoptReverse(n, self, source_id, entries), self, source_id,
                         entries, n.neighbor_table[n.port_table[port]].cost))

(* earseDV: routes through an erased neighbour fall back to the direct     *)
(* link where there is one and disappear otherwise.                        *)
ErasingEarseDV(n, toErase) ==                         \* faulty variant: no route falls back
  LET hit == {x \in DOMAIN n.routing_table : n.routing_table[x].next_hop \in toErase}
  IN  [n EXCEPT !.routing_table = Erase(@, hit), !.DV_time = Erase(@, hit),
                !.IsUpdated = @ /\ hit = {}]

earseDV(n, toErase) ==
  LET hit  == {x \in DOMAIN n.routing_table : n.routing_table[x].next_hop \in toErase}
      back == hit \cap DOMAIN n.neighbor_table
  IN  [n EXCEPT
        !.routing_table = [x \in DOMAIN @ \ (hit \ back) |->
           IF x \in back THEN DirectRoute(n, x) ELSE @[x]],
        !.DV_time = [x \in (DOMAIN @ \cup back) \ (hit \ back) |->
           IF x \in back THEN DV_LS_TIMEOUT ELSE @[x]],
        !.IsUpdated = @ /\ hit = {}]

(* refresh: direct routes never age; an expired route falls back to the    *)
(* direct link or disappears.                                              *)
refresh(n) ==
  LET timer(x) == IF n.routing_table[x].next_hop = x THEN DV_LS_TIMEOUT
                                                     ELSE n.DV_time[x]
      expired == {x \in DOMAIN n.DV_time : timer(x) = 0}
      gone    == expired \ DOMAIN n.neighbor_table
  IN  Flush([n EXCEPT
        !.routing_table = [x \in DOMAIN @ \ gone |->
           IF x \in expired THEN DirectRoute(n, x) ELSE @[x]],
        !.DV_time = [x \in DOMAIN @ \ gone |->
           IF x \in expired THEN DV_LS_TIMEOUT ELSE timer(x)],
        !.IsUpdated = @ /\ expired = {}])

(* update_timeout with its P_DV branch. *)
ForgetfulUpdateTimeout(n) ==                          \* faulty variant: earseDV is not called
  refresh(DropNeighbors(n, Silent(n)))

update_timeout_DV(n) ==
  refresh(IF Silent(n) = {} THEN n ELSE earseDV(DropNeighbors(n, Silent(n)), Silent(n)))
=============================================================================
