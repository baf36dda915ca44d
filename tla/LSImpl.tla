--------------------------------- MODULE LSImpl ---------------------------------
(***************************************************************************)
(* The link-state protocol of one router: LSImpl.cc and the branches of    *)
(* RoutingProtocolImpl that call it.  As in DVProImp, an operator is a     *)
(* whole method on the router record n, and a handler returns the router   *)
(* it leaves and the packets it sent.                                      *)
(*                                                                         *)
(* graph[u][v] is the cost of the edge and the time left until it expires; *)
(* a router without edges has an empty map, whether the code has an empty  *)
(* map or none.  Router IDs are numbers because del_node compares them     *)
(* with costs.  Sequence numbers are the 16 bits that htons() leaves of    *)
(* sequence_num, which is all that is ever read of it.                     *)
(***************************************************************************)
EXTENDS Dijkstra

CONSTANTS DV_LS_TIMEOUT,    \* life of an edge that is not announced again
          SEQ_MOD,          \* 2^16: sequence numbers on the wire
          LastOf(_)         \* with which keys the iteration of an unordered_map may end
ASSUME LSTimeoutAssumption == DV_LS_TIMEOUT \in Nat \ {0}
ASSUME SeqModAssumption == SEQ_MOD \in Nat \ {0}
ASSUME LastOfAssumption ==
  \A S \in SUBSET Router : S # {} => LastOf(S) # {} /\ LastOf(S) \subseteq S

Edge == [cost : Cost, timeout : 0 .. DV_LS_TIMEOUT]
LSP == [source : Router, seq : 0 .. SEQ_MOD - 1, entries : PMap(Router, Cost)]

Node == [neighbor_table   : PMap(Router, Neighbor),
         port_table       : PMap(Port, Router),
         routing_table    : PMap(Router, Route),
         graph            : [Router -> PMap(Router, Edge)],
         max_sequence_num : PMap(Router, 0 .. SEQ_MOD - 1),
         sequence_num     : 0 .. SEQ_MOD - 1]

NewNode == [neighbor_table |-> EmptyMap, port_table |-> EmptyMap, routing_table |-> EmptyMap,
            graph |-> [u \in Router |-> EmptyMap],
            max_sequence_num |-> EmptyMap, sequence_num |-> 0]

(* d units of time pass. *)
Age(n, d) ==
  LET older(e) == [e EXCEPT !.timeout = Elapse(@, d)]
  IN  [n EXCEPT
        !.neighbor_table = [x \in DOMAIN @ |-> older(@[x])],
        !.graph = [u \in Router |-> [v \in DOMAIN @[u] |-> older(@[u][v])]]]

(* del_node forgets the edges out of id and, wherever they are, the edges  *)
(* whose cost is the number id: it compares the cost where the comparison  *)
(* with the other end of the edge was meant.                               *)
del_node(graph, id) ==
  [u \in Router |-> IF u = id THEN EmptyMap
                    ELSE Erase(graph[u], {v \in DOMAIN graph[u] : graph[u][v].cost = id})]

(* add_edge, in both directions, for every entry listed of u.              *)
add_edges(graph, u, entries) ==
  [x \in Router |->
     LET new == IF x = u THEN DOMAIN entries ELSE IF x \in DOMAIN entries THEN {u} ELSE {}
         cost(y) == IF x = u THEN entries[y] ELSE entries[x]
     IN  [y \in DOMAIN graph[x] \cup new |->
            IF y \in new THEN [cost |-> cost(y), timeout |-> DV_LS_TIMEOUT] ELSE graph[x][y]]]

Announce(graph, u, entries) == add_edges(del_node(graph, u), u, entries)

EchoingSendLS(n, lsp, port) ==       \* faulty variant: back to where it came from, too
  {[port |-> n.neighbor_table[x].port, lsp |-> lsp] : x \in DOMAIN n.neighbor_table}

(* send_LS: a copy to every neighbour but the one at port.                 *)
send_LS(n, lsp, port) ==
  {[port |-> n.neighbor_table[x].port, lsp |-> lsp] :
     x \in {y \in DOMAIN n.neighbor_table : n.neighbor_table[y].port # port}}

NoPort == -1       \* SPECIAL_PORT: no neighbour is left out

Costs(n) == [x \in DOMAIN n.neighbor_table |-> n.neighbor_table[x].cost]

(* The table of an LSP has a slot for each neighbour, and the inner loop   *)
(* writes all of them into every slot: the one the iteration of the        *)
(* unordered_map ends with is left in all.  The standard leaves the order  *)
(* open, the library does not: so LastOf says which they may be.           *)
Tables(n) == IF DOMAIN Costs(n) = {} THEN {EmptyMap}
             ELSE {Restrict(Costs(n), {x}) : x \in LastOf(DOMAIN Costs(n))}

WideUpdateLS(n, self, table) ==      \* faulty variant: the number is not cut to 16 bits
  LET lsp == [source |-> self, seq |-> n.sequence_num, entries |-> table]
  IN  [node |-> [n EXCEPT !.graph = Announce(@, self, Costs(n)),
                          !.sequence_num = @ + 1],
       out  |-> send_LS(n, lsp, NoPort)]

(* update_LS, with what the iteration order left in the table.             *)
update_LS(n, self, table) ==
  LET lsp == [source |-> self, seq |-> n.sequence_num, entries |-> table]
  IN  [node |-> [n EXCEPT !.graph = Announce(@, self, Costs(n)),
                          !.sequence_num = (@ + 1) % SEQ_MOD],
       out  |-> send_LS(n, lsp, NoPort)]

LooseSeen(n, lsp) == /\ lsp.source \in DOMAIN n.max_sequence_num   \* faulty variant
                     /\ n.max_sequence_num[lsp.source] > lsp.seq

(* "an older LSP with a sequence number previously seen is discarded"      *)
Seen(n, lsp) == /\ lsp.source \in DOMAIN n.max_sequence_num
                /\ n.max_sequence_num[lsp.source] >= lsp.seq

SilentRecvLS(n, self, port, lsp) ==  \* faulty variant: the packet is not passed on
  IF Seen(n, lsp) THEN [node |-> n, out |-> {}]
  ELSE [node |-> update_forwarding_table(
                   [n EXCEPT !.max_sequence_num = Put(@, lsp.source, lsp.seq),
                             !.graph = Announce(@, lsp.source, lsp.entries)], self),
        out  |-> {}]

recv_LS(n, self, port, lsp) ==
  IF Seen(n, lsp) THEN [node |-> n, out |-> {}]
  ELSE [node |-> update_forwarding_table(
                   [n EXCEPT !.max_sequence_num = Put(@, lsp.source, lsp.seq),
                             !.graph = Announce(@, lsp.source, lsp.entries)], self),
        out  |-> send_LS(n, lsp, port)]

(* recv_pong with the P_LS branch of its switch: every way it may end.     *)
recv_pong_LS(n, self, port, src, RTT) ==
  LET pong == recv_pong(n, port, src, RTT)
  IN  IF pong.update THEN {update_LS(pong.node, self, t) : t \in Tables(pong.node)}
      ELSE {[node |-> pong.node, out |-> {}]}

Expire(graph) ==
  [u \in Router |-> Erase(graph[u], {v \in DOMAIN graph[u] : graph[u][v].timeout = 0})]

QuietUpdateTimeout(n, self) ==       \* faulty variant: a silent neighbour is not announced
  LET kept == DropNeighbors(n, Silent(n))
  IN  {[node |-> [kept EXCEPT !.graph = Expire(@)], out |-> {}]}

HoardingUpdateTimeout(n, self) ==    \* faulty variant: edges do not expire
  LET kept == DropNeighbors(n, Silent(n))
  IN  IF kept = n THEN {[node |-> n, out |-> {}]}
      ELSE {update_LS(kept, self, t) : t \in Tables(kept)}

(* update_timeout with its P_LS branch: every way it may end.              *)
update_timeout_LS(n, self) ==
  LET kept == DropNeighbors(n, Silent(n))
      left == [kept EXCEPT !.graph = Expire(@)]
  IN  IF left = n THEN {[node |-> n, out |-> {}]}
      ELSE {update_LS(left, self, t) : t \in Tables(left)}
=================================================================================
