----------------------------- MODULE MCDijkstraLoop -----------------------------
(* Four routers; every directed graph among three of them, with edges of   *)
(* cost 1 or 3, and every set of links to them, of cost 0 or 4.            *)
EXTENDS DijkstraLoop

MCRecords ==
  LET Others == Router \ {root}
      edge(c)  == [cost |-> c, timeout |-> 1]
      link(p, c) == [cost |-> c, port |-> p, timeout |-> 1]
      outs(u)  == PMap(Others \ {u}, {edge(1), edge(3)})
      links    == {m \in PMap(Others, [cost : {0, 4}, port : Port, timeout : {1}]) :
                     \A x \in DOMAIN m : m[x].port = x}
  IN  {[neighbor_table |-> l, port_table |-> [p \in DOMAIN l |-> p], routing_table |-> EmptyMap,
        graph |-> [u \in Router |-> IF u = root THEN [x \in DOMAIN l |-> edge(l[x].cost)]
                                    ELSE g[u]]] :
         l \in links, g \in {h \in [Others -> UNION {outs(u) : u \in Others}] :
                               \A u \in Others : u \notin DOMAIN h[u]}}
=============================================================================
