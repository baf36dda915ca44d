----------------------------- MODULE CheapestPaths -----------------------------
(***************************************************************************)
(* Paths in a graph by definition, to compare the routing protocols with:  *)
(* g[u] maps the routers u has an edge to, to the cost of the edge.        *)
(***************************************************************************)
EXTENDS Integers, SequencesExt

Paths(g, u, d) ==
  {p \in SeqOf(DOMAIN g, Cardinality(DOMAIN g)) :
     /\ p # <<>> /\ p[1] = u /\ p[Len(p)] = d
     /\ IsInjective(p)
     /\ \A i \in 1 .. Len(p) - 1 : p[i + 1] \in DOMAIN g[p[i]]}

(* The costs of the edges of p, added up from its first router. *)
PathCost(g, p) ==
  LET upto[i \in 1 .. Len(p)] == IF i = 1 THEN 0 ELSE upto[i - 1] + g[p[i - 1]][p[i]]
  IN  upto[Len(p)]

(* Going to d over x first is one of the cheapest ways from u.             *)
CheapestVia(g, u, d, cost, x) ==
  /\ \A p \in Paths(g, u, d) : cost <= PathCost(g, p)
  /\ \E p \in Paths(g, u, d) : PathCost(g, p) = cost /\ p[2] = x
================================================================================
