------------------------------ MODULE MCDVRouter ------------------------------
(* A router r with neighbours a and b on its two ports and one router d    *)
(* behind them.  An advertisement gives r the cost 1, d the cost 1, 2 or   *)
(* infinity, and the other neighbour the cost 1 or none.                   *)
EXTENDS DVRouter, TLC

CONSTANTS r, a, b, d

MCPeer == (0 :> a) @@ (1 :> b)
MCAdverts ==
  {e \in PMap(Router, {1, 2, INFINITY_COST}) :
     /\ {r, d} \subseteq DOMAIN e
     /\ \A x \in DOMAIN e \ {d} : e[x] = 1}
=============================================================================
