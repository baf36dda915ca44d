------------------------------ MODULE MCLSRouter ------------------------------
(* Router 1 with neighbours 2 and 3.  The packets that may arrive tell of  *)
(* a link between 2 and 3, or are router 1's own that come back.  2 is a   *)
(* cost and the number of a router.                                        *)
EXTENDS LSRouter, TLC

Whichever(S) == S       \* a map is iterated in any order
MCPeer == (0 :> 2) @@ (1 :> 3)
MCLSPs == [source : {2}, seq : {0, 1}, entries : {3 :> 2}]
          \cup [source : {1}, seq : {0}, entries : {2 :> 2}]
===============================================================================
