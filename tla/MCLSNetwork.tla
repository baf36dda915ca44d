------------------------------ MODULE MCLSNetwork ------------------------------
(* The triangle of addtest1; at 40 s one of its links dies, to come up     *)
(* again, or before another, or for good, or gets slower.  The cheapest    *)
(* way from 2 to 3 is the one over 1.  And addtest2, where nothing happens *)
(* to a link in the time that is looked at.                                *)
EXTENDS LSNetwork, TLC

Whichever(S) == S       \* a map is iterated in any order

TriangleWire == 1 :> (0 :> 2 @@ 1 :> 3) @@ 2 :> (0 :> 1 @@ 1 :> 3) @@ 3 :> (0 :> 1 @@ 1 :> 2)
TriangleDelay == {1, 2} :> 20 @@ {1, 3} :> 40 @@ {2, 3} :> 400

Dies(l, t)       == [type |-> "linkdying", time |-> t, link |-> l]
ComesUp(l, t)    == [type |-> "linkcomingup", time |-> t, link |-> l]
Slows(l, d, t)   == [type |-> "changedelay", time |-> t, link |-> l, delay |-> d]
Xmits(u, dst, t) == [type |-> "xmit", time |-> t, router |-> u, pkt |-> Data(dst)]

TriangleTests ==
  {[events |-> {Xmits(2, 3, 75000)} \cup e, lossy |-> {}, stop_time |-> 118000] :
     e \in {{Dies({1, 2}, 40000)}, {Dies({1, 3}, 40000)},
           {Dies({1, 2}, 40000), Dies({1, 3}, 43000)},
           {Dies({1, 2}, 40000), ComesUp({1, 2}, 52000)},
           {Slows({1, 2}, 600, 40000)}}}
TriangleLoss == {[events |-> {}, lossy |-> {{1, 2}}, stop_time |-> 70000]}
MCTriangle == TriangleTests \cup TriangleLoss
Quiet == {[events |-> {}, lossy |-> {}, stop_time |-> 70000]}

AddTest2Wire ==
  1 :> (0 :> 3) @@ 2 :> (0 :> 3 @@ 1 :> 5) @@ 3 :> (0 :> 1 @@ 1 :> 2 @@ 2 :> 5)
  @@ 4 :> (0 :> 5) @@ 5 :> (0 :> 2 @@ 1 :> 3 @@ 2 :> 4)
AddTest2Delay == {1, 3} :> 20 @@ {2, 3} :> 60 @@ {2, 5} :> 40 @@ {3, 5} :> 600 @@ {4, 5} :> 10

(* libstdc++ puts a new key before all others of a small map, so iteration *)
(* ends with the neighbour learned first: here the nearest of them, whose  *)
(* PONG comes first.  1 is nearest to 3, 4 to 5, and 5 to 2.               *)
Nearest(S) == IF 1 \in S THEN {1} ELSE IF 4 \in S THEN {4} ELSE IF 5 \in S THEN {5} ELSE S

(* Every scenario leaves room for the slowest link, and for its LSPs. *)
ASSUME TimelyAssumption == Timely(600)
ASSUME SettlesAssumption == Settles(600)
================================================================================
