------------------------------ MODULE MCDVNetwork ------------------------------
(* Two topologies.  The triangle of addtest1: at 100 s one of its links    *)
(* dies, to come up again or not, or becomes slower; or nothing changes,   *)
(* but a link loses packets; or two routers lose the third at once.  And a *)
(* ring of four with a fifth router at its first, whose link dies.         *)
EXTENDS DVNetwork, TLC

TriangleWire == 1 :> (0 :> 2 @@ 1 :> 3) @@ 2 :> (0 :> 1 @@ 1 :> 3) @@ 3 :> (0 :> 1 @@ 1 :> 2)
TriangleDelay == {1, 2} :> 20 @@ {1, 3} :> 40 @@ {2, 3} :> 400

Dies(l, t)       == [type |-> "linkdying", time |-> t, link |-> l]
ComesUp(l, t)    == [type |-> "linkcomingup", time |-> t, link |-> l]
Slows(l, d, t)   == [type |-> "changedelay", time |-> t, link |-> l, delay |-> d]
Xmits(u, dst, t) == [type |-> "xmit", time |-> t, router |-> u, pkt |-> Data(dst)]

Test(events) == [events |-> events \cup {Xmits(2, 3, 80000), Xmits(2, 1, 188000)},
                 lossy |-> {}, stop_time |-> 195000]
TriangleTests ==
  {Test({Dies(l, 100000)}) : l \in DOMAIN TriangleDelay}
  \cup {Test({Slows(l, 600, 100000)}) : l \in DOMAIN TriangleDelay}
  \cup {Test({Dies(l, 100000), ComesUp(l, t)}) : l \in DOMAIN TriangleDelay, t \in {112000, 121010}}
  \cup {Test({Dies(l, 100000), Dies(k, t)}) : l, k \in DOMAIN TriangleDelay, t \in {103000, 115500}}
  \cup {Test({Dies(l, 100000), Slows(k, 600, 117010)}) : l, k \in DOMAIN TriangleDelay}
TriangleLoss == {[events |-> {}, lossy |-> {{1, 2}}, stop_time |-> 115000]}
\* 1 and 2 both lose 3 when their alarms are due: their DV packets cross.
TriangleCross ==
  {[events |-> {Slows({1, 3}, 2100, 1000), Slows({2, 3}, 2110, 1000),
                Dies({1, 3}, 45000), Dies({2, 3}, 45000)},
    lossy |-> {}, stop_time |-> 195000]}
MCTriangle == TriangleTests \cup TriangleLoss \cup TriangleCross

RingWire == 1 :> (0 :> 2 @@ 1 :> 4 @@ 2 :> 5) @@ 2 :> (0 :> 1 @@ 1 :> 3)
            @@ 3 :> (0 :> 2 @@ 1 :> 4) @@ 4 :> (0 :> 3 @@ 1 :> 1) @@ 5 :> (0 :> 1)
RingDelay == {1, 2} :> 400 @@ {2, 3} :> 410 @@ {3, 4} :> 420 @@ {1, 4} :> 430 @@ {1, 5} :> 30
RingTests == {[events |-> {Dies({1, 5}, 35500)}, lossy |-> {}, stop_time |-> 300000]}

(* Both topologies and their scenarios leave room for the slowest link. *)
ASSUME TimelyAssumption == Timely(2110)
================================================================================
