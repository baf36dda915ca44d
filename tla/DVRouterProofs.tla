---------------------------- MODULE DVRouterProofs ----------------------------
(***************************************************************************)
(* The safety of one distance-vector router, for every set of routers,     *)
(* ports, costs, advertisements and timeouts: the five invariants and the  *)
(* triggered update of DVRouter.                                           *)
(*                                                                         *)
(* IInv is inductive where the invariants alone are not: that a route's    *)
(* next hop is a neighbour survives an expiry only because the links are   *)
(* kept inverse, and every neighbour keeps a route only because a route    *)
(* that expires falls back to the direct link.                             *)
(***************************************************************************)
EXTENDS DVRouter, DVTablesProofs

IInv == TypeOK /\ Sound(node, self, Peer)
-----------------------------------------------------------------------------
LEMMA PeerWired == Wired(self, Peer) /\ DOMAIN Peer = Port
BY PeerAssumption DEF Wired

LEMMA InitIInv == Init => IInv
<1> SUFFICES ASSUME Init PROVE IInv
  OBVIOUS
<1>1. Sound(node, self, Peer)
  BY EmptySound DEF Init
<1>2. node \in Node
  BY <1>1 DEF Sound, Routed, Settled
<1>3. alarm \in [Alarms -> Nat]
  BY PeriodAssumption DEF Init, Alarms, Period
<1> QED BY <1>1, <1>2, <1>3 DEF Init, IInv, TypeOK

(* One step: the invariant holds again, and a change of routes is sent. *)
LEMMA NextIInv ==
  IInv /\ [Next]_vars => IInv' /\ (node'.routing_table # node.routing_table => sending')
<1> SUFFICES ASSUME IInv, [Next]_vars
             PROVE  IInv' /\ (node'.routing_table # node.routing_table => sending')
  OBVIOUS
<1>1. /\ TypeOK /\ Sound(node, self, Peer)
      /\ Alarms = {"Ping", "Port", "DV"} /\ Period \in [Alarms -> Nat \ {0}]
  BY PeriodAssumption DEF IInv, Alarms, Period
<1>2. ASSUME NEW r, Handled(node, r, self, Peer), Result(r),
             alarm' \in [Alarms -> Nat], quiet' \in BOOLEAN
      PROVE  IInv' /\ (node'.routing_table # node.routing_table => sending')
  <2>1. node' = r.node /\ sending' = r.send
    BY <1>2 DEF Result
  <2>2. Sound(node', self, Peer)
    BY <1>2, <2>1 DEF Handled
  <2>3. node' \in Node
    BY <2>2 DEF Sound, Routed, Settled
  <2> QED BY <1>2, <2>1, <2>2, <2>3 DEF Handled, IInv, TypeOK, Sound, Linked
<1>3. ASSUME NEW p \in Port, RecvPong(p)
      PROVE  IInv' /\ (node'.routing_table # node.routing_table => sending')
  <2>1. PICK RTT \in RTTs : Result(recv_pong_DV(node, p, Peer[p], RTT))
    BY <1>3 DEF RecvPong
  <2>2. Handled(node, recv_pong_DV(node, p, Peer[p], RTT), self, Peer)
    BY <1>1, PeerWired, RTTAssumption, RecvPongHandled
  <2>3. alarm' \in [Alarms -> Nat] /\ quiet' \in BOOLEAN
    BY <1>1, <1>3 DEF RecvPong, TypeOK
  <2> QED BY <1>2, <2>1, <2>2, <2>3
<1>4. ASSUME NEW p \in Port, RecvDV(p)
      PROVE  IInv' /\ (node'.routing_table # node.routing_table => sending')
  <2>1. PICK e \in Adverts : Result(recv_DV(node, self, p, Peer[p], e))
    BY <1>4 DEF RecvDV, AdvertsFrom
  <2>2. Handled(node, recv_DV(node, self, p, Peer[p], e), self, Peer)
    BY <1>1, PeerWired, AdvertsAssumption, RecvDVHandled
  <2>3. alarm' \in [Alarms -> Nat] /\ quiet' \in BOOLEAN
    BY <1>1, <1>4 DEF RecvDV, TypeOK
  <2> QED BY <1>2, <2>1, <2>2, <2>3
<1>5. ASSUME NEW a \in Alarms, HandleAlarm(a)
      PROVE  IInv' /\ (node'.routing_table # node.routing_table => sending')
  <2>1. alarm' \in [Alarms -> Nat] /\ quiet' \in BOOLEAN
    BY <1>1, <1>5 DEF HandleAlarm, TypeOK
  <2>2. CASE a = "Port"
    <3>1. Result(update_timeout_DV(node))
      BY <1>5, <2>2 DEF HandleAlarm
    <3>2. Handled(node, update_timeout_DV(node), self, Peer)
      BY <1>1, PeerWired, UpdateTimeoutHandled
    <3> QED BY <1>2, <2>1, <3>1, <3>2
  <2>3. CASE a # "Port"
    <3> DEFINE r == [node |-> node, send |-> a = "DV"]
    <3>1. Result(r)
      BY <1>5, <2>3 DEF HandleAlarm
    <3>2. Handled(node, r, self, Peer)
      BY <1>1 DEF Handled
    <3> HIDE DEF r
    <3> QED BY <1>2, <2>1, <3>1, <3>2
  <2> QED BY <2>2, <2>3
<1>6. CASE Tick
  <2>1. /\ node' = Age(node, 1)
        /\ sending' = FALSE /\ quiet' = quiet
        /\ alarm' \in [Alarms -> Nat]
    BY <1>1, <1>6 DEF Tick, TypeOK
  <2>2. Sound(node', self, Peer) /\ node'.routing_table = node.routing_table
    <3> DEFINE d == 1
    <3>1. d \in Nat /\ Sound(node, self, Peer)
      BY <1>1
    <3>2. node' = Age(node, d)
      BY <2>1
    <3> HIDE DEF d
    <3>3. Sound(Age(node, d), self, Peer) /\ Age(node, d).routing_table = node.routing_table
      BY <3>1, AgeSound
    <3> QED BY <3>2, <3>3
  <2>3. node' \in Node
    BY <2>2 DEF Sound, Routed, Settled
  <2> QED BY <1>1, <2>1, <2>2, <2>3 DEF IInv, TypeOK, Sound, Linked
<1>7. CASE CutOff
  BY <1>1, <1>7 DEF CutOff, IInv, TypeOK, Sound, Linked
<1>8. CASE UNCHANGED vars
  BY <1>1, <1>8 DEF vars, IInv, TypeOK, Sound, Linked
<1> QED BY <1>3, <1>4, <1>5, <1>6, <1>7, <1>8 DEF Next

(* Every reachable state satisfies the inductive invariant. *)
THEOREM Invariance == Spec => []IInv
<1>1. IInv /\ [Next]_vars => IInv'
  BY NextIInv
<1> QED BY <1>1, InitIInv, PTL DEF Spec
-----------------------------------------------------------------------------
(* The tables keep their types and every alarm stays armed, whatever the   *)
(* handlers do and however events interleave.                              *)
THEOREM TypeCorrect == Spec => []TypeOK
<1>1. IInv => TypeOK
  BY DEF IInv
<1> QED BY <1>1, Invariance, PTL

(* refresh never dereferences a missing route, and no route is without a   *)
(* timer to expire it.                                                     *)
THEOREM TimersAlwaysMatchRoutes == Spec => []TimersMatchRoutes
<1>1. IInv => TimersMatchRoutes
  BY DEF IInv, Sound, Routed, Settled, TimersMatchRoutes
<1> QED BY <1>1, Invariance, PTL

(* recv always finds the link a DV packet came over. *)
THEOREM PortsAlwaysMatchNeighbors == Spec => []PortsMatchNeighbors
<1>1. IInv => PortsMatchNeighbors
  BY DEF IInv, Sound, Linked, PortsMatchNeighbors
<1> QED BY <1>1, Invariance, PTL

(* recv_data forwards a packet for any known destination on exactly the    *)
(* port of the route's next hop.                                           *)
THEOREM RoutesAlwaysForward == Spec => []RoutesForward
<1>1. IInv => RoutesForward
  BY PeerWired, RecvDataForwards DEF IInv, RoutesForward
<1> QED BY <1>1, Invariance, PTL

(* Every packet of send() lists its receiver, never its sender, and leaves *)
(* on the receiver's port: the router grants its neighbours what RecvDV    *)
(* assumes of theirs, so the assumption is consistent in a whole network.  *)
THEOREM AdvertsAlwaysWellFormed == Spec => []AdvertsWellFormed
<1>1. IInv => AdvertsWellFormed
  <2> SUFFICES ASSUME IInv PROVE AdvertsWellFormed
    OBVIOUS
  <2>1. ASSUME NEW m \in send(node)
        PROVE  /\ m.dest \in DOMAIN node.neighbor_table
               /\ m.dest \in DOMAIN m.entries
               /\ self \notin DOMAIN m.entries
               /\ Peer[m.port] = m.dest
    BY SendWellFormed DEF IInv
  <2>2. ASSUME NEW x \in DOMAIN node.neighbor_table
        PROVE  x \in {m.dest : m \in send(node)}
    <3> DEFINE m == [port |-> node.neighbor_table[x].port, dest |-> x,
                     entries |-> send_DV(node, x)]
    <3>1. m \in send(node) /\ m.dest = x
      BY DEF send
    <3> QED BY <3>1
  <2>3. {m.dest : m \in send(node)} = DOMAIN node.neighbor_table
    BY <2>1, <2>2
  <2> QED BY <2>1, <2>3 DEF AdvertsWellFormed
<1> QED BY <1>1, Invariance, PTL

(* No handler changes a route without sending the new table to every       *)
(* neighbour in the same step.                                             *)
THEOREM UpdatesAlwaysTriggered == Spec => TriggeredUpdate
<1>1. IInv /\ [Next]_vars => [node'.routing_table # node.routing_table => sending']_vars
  BY NextIInv
<1> QED BY <1>1, Invariance, PTL DEF Spec, TriggeredUpdate
===============================================================================
