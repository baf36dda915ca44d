----------------------------- MODULE LSRouterProofs -----------------------------
(***************************************************************************)
(* The safety of one link-state router, for every set of routers, ports,   *)
(* costs, packets and timeouts: its tables keep their types, it floods a   *)
(* packet at most once, it announces every change of its neighbours, and   *)
(* the routes it computes lead to neighbours.  The work is done by the     *)
(* lemmas about the methods, in LSTablesProofs.                            *)
(***************************************************************************)
EXTENDS LSRouter, LSTablesProofs

(* The inductive invariant: the types, and that each neighbour has its     *)
(* port and the router no route to itself.                                 *)
IInv == TypeOK /\ Sound(node, self, Peer)

LEMMA PeerWired == Wired(self, Peer) /\ DOMAIN Peer = Port
BY SelfAssumption, PeerAssumption DEF Wired

LEMMA InitIInv == Init => IInv
<1> SUFFICES ASSUME Init PROVE IInv
  OBVIOUS
<1>1. Sound(node, self, Peer)
  BY EmptySound DEF Init
<1>2. alarm \in [Alarms -> Nat]
  BY PeriodAssumption DEF Init, Alarms, Period
<1> QED BY <1>1, <1>2 DEF Init, IInv, TypeOK, Sound

(* What a step may do. *)
Growing == /\ \A x \in DOMAIN node.max_sequence_num :
                /\ x \in DOMAIN node'.max_sequence_num
                /\ node'.max_sequence_num[x] >= node.max_sequence_num[x]
           /\ \A h \in heard', m \in sent' :
                /\ m.lsp = h.lsp /\ m.port # h.port
                /\ h.lsp.source \in DOMAIN node.max_sequence_num =>
                     h.lsp.seq > node.max_sequence_num[h.lsp.source]
Announced == Costs(node') # Costs(node) =>
               {m.port : m \in sent'} = {node'.neighbor_table[x].port : x \in DOMAIN Costs(node')}
Fresh == node'.max_sequence_num # node.max_sequence_num => Forwarding(node')
Stepped == /\ Sound(node', self, Peer)
           /\ \A m \in sent' \cup heard' : m.port \in Port /\ m.lsp \in LSP
           /\ Growing /\ Announced /\ Fresh

(* What a handler grants that received no LSP. *)
Handled(r) == /\ Sound(r.node, self, Peer) /\ Posted(r, Peer) /\ Told(node, r)
              /\ r.node.max_sequence_num = node.max_sequence_num

LEMMA ReadyForwards ==
  ASSUME NEW n, Sound(n, self, Peer), Ready(n)
  PROVE  Forwarding(n)
<1> SUFFICES ASSUME NEW d \in DOMAIN n.routing_table
             PROVE  \E p \in Port : /\ recv_data(n, self, d) = {p}
                                    /\ Peer[p] = n.routing_table[d].next_hop
  BY DEF Forwarding
<1>1. n.routing_table[d].next_hop \in DOMAIN n.neighbor_table
  BY DEF Ready
<1> QED BY <1>1, PeerWired, RouteForwards

(* It leaves the numbers as they are. *)
LEMMA HandledStep ==
  ASSUME IInv, NEW r, Handled(r), Result(r), heard' = {}
  PROVE  Stepped
<1>1. /\ Sound(node', self, Peer) /\ node'.max_sequence_num = node.max_sequence_num
      /\ \A m \in sent' \cup heard' : m.port \in Port /\ m.lsp \in LSP
  BY PeerWired DEF Handled, Posted, Result
<1>2. \A x \in DOMAIN node.max_sequence_num : node.max_sequence_num[x] \in Nat
  BY NumberFacts DEF IInv, TypeOK
<1>3. Growing
  BY <1>1, <1>2 DEF Growing
<1>4. Announced
  BY DEF Announced, Handled, Told, Result, Costs
<1> QED BY <1>1, <1>3, <1>4 DEF Stepped, Fresh

LEMMA NextSteps ==
  ASSUME IInv, Next
  PROVE  IInv' /\ Growing /\ Announced /\ Fresh
<1>0. /\ Sound(node, self, Peer) /\ alarm \in [Alarms -> Nat] /\ quiet \in BOOLEAN
      /\ self \in Router /\ Wired(self, Peer) /\ DOMAIN Peer = Port
  BY SelfAssumption, PeerWired DEF IInv, TypeOK
<1>1. ASSUME NEW p \in Port, RecvPong(p) PROVE Stepped /\ UNCHANGED <<alarm, quiet>>
  <2>1. PICK RTT \in RTTs : \E r \in recv_pong_LS(node, self, p, Peer[p], RTT) : Result(r)
    BY <1>1 DEF RecvPong
  <2>2. PICK r \in recv_pong_LS(node, self, p, Peer[p], RTT) : Result(r)
    BY <2>1
  <2>3. PICK q : /\ Sound(q, self, Peer) /\ Learned(node, q, Peer[p], p, RTT)
                 /\ Ends(q, r, self) /\ Told(node, r)
    BY <1>0, <2>2, RTTAssumption, RecvPongHandled
  <2>4. Handled(r)
    BY <1>0, <2>3, EndsFacts DEF Handled, Learned, SameNumbers
  <2> QED BY <1>1, <2>2, <2>4, HandledStep DEF RecvPong
<1>2. ASSUME NEW p \in Port, RecvLS(p) PROVE Stepped /\ UNCHANGED <<alarm, quiet>>
  <2>1. PICK lsp \in LSPs : /\ Result(recv_LS(node, self, p, lsp))
                            /\ heard' = {[port |-> p, lsp |-> lsp]}
    BY <1>2 DEF RecvLS
  <2> DEFINE r == recv_LS(node, self, p, lsp)
             old == node.max_sequence_num
  <2>2. lsp \in LSP
    BY LSPsAssumption
  <2>3. /\ Sound(r.node, self, Peer) /\ SameLinks(node, r.node) /\ Posted(r, Peer)
        /\ r.node.max_sequence_num # old => Ready(r.node)
    <3>1. Seen(node, lsp) => r.node = node
      BY <1>0, <2>2, RecvLSFloods
    <3> QED BY <1>0, <2>2, <3>1, RecvLSFloods
  <2>a. /\ \A x \in DOMAIN old : /\ x \in DOMAIN r.node.max_sequence_num
                                 /\ r.node.max_sequence_num[x] >= old[x]
        /\ \A m \in r.out : /\ m.lsp = lsp /\ m.port # p
                            /\ lsp.source \in DOMAIN old => lsp.seq > old[lsp.source]
    BY <1>0, <2>2, NumbersGrow
  <2>4. node' = r.node /\ sent' = r.out
    BY <2>1 DEF Result
  <2> HIDE DEF r
  <2>5. Growing
    BY <2>1, <2>a, <2>4 DEF Growing
  <2>6. Announced
    BY <2>3, <2>4 DEF Announced, SameLinks, Costs
  <2>7. \A m \in sent' \cup heard' : m.port \in Port /\ m.lsp \in LSP
    BY <1>0, <2>1, <2>2, <2>3, <2>4 DEF Posted
  <2>8. Fresh
    BY <2>3, <2>4, ReadyForwards DEF Fresh
  <2> QED BY <1>2, <2>3, <2>4, <2>5, <2>6, <2>7, <2>8 DEF Stepped, RecvLS
<1>3. ASSUME NEW a \in Alarms, HandleAlarm(a)
      PROVE  Stepped /\ alarm' \in [Alarms -> Nat] /\ quiet' = quiet
  <2>1. PICK r : Result(r) /\ (\/ r \in update_timeout_LS(node, self)
                               \/ \E t \in Tables(node) : r = update_LS(node, self, t))
    BY <1>3 DEF HandleAlarm
  <2>2. Handled(r)
    <3>1. CASE r \in update_timeout_LS(node, self)
      <4>1. PICK q : Sound(q, self, Peer) /\ Cleared(node, q) /\ Ends(q, r, self) /\ Told(node, r)
        BY <1>0, <3>1, UpdateTimeoutHandled
      <4> QED BY <1>0, <4>1, EndsFacts DEF Handled, Cleared, SameNumbers
    <3>2. CASE \E t \in Tables(node) : r = update_LS(node, self, t)
      BY <1>0, <3>2, UpdateAnnounces DEF Handled
    <3> QED BY <2>1, <3>1, <3>2
  <2>3. Period[a] \in Nat
    BY PeriodAssumption DEF Period, Alarms
  <2>4. alarm' \in [Alarms -> Nat]
    BY <1>0, <1>3, <2>3 DEF HandleAlarm
  <2> QED BY <1>3, <2>1, <2>2, <2>4, HandledStep DEF HandleAlarm
<1>4. ASSUME Tick PROVE Stepped /\ alarm' \in [Alarms -> Nat] /\ quiet' = quiet
  <2> DEFINE r == [node |-> Age(node, 1), out |-> {}]
  <2>1. Result(r) /\ heard' = {}
    BY <1>4 DEF Tick, Result
  <2>2. Handled(r)
    BY <1>0, AgeSound DEF Handled, Posted, Told, SameNumbers
  <2>3. \A a \in Alarms : alarm[a] - 1 \in Nat
    BY <1>0, <1>4 DEF Tick
  <2>4. alarm' \in [Alarms -> Nat]
    BY <1>4, <2>3 DEF Tick
  <2> QED BY <1>4, <2>1, <2>2, <2>4, HandledStep DEF Tick
<1>5. ASSUME CutOff PROVE Stepped /\ UNCHANGED alarm /\ quiet' \in BOOLEAN
  <2> DEFINE r == [node |-> node, out |-> {}]
  <2>1. Result(r) /\ heard' = {}
    BY <1>5 DEF CutOff, Result
  <2>2. Handled(r)
    BY <1>0 DEF Handled, Posted, Told
  <2> QED BY <1>5, <2>1, <2>2, HandledStep DEF CutOff
<1>6. Stepped /\ alarm' \in [Alarms -> Nat] /\ quiet' \in BOOLEAN
  BY <1>0, <1>1, <1>2, <1>3, <1>4, <1>5 DEF Next
<1> QED BY <1>6 DEF IInv, Stepped, TypeOK, Sound

LEMMA Inductive == Spec => []IInv
<1>1. IInv /\ [Next]_vars => IInv'
  <2>1. CASE Next
    BY <2>1, NextSteps
  <2>2. CASE UNCHANGED vars
    BY <2>2 DEF vars, IInv, TypeOK, Sound
  <2> QED BY <2>1, <2>2
<1> QED BY <1>1, InitIInv, PTL DEF Spec

(* Every table keeps its type: costs and sequence numbers their 16 bits,   *)
(* and what Dijkstra's algorithm stores are routes.                        *)
THEOREM TypeCorrect == Spec => []TypeOK
<1>1. IInv => TypeOK
  BY DEF IInv
<1> QED BY <1>1, Inductive, PTL

(* A port is known exactly if the router at its other end is a neighbour:  *)
(* the tables of a link-state router lose and gain neighbours together.    *)
THEOREM LinksAgree == Spec => []Linked(node, Peer)
<1>1. IInv => Linked(node, Peer)
  BY DEF IInv, Sound
<1> QED BY <1>1, Inductive, PTL

(* Whatever packets arrive, of old or future numbers, in any order and any *)
(* number of copies, a router passes each on at most once.                 *)
THEOREM FloodsAtMostOnce == Spec => FloodsOnce
<1>1. IInv /\ [Next]_vars => [Growing]_vars
  BY NextSteps
<1> QED BY <1>1, Inductive, PTL DEF Spec, FloodsOnce, Growing

(* No event changes the neighbours or the cost of a link in silence.       *)
THEOREM ChangesAlwaysAnnounced == Spec => AnnouncesChange
<1>1. IInv /\ [Next]_vars => [Announced]_vars
  BY NextSteps
<1> QED BY <1>1, Inductive, PTL DEF Spec, AnnouncesChange, Announced

(* However stale the graph is and however its sums of costs are cut, what  *)
(* the algorithm stores can be forwarded, over a port to the next hop.     *)
THEOREM FreshRoutesLead == Spec => FreshRoutesForward
<1>1. IInv /\ [Next]_vars => [Fresh]_vars
  BY NextSteps
<1> QED BY <1>1, Inductive, PTL DEF Spec, FreshRoutesForward, Fresh
=================================================================================
