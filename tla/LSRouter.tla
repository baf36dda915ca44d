-------------------------------- MODULE LSRouter --------------------------------
(***************************************************************************)
(* One router running the link-state protocol, driven as in DVRouter by    *)
(* its alarms and by whatever its neighbours may send.                     *)
(***************************************************************************)
EXTENDS LSImpl

CONSTANTS self,               \* this router
          Peer,               \* the router at the other end of each port
          RTTs,               \* round-trip times a PONG may measure
          LSPs,               \* link-state packets that may arrive
          LS_DURATION, TIMEOUT_DURATION

ASSUME SelfAssumption == self \in Router
ASSUME PeerAssumption == /\ Peer \in [Port -> Router \ {self}]
                         /\ \A p, q \in Port : Peer[p] = Peer[q] => p = q
ASSUME RTTAssumption == RTTs \subseteq Cost
ASSUME LSPsAssumption == \A m \in LSPs : m \in LSP
ASSUME PeriodAssumption == {LS_DURATION, TIMEOUT_DURATION} \subseteq Nat \ {0}

VARIABLES node,     \* the router's tables
          alarm,    \* time left until each of its alarms fires
          sent,     \* the packets the last event sent, each with its port
          heard,    \* the LSP the last event received, with its port, or none
          quiet     \* the links are cut: nothing arrives any more

vars == <<node, alarm, sent, heard, quiet>>

Period == [LS |-> LS_DURATION, Port |-> TIMEOUT_DURATION]
Alarms == DOMAIN Period

Init == /\ node = NewNode
        /\ alarm = Period
        /\ sent = {} /\ heard = {}
        /\ quiet = FALSE

Result(r) == node' = r.node /\ sent' = r.out

RecvPong(port) ==
  /\ ~quiet
  /\ \E RTT \in RTTs : \E r \in recv_pong_LS(node, self, port, Peer[port], RTT) : Result(r)
  /\ heard' = {}
  /\ UNCHANGED <<alarm, quiet>>

RecvLS(port) ==
  /\ ~quiet
  /\ \E m \in LSPs : /\ Result(recv_LS(node, self, port, m))
                     /\ heard' = {[port |-> port, lsp |-> m]}
  /\ UNCHANGED <<alarm, quiet>>

(* handle_alarm: the handler of the alarm that is due, then set_alarm.     *)
HandleAlarm(a) ==
  /\ alarm[a] = 0
  /\ \E r \in IF a = "Port" THEN update_timeout_LS(node, self)
              ELSE {update_LS(node, self, t) : t \in Tables(node)} : Result(r)
  /\ alarm' = [alarm EXCEPT ![a] = Period[a]]
  /\ heard' = {}
  /\ UNCHANGED quiet

Tick ==
  /\ \A a \in Alarms : alarm[a] > 0
  /\ node' = Age(node, 1)
  /\ alarm' = [a \in Alarms |-> alarm[a] - 1]
  /\ sent' = {} /\ heard' = {}
  /\ UNCHANGED quiet

CutOff == ~quiet /\ quiet' = TRUE /\ sent' = {} /\ heard' = {} /\ UNCHANGED <<node, alarm>>

Next == \/ \E p \in Port : RecvPong(p) \/ RecvLS(p)
        \/ \E a \in Alarms : HandleAlarm(a)
        \/ Tick
        \/ CutOff

Fairness == WF_vars(Tick) /\ \A a \in Alarms : WF_vars(HandleAlarm(a))
Spec == Init /\ [][Next]_vars
FairSpec == Spec /\ Fairness
-----------------------------------------------------------------------------
(* Every field of the tables keeps its type and every alarm is armed. *)
TypeOK == /\ node \in Node
          /\ alarm \in [Alarms -> Nat]
          /\ \A m \in sent \cup heard : m.port \in Port /\ m.lsp \in LSP
          /\ quiet \in BOOLEAN

(* A link-state packet is passed on at most once: only when its number is  *)
(* above every number its source had before, and those never go back; and  *)
(* it is passed on unchanged, and not to where it came from.               *)
FloodsOnce ==
  [][/\ \A x \in DOMAIN node.max_sequence_num :
           /\ x \in DOMAIN node'.max_sequence_num
           /\ node'.max_sequence_num[x] >= node.max_sequence_num[x]
     /\ \A h \in heard', m \in sent' :
           /\ m.lsp = h.lsp /\ m.port # h.port
           /\ h.lsp.source \in DOMAIN node.max_sequence_num =>
                h.lsp.seq > node.max_sequence_num[h.lsp.source]]_vars

(* "Triggered updates are sent for both distance vector and link state"    *)
(* (simpletest2.desc): an event that changes the neighbours or the cost of *)
(* a link, be it a PONG or the end of a neighbour's time, announces it to  *)
(* every neighbour.                                                        *)
AnnouncesChange ==
  [][Costs(node') # Costs(node) =>
       {m.port : m \in sent'} = {node'.neighbor_table[x].port : x \in DOMAIN Costs(node')}]_vars

(* Every route leads over a port to its next hop. *)
Forwarding(n) ==
  \A d \in DOMAIN n.routing_table :
     \E p \in Port : recv_data(n, self, d) = {p} /\ Peer[p] = n.routing_table[d].next_hop

(* When a packet has been taken in, every route leads over a port to its   *)
(* next hop: Dijkstra's algorithm starts from the neighbours of that       *)
(* moment, whatever the graph still says of neighbours that are gone.      *)
FreshRoutesForward ==
  [][node'.max_sequence_num # node.max_sequence_num => Forwarding(node')]_vars

(* A router that is cut off forgets its neighbours and the whole graph.    *)
Forgets == quiet ~> /\ DOMAIN node.neighbor_table = {}
                    /\ \A u \in Router : node.graph[u] = EmptyMap
=================================================================================
