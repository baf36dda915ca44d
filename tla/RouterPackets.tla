----------------------------- MODULE RouterPackets -----------------------------
(***************************************************************************)
(* The packets that both routing protocols of project3 send in the same    *)
(* way: PINGs, the PONGs that answer them, and DATA.                       *)
(***************************************************************************)
EXTENDS RouterTables

send_ping(self, ports, t) ==
  {[port |-> p, pkt |-> [type |-> "PING", src |-> self, stamp |-> t]] : p \in ports}

recv_ping_send_pong(self, port, msg) ==
  {[port |-> port, pkt |-> [type |-> "PONG", src |-> self, dst |-> msg.src, stamp |-> msg.stamp]]}

(* The measured time, kept to the width of a cost.                         *)
RTT(msg, t) == (t - msg.stamp) % CostMod

Data(dst) == [type |-> "DATA", dst |-> dst]

forward(n, self, msg) == {[port |-> p, pkt |-> msg] : p \in recv_data(n, self, msg.dst)}
================================================================================
