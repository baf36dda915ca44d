------------------------------ MODULE Neighborhood ------------------------------
(***************************************************************************)
(* What PINGs and PONGs are for: the neighbours of the routers of a        *)
(* network, whichever protocol they run.  Here are the property and what   *)
(* the proofs say of the times of packets and neighbours to get there; a   *)
(* router's tables have a neighbor_table, and no more is known of them.    *)
(***************************************************************************)
EXTENDS Simulator

CONSTANTS CostMod, PONG_TIMEOUT, PING_DURATION, TIMEOUT_DURATION,
          DETECT              \* after so long without a change the neighbours are known

(* The times leave room for a delay of D: no link ever has a greater one,  *)
(* a cost holds the time there and back, and after a change DETECT is      *)
(* enough for the last PONG of a dead link to arrive and its neighbour to  *)
(* expire, and for PINGs to be sent and answered once all older ones are.  *)
Timely(D) ==
  /\ DETECT \in Nat
  /\ \A l \in Link : InitialDelay[l] <= D
  /\ \A f \in Scenarios : \A e \in f.events : e.type = "changedelay" => e.delay <= D
  /\ 2 * D < CostMod
  /\ PING_DURATION < PONG_TIMEOUT
  /\ PONG_TIMEOUT + TIMEOUT_DURATION + D <= DETECT
  /\ PING_DURATION + 4 * D <= DETECT

(* "A link should be declared dead when the status has not been refreshed  *)
(* for 15 seconds" (RoutingProtocolImpl.h), and no other link should be:   *)
(* soon after a change every router's neighbours are the routers its live  *)
(* links lead to, with what those links cost.                              *)
NeighborsKnown ==
  QuietFor(DETECT) =>
    \A u \in Router : LET known == node[u].neighbor_table
                      IN  /\ DOMAIN known = DOMAIN Edges[u]
                          /\ \A v \in DOMAIN known : known[v].cost = Edges[u][v]
--------------------------------------------------------------------------------
(* The queue as a bag: one copy of an event is taken, sets are put in.     *)
Taken(q, e, r) ==
  /\ IsABag(r)
  /\ DOMAIN r \subseteq DOMAIN q
  /\ \A f \in DOMAIN q : f # e => f \in DOMAIN r /\ r[f] = q[f]
  /\ q[e] = 1 => e \notin DOMAIN r

Joined(q, S, r) ==
  /\ IsABag(r)
  /\ DOMAIN r = DOMAIN q \cup S
  /\ \A f \in DOMAIN q \ S : r[f] = q[f]
  /\ \A f \in S \ DOMAIN q : r[f] = 1

(* What the queue q is when e has been taken from it and S put in, to r.   *)
Requeued(q, e, S, r) ==
  /\ IsABag(r)
  /\ DOMAIN r \subseteq DOMAIN q \cup S /\ S \subseteq DOMAIN r
  /\ \A f \in DOMAIN q \ S : f # e => f \in DOMAIN r /\ r[f] = q[f]
  /\ \A f \in S \ DOMAIN q : f \in DOMAIN r /\ r[f] = 1
  /\ q[e] = 1 /\ e \notin S => e \notin DOMAIN r

(* The alarm that is set again when e is an alarm. *)
Rearmed(e) == IF e.type = "alarm" THEN {AlarmEvent(e.router, e.alarm, e.time)} ELSE {}
--------------------------------------------------------------------------------
(***************************************************************************)
(* How old PINGs, PONGs and neighbours are, when no delay is above D.      *)
(***************************************************************************)
IsAlarm(e, u, a) == e.type = "alarm" /\ e.router = u /\ e.alarm = a

(* An arrival comes as its link's delay says, or the last change of the    *)
(* network is not long ago: a PONG has been there and back.                *)
InTime(e, D) ==
  LET link == LinkAt(e.router, e.port)
  IN  /\ link \notin is_alive => e.time <= changed + D
      /\ e.pkt.type = "PING" => \/ e.time <= changed + D
                                \/ e.time = e.pkt.stamp + delay[link]
      /\ e.pkt.type = "PONG" => \/ e.time <= changed + 2 * D
                                \/ e.time = e.pkt.stamp + 2 * delay[link]

(* A neighbour whose link is dead expires in time: no PONG of it came in   *)
(* late, and the last check for silent neighbours was before it expired.   *)
Expiring(D) ==
  \A u \in Router : \A x \in DOMAIN node[u].neighbor_table : {u, x} \notin is_alive =>
    /\ \/ node[u].neighbor_table[x].timeout = 0
       \/ global_time + node[u].neighbor_table[x].timeout <= changed + D + PONG_TIMEOUT
    /\ \A e \in DOMAIN event_q : IsAlarm(e, u, "Port") =>
          e.time <= changed + D + PONG_TIMEOUT + TIMEOUT_DURATION

(* The PING u sends on port p at time s, the PONG that answers it, and     *)
(* when the entry expires that this PONG leaves.                           *)
PingOf(u, p, s) ==
  Delivery(u, [port |-> p, pkt |-> [type |-> "PING", src |-> u, stamp |-> s]], s, delay)
PongOf(u, p, s) ==
  LET v == Wire[u][p]
  IN  Delivery(v, [port |-> get_link_port(v, u),
                   pkt  |-> [type |-> "PONG", src |-> v, dst |-> u, stamp |-> s]],
               s + delay[LinkAt(u, p)], delay)
Expiry(u, p, s) == s + 2 * delay[LinkAt(u, p)] + PONG_TIMEOUT

(* A neighbour is known, with the cost of its link, at least until time t. *)
KnownUntil(u, p, t) ==
  LET known == node[u].neighbor_table
  IN  /\ Wire[u][p] \in DOMAIN known
      /\ known[Wire[u][p]].cost = 2 * delay[LinkAt(u, p)]
      /\ global_time + known[Wire[u][p]].timeout >= t

(* What became of that PING: it or its PONG is on its way, or the answer   *)
(* is known, or its time is over.                                          *)
Pinged(u, p, s) == \/ PingOf(u, p, s) \in DOMAIN event_q
                   \/ PongOf(u, p, s) \in DOMAIN event_q
                   \/ KnownUntil(u, p, Expiry(u, p, s))
                   \/ global_time >= Expiry(u, p, s)

(* When an alarm rang of such a period, if it is set for time t.           *)
Before(t, period) == {s \in Nat : \E k \in Nat : t = s + (k + 1) * period}

(* Every PING sent when all packets were of the present network, on a link *)
(* that is alive, fares as Pinged says.                                    *)
Rounds(D) ==
  \A u \in Router : \A p \in DOMAIN Wire[u] : LinkAt(u, p) \in is_alive =>
    \A e \in DOMAIN event_q : IsAlarm(e, u, "Ping") =>
      \A s \in Before(e.time, PING_DURATION) : s > changed + 2 * D => Pinged(u, p, s)

(* The delays, and the time of the last change. *)
Bounded(D) ==
  /\ is_alive \subseteq Link
  /\ \A l \in Link : delay[l] <= D
  /\ \A e \in DOMAIN event_q : e.type = "changedelay" => e.delay <= D
  /\ \A e \in DOMAIN event_q : e.type = "recv" => e.time <= global_time + D
  /\ changed \in Nat /\ changed <= global_time

TInv(D) == /\ Bounded(D)
           /\ \A e \in DOMAIN event_q : e.type = "recv" => InTime(e, D)
           /\ Expiring(D)
           /\ Rounds(D)
================================================================================
