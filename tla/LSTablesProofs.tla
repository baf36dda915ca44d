------------------------------ MODULE LSTablesProofs ------------------------------
(***************************************************************************)
(* Lemmas about the tables of a link-state router, and what its algorithm  *)
(* computes.                                                               *)
(*                                                                         *)
(* First update_forwarding_table, for every graph and every set of         *)
(* neighbours: what a turn of its loop does, that the loop's local         *)
(* variables stay coherent, that it comes to an end, and, as long as no    *)
(* sum of costs reaches the modulus, that it finds the cheapest paths.     *)
(* Then the methods of LSImpl, each for one method.                        *)
(***************************************************************************)
EXTENDS LSImpl, DijkstraLoop, FiniteSetTheorems, WellFoundedInduction, TLAPS

(* A router's record the loop may be run on: its neighbours are others,    *)
(* each known by its port, and the edges of graph lead to routers.         *)
Computable(m, self) ==
  /\ self \in Router /\ DOMAIN m.neighbor_table \subseteq Router \ {self}
  /\ \A x \in DOMAIN m.neighbor_table :
       /\ m.neighbor_table[x].cost \in Cost
       /\ m.port_table[m.neighbor_table[x].port] \in Router
  /\ \A u \in Router : /\ DOMAIN m.graph[u] \subseteq Router
                       /\ \A v \in DOMAIN m.graph[u] : m.graph[u][v].cost \in Cost

(* No link of m and no edge of its graph costs more than c. *)
Cheap(m, c) ==
  /\ \A x \in DOMAIN m.neighbor_table : m.neighbor_table[x].cost <= c
  /\ \A u \in Router : \A v \in DOMAIN m.graph[u] : m.graph[u][v].cost <= c

(* A record of the loop's local variables. *)
Local == [distance : UNION {[D -> Cost] : D \in SUBSET Router},
          next_hop : UNION {[D -> Router] : D \in SUBSET Router},
          visited  : SUBSET Router,
          minq     : SUBSET (Cost \X Router)]

(* The inductive invariant of the types: the routers in the queue and the  *)
(* visited ones have a distance, and a next hop.                           *)
Coherent(t) ==
  /\ t \in Local
  /\ DOMAIN t.distance = DOMAIN t.next_hop
  /\ t.visited \subseteq DOMAIN t.distance
  /\ \A p \in t.minq : p[2] \in DOMAIN t.distance

Through(t, g, u, v) == t.distance[u] + g[u][v].cost
Closer(t, g, u) == {v \in DOMAIN g[u] : \/ v \notin DOMAIN t.distance
                                        \/ t.distance[v] > Through(t, g, u, v)}
Visit(t, g, u) ==
  [distance |-> [v \in DOMAIN t.distance \cup Closer(t, g, u) |->
                   IF v \in Closer(t, g, u) THEN Through(t, g, u, v) % CostMod
                   ELSE t.distance[v]],
   next_hop |-> [v \in DOMAIN t.next_hop \cup Closer(t, g, u) |->
                   IF v \in Closer(t, g, u) THEN t.next_hop[u] ELSE t.next_hop[v]],
   visited  |-> t.visited \cup {u},
   minq     |-> (t.minq \ {Top(t.minq)})
                  \cup {<<Through(t, g, u, v) % CostMod, v>> : v \in Closer(t, g, u)}]
---------------------------------------------------------------------------------
(* Every set of numbers that is not empty has a least one. *)
LEMMA LeastNat ==
  ASSUME NEW T \in SUBSET Nat, T # {}
  PROVE  \E x \in T : \A y \in T : x <= y
<1> DEFINE R == OpToRel(<, Nat)
<1>1. IsWellFoundedOn(R, Nat)
  BY NatLessThanWellFounded
<1>2. \A x, y \in Nat : x < y => <<x, y>> \in R
  BY DEF OpToRel
<1> HIDE DEF R
<1>3. PICK x \in T : \A y \in T : ~ (<<y, x>> \in R)
  BY <1>1, WFMin
<1>4. \A y \in T : y \in Nat /\ x \in Nat /\ ~(y < x)
  BY <1>2, <1>3
<1>5. \A y \in T : x <= y
  BY <1>4
<1> QED BY <1>5

(* A set of numbers that holds 0, and with a number its successor, holds   *)
(* them all.                                                               *)
LEMMA AllNat ==
  ASSUME NEW T \in SUBSET Nat, 0 \in T, \A k \in T : k + 1 \in T
  PROVE  T = Nat
<1> SUFFICES ASSUME Nat \ T # {} PROVE FALSE
  OBVIOUS
<1>1. PICK k \in Nat \ T : \A y \in Nat \ T : k <= y
  BY LeastNat
<1>2. k - 1 \in Nat
  BY <1>1
<1>3. k - 1 \in T
  BY <1>1, <1>2
<1> QED BY <1>1, <1>3

(* f begins with x0, and its value at k + 1 is F of k and its value at k.  *)
Iterates(S, x0, F, f) ==
  f \in [Nat -> S] /\ f[0] = x0 /\ \A k \in Nat : f[k + 1] = F[<<k, f[k]>>]

(* A function is defined by its value at 0 and by its value at k + 1 from  *)
(* the one at k.                                                           *)
LEMMA Recursion ==
  ASSUME NEW S, NEW x0 \in S, NEW F \in [Nat \X S -> S]
  PROVE  \E f : Iterates(S, x0, F, f)
<1> DEFINE Prefix(j) == {f \in [0 .. j -> S] :
                           f[0] = x0 /\ \A k \in 0 .. j - 1 : f[k + 1] = F[<<k, f[k]>>]}
           Built == {j \in Nat : Prefix(j) # {}}
<1>1. Built = Nat
  <2>1. 0 \in Built
    <3>1. [i \in 0 .. 0 |-> x0] \in Prefix(0)
      OBVIOUS
    <3> QED BY <3>1
  <2>2. ASSUME NEW j \in Built PROVE j + 1 \in Built
    <3>1. PICK f \in [0 .. j -> S] :
             f[0] = x0 /\ \A k \in 0 .. j - 1 : f[k + 1] = F[<<k, f[k]>>]
      OBVIOUS
    <3> DEFINE g == [i \in 0 .. j + 1 |-> IF i = j + 1 THEN F[<<j, f[j]>>] ELSE f[i]]
    <3>2. F[<<j, f[j]>>] \in S
      OBVIOUS
    <3>3. g \in [0 .. j + 1 -> S]
      BY <3>2
    <3>4. \A i \in 0 .. j : g[i] = f[i]
      OBVIOUS
    <3>5. g[j + 1] = F[<<j, f[j]>>]
      OBVIOUS
    <3> HIDE DEF g
    <3>6. g[0] = x0
      BY <3>1, <3>4
    <3>7. ASSUME NEW k \in 0 .. (j + 1) - 1 PROVE g[k + 1] = F[<<k, g[k]>>]
      <4>1. CASE k = j
        BY <3>4, <3>5, <4>1
      <4>2. CASE k # j
        <5>1. k \in 0 .. j - 1 /\ k \in 0 .. j /\ k + 1 \in 0 .. j
          BY <4>2
        <5> QED BY <3>1, <3>4, <5>1
      <4> QED BY <4>1, <4>2
    <3>8. g \in Prefix(j + 1)
      BY <3>3, <3>6, <3>7
    <3> QED BY <3>8
  <2> HIDE DEF Built
  <2>3. Built \in SUBSET Nat
    BY DEF Built
  <2> QED BY <2>1, <2>2, <2>3, AllNat
<1> DEFINE P == [j \in Nat |-> CHOOSE f \in Prefix(j) : TRUE]
<1>2. ASSUME NEW j \in Nat
      PROVE  /\ P[j] \in [0 .. j -> S] /\ P[j][0] = x0
             /\ \A k \in 0 .. j - 1 : P[j][k + 1] = F[<<k, P[j][k]>>]
  <2>1. Prefix(j) # {}
    BY <1>1
  <2>2. P[j] \in Prefix(j)
    BY <2>1
  <2> HIDE DEF P
  <2> QED BY <2>2
<1> HIDE DEF P, Built
<1>3. ASSUME NEW j \in Nat PROVE P[j + 1][j] = P[j][j]
  <2> DEFINE Same == {i \in Nat : i <= j => P[j + 1][i] = P[j][i]}
  <2>1. 0 \in Same
    BY <1>2
  <2>2. ASSUME NEW i \in Same PROVE i + 1 \in Same
    <3> SUFFICES ASSUME i + 1 <= j PROVE P[j + 1][i + 1] = P[j][i + 1]
      OBVIOUS
    <3>1. P[j + 1][i] = P[j][i]
      OBVIOUS
    <3>2. i \in 0 .. j - 1 /\ i \in 0 .. (j + 1) - 1 /\ j + 1 \in Nat
      OBVIOUS
    <3>3. P[j][i + 1] = F[<<i, P[j][i]>>]
      BY <1>2, <3>2
    <3>4. P[j + 1][i + 1] = F[<<i, P[j + 1][i]>>]
      BY <1>2, <3>2
    <3> QED BY <3>1, <3>3, <3>4
  <2>3. Same \in SUBSET Nat
    OBVIOUS
  <2> HIDE DEF Same
  <2>4. Same = Nat
    BY <2>1, <2>2, <2>3, AllNat
  <2> QED BY <2>4 DEF Same
<1> DEFINE h == [j \in Nat |-> P[j][j]]
<1>4. h \in [Nat -> S] /\ h[0] = x0
  BY <1>2
<1>5. ASSUME NEW k \in Nat PROVE h[k + 1] = F[<<k, h[k]>>]
  <2>1. P[k + 1][k + 1] = F[<<k, P[k + 1][k]>>]
    <3>1. k + 1 \in Nat /\ k \in 0 .. (k + 1) - 1
      OBVIOUS
    <3> QED BY <1>2, <3>1
  <2> QED BY <1>3, <2>1
<1> QED BY <1>4, <1>5 DEF Iterates

(* The top of a queue that is not empty is one of its pairs, and the least *)
(* by cost.                                                                *)
LEMMA TopIsLeast ==
  ASSUME NEW Q \in SUBSET (Cost \X Router), Q # {}
  PROVE  Top(Q) \in Q /\ \A q \in Q : Top(Q)[1] <= q[1]
<1>1. \A p \in Q : p[1] \in Nat /\ p[2] \in Nat
  <2>1. \A p \in Q : p[1] \in Cost /\ p[2] \in Router
    OBVIOUS
  <2>2. Cost \subseteq Nat /\ Router \subseteq Nat
    BY RouterIdAssumption, CostModAssumption DEF Cost
  <2> QED BY <2>1, <2>2
<1> DEFINE Costs1 == {p[1] : p \in Q}
<1>2. PICK c \in Costs1 : \A d \in Costs1 : c <= d
  <2>1. Costs1 \in SUBSET Nat /\ Costs1 # {}
    BY <1>1
  <2> HIDE DEF Costs1
  <2> QED BY <2>1, LeastNat
<1>3. \A q \in Q : c <= q[1]
  BY <1>2
<1> DEFINE Ids == {p[2] : p \in {q \in Q : q[1] = c}}
<1>4. PICK i \in Ids : \A j \in Ids : i <= j
  <2>1. Ids \in SUBSET Nat /\ Ids # {}
    BY <1>1, <1>2
  <2> HIDE DEF Ids
  <2> QED BY <2>1, LeastNat
<1>5. PICK p \in Q : p[1] = c /\ p[2] = i
  BY <1>4
<1>6. \A q \in Q : q[1] = c => i <= q[2]
  BY <1>4
<1>7. \A q \in Q : p[1] < q[1] \/ (p[1] = q[1] /\ p[2] <= q[2])
  BY <1>1, <1>3, <1>5, <1>6
<1>8. /\ Top(Q) \in Q
      /\ \A q \in Q : Top(Q)[1] < q[1] \/ (Top(Q)[1] = q[1] /\ Top(Q)[2] <= q[2])
  BY <1>7 DEF Top
<1> QED BY <1>1, <1>8

(* A turn that finds a visited router on top only takes the pair away.     *)
LEMMA TurnSkips ==
  ASSUME NEW t \in Local, NEW g, Top(t.minq)[2] \in t.visited
  PROVE  Turn(t, g) = [distance |-> t.distance, next_hop |-> t.next_hop,
                       visited |-> t.visited, minq |-> t.minq \ {Top(t.minq)}]
BY DEF Local, Turn

(* A turn that finds another one visits it and relaxes its edges.          *)
LEMMA TurnVisits ==
  ASSUME NEW t \in Local, NEW g, Top(t.minq)[2] \notin t.visited
  PROVE  Turn(t, g) = Visit(t, g, Top(t.minq)[2])
BY DEF Local, Turn, Relax, Closer, Through, Visit
---------------------------------------------------------------------------------
LEMMA LocalFields ==
  ASSUME NEW t \in Local
  PROVE  /\ DOMAIN t.distance \subseteq Router /\ DOMAIN t.next_hop \subseteq Router
         /\ \A v \in DOMAIN t.distance : t.distance[v] \in Cost
         /\ \A v \in DOMAIN t.next_hop : t.next_hop[v] \in Router
         /\ t.visited \subseteq Router /\ t.minq \subseteq Cost \X Router
BY DEF Local

LEMMA LocalIntro ==
  ASSUME NEW D \in SUBSET Router, NEW E \in SUBSET Router,
         NEW d \in [D -> Cost], NEW h \in [E -> Router],
         NEW V \in SUBSET Router, NEW Q \in SUBSET (Cost \X Router)
  PROVE  [distance |-> d, next_hop |-> h, visited |-> V, minq |-> Q] \in Local
BY DEF Local

LEMMA EdgeFacts ==
  ASSUME NEW m, NEW self, Computable(m, self), NEW u \in Router
  PROVE  /\ DOMAIN m.graph[u] \subseteq Router
         /\ \A v \in DOMAIN m.graph[u] : m.graph[u][v].cost \in Cost
BY DEF Computable

LEMMA StartCoherent ==
  ASSUME NEW m, NEW self, Computable(m, self)
  PROVE  Coherent(Start(m, self))
<1> DEFINE nb == m.neighbor_table
           known == DOMAIN nb \cup {self}
           d == [v \in known |-> IF v = self THEN 0 ELSE nb[v].cost]
           h == [v \in known |-> IF v = self THEN self ELSE m.port_table[nb[v].port]]
           Q == {<<nb[v].cost, v>> : v \in DOMAIN nb}
<1>1. /\ DOMAIN nb \subseteq Router \ {self} /\ self \in Router
      /\ \A v \in DOMAIN nb : nb[v].cost \in Cost /\ m.port_table[nb[v].port] \in Router
  BY DEF Computable
<1>2. 0 \in Cost
  BY CostModAssumption DEF Cost
<1>3. Start(m, self) = [distance |-> d, next_hop |-> h, visited |-> {self}, minq |-> Q]
  BY DEF Start
<1> HIDE DEF nb
<1>4. known \in SUBSET Router /\ {self} \in SUBSET Router /\ self \in known
  BY <1>1
<1>5. d \in [known -> Cost]
  BY <1>1, <1>2
<1>6. h \in [known -> Router]
  BY <1>1
<1>7. Q \in SUBSET (Cost \X Router) /\ \A p \in Q : p[2] \in known
  BY <1>1
<1> HIDE DEF known, d, h, Q
<1>8. [distance |-> d, next_hop |-> h, visited |-> {self}, minq |-> Q] \in Local
  BY <1>4, <1>5, <1>6, <1>7, LocalIntro
<1> QED BY <1>3, <1>4, <1>5, <1>6, <1>7, <1>8 DEF Coherent

(* What a turn that visits u does, router by router: s1 is the state after *)
(* it.                                                                     *)
Visits(t, g, u, s1) ==
  LET closer == Closer(t, g, u)
  IN  /\ s1 \in Local
      /\ u \in DOMAIN t.distance /\ closer \subseteq Router
      /\ DOMAIN s1.distance = DOMAIN t.distance \cup closer
      /\ DOMAIN s1.next_hop = DOMAIN t.distance \cup closer
      /\ \A v \in closer : /\ Through(t, g, u, v) \in Nat
                           /\ Through(t, g, u, v) < CostMod =>
                                s1.distance[v] = Through(t, g, u, v)
                           /\ s1.distance[v] \in Cost
                           /\ s1.next_hop[v] = t.next_hop[u]
      /\ \A v \in DOMAIN t.distance \ closer : /\ s1.distance[v] = t.distance[v]
                                               /\ s1.next_hop[v] = t.next_hop[v]
      /\ s1.visited = t.visited \cup {u}
      /\ s1.minq = (t.minq \ {Top(t.minq)}) \cup {<<s1.distance[v], v>> : v \in closer}

LEMMA VisitFacts ==
  ASSUME NEW m, NEW self, Computable(m, self), NEW t, Coherent(t), t.minq # {},
         NEW u, u = Top(t.minq)[2], u \notin t.visited
  PROVE  Visits(t, m.graph, u, Turn(t, m.graph))
<1> DEFINE g == m.graph
           s1 == Turn(t, g)
           closer == Closer(t, g, u)
           cut(v) == Through(t, g, u, v) % CostMod
<1>1. t \in Local /\ DOMAIN t.distance = DOMAIN t.next_hop /\ t.minq \subseteq Cost \X Router
  BY LocalFields DEF Coherent
<1>2. Top(t.minq) \in t.minq
  BY <1>1, TopIsLeast
<1>3. u \in DOMAIN t.distance /\ u \in Router
  BY <1>1, <1>2, LocalFields DEF Coherent
<1>4. closer \subseteq DOMAIN g[u] /\ closer \subseteq Router
  BY <1>3, EdgeFacts DEF Closer
<1>5. ASSUME NEW v \in closer
      PROVE  /\ Through(t, g, u, v) \in Nat /\ cut(v) \in Cost
             /\ Through(t, g, u, v) < CostMod => cut(v) = Through(t, g, u, v)
  <2>1. t.distance[u] \in Nat /\ g[u][v].cost \in Nat
    BY <1>1, <1>3, <1>4, EdgeFacts, LocalFields, CostModAssumption DEF Cost
  <2>2. Through(t, g, u, v) \in Nat
    BY <2>1 DEF Through
  <2> QED BY <2>2, CostModAssumption DEF Cost
<1>6. s1 = Visit(t, g, u)
  BY <1>1, TurnVisits
<1> HIDE DEF s1, closer, cut
<1>7. /\ DOMAIN s1.distance = DOMAIN t.distance \cup closer
      /\ DOMAIN s1.next_hop = DOMAIN t.distance \cup closer
      /\ \A v \in closer : s1.distance[v] = cut(v) /\ s1.next_hop[v] = t.next_hop[u]
      /\ \A v \in DOMAIN t.distance \ closer : /\ s1.distance[v] = t.distance[v]
                                               /\ s1.next_hop[v] = t.next_hop[v]
      /\ s1.visited = t.visited \cup {u}
  BY <1>1, <1>6 DEF Visit, closer, cut
<1>8. {<<cut(v), v>> : v \in closer} = {<<s1.distance[v], v>> : v \in closer}
  BY <1>7
<1>9. s1.minq = (t.minq \ {Top(t.minq)}) \cup {<<s1.distance[v], v>> : v \in closer}
  BY <1>6, <1>8 DEF Visit, closer, cut
<1>10. s1 \in Local
  <2>1. \A v \in DOMAIN t.distance \cup closer : /\ s1.distance[v] \in Cost
                                                 /\ s1.next_hop[v] \in Router
    BY <1>1, <1>3, <1>5, <1>7, LocalFields
  <2>2. s1 = [distance |-> [v \in DOMAIN t.distance \cup closer |-> s1.distance[v]],
              next_hop |-> [v \in DOMAIN t.distance \cup closer |-> s1.next_hop[v]],
              visited |-> s1.visited, minq |-> s1.minq]
    BY <1>1, <1>6, <1>7 DEF Visit, closer, cut
  <2>3. s1.visited \subseteq Router /\ s1.minq \subseteq Cost \X Router
    BY <1>1, <1>3, <1>4, <1>5, <1>7, <1>9, LocalFields
  <2>4. DOMAIN t.distance \cup closer \in SUBSET Router
    BY <1>1, <1>4, LocalFields
  <2> QED BY <2>1, <2>2, <2>3, <2>4, LocalIntro
<1> QED BY <1>3, <1>4, <1>5, <1>7, <1>9, <1>10 DEF Visits, s1, closer, cut

LEMMA TurnCoherent ==
  ASSUME NEW m, NEW self, Computable(m, self), NEW t, Coherent(t), t.minq # {}
  PROVE  Coherent(Turn(t, m.graph))
<1> DEFINE u == Top(t.minq)[2]
           s1 == Turn(t, m.graph)
<1>1. t \in Local /\ DOMAIN t.distance = DOMAIN t.next_hop
  BY DEF Coherent
<1>2. CASE u \in t.visited
  <2>1. s1 = [distance |-> t.distance, next_hop |-> t.next_hop,
              visited |-> t.visited, minq |-> t.minq \ {Top(t.minq)}]
    BY <1>1, <1>2, TurnSkips
  <2> HIDE DEF s1
  <2> QED BY <1>1, <2>1 DEF Coherent, Local, s1
<1>3. CASE u \notin t.visited
  <2> DEFINE closer == Closer(t, m.graph, u)
  <2>1. /\ s1 \in Local /\ u \in DOMAIN t.distance
        /\ DOMAIN s1.distance = DOMAIN t.distance \cup closer
        /\ DOMAIN s1.next_hop = DOMAIN t.distance \cup closer
        /\ s1.visited = t.visited \cup {u}
        /\ s1.minq = (t.minq \ {Top(t.minq)}) \cup {<<s1.distance[v], v>> : v \in closer}
    BY <1>3, VisitFacts DEF Visits
  <2> HIDE DEF s1, closer
  <2>2. s1.visited \subseteq DOMAIN s1.distance
    BY <2>1 DEF Coherent
  <2>3. \A p \in s1.minq : p[2] \in DOMAIN s1.distance
    BY <2>1 DEF Coherent
  <2> QED BY <2>1, <2>2, <2>3 DEF Coherent, s1
<1> QED BY <1>2, <1>3
---------------------------------------------------------------------------------
LEMMA Product ==
  ASSUME NEW c \in Nat, NEW k \in Nat, NEW j \in Nat, k <= j
  PROVE  c * k \in Nat /\ c * (k + 1) = c * k + c /\ c * k <= c * j
<1>1. j - k \in Nat /\ c * (j - k) = c * j - c * k
  OBVIOUS
<1>2. c * (j - k) \in Nat
  BY <1>1
<1>3. c * k \in Nat /\ c * j \in Nat /\ c * (k + 1) = c * k + c
  OBVIOUS
<1> QED BY <1>1, <1>2, <1>3

(* The inductive invariant of the distances: a pair in the queue is no     *)
(* closer than its router, every router that was not visited has a pair    *)
(* with its distance, no distance exceeds what the visited routers can add *)
(* up to, no neighbour is farther than its link, and the visited ones are  *)
(* final.                                                                  *)
FinalIn(m, self, t) ==
  \A u \in t.visited \ {self} :
     /\ \A p \in t.minq : t.distance[u] <= p[1]
     /\ \A v \in DOMAIN m.graph[u] : /\ v \in DOMAIN t.distance
                                     /\ t.distance[v] <= t.distance[u] + m.graph[u][v].cost
Settling(c, m, self, t) ==
  /\ Coherent(t)
  /\ self \in t.visited /\ t.distance[self] = 0
  /\ \A p \in t.minq : t.distance[p[2]] <= p[1]
  /\ \A v \in DOMAIN t.distance \ t.visited : <<t.distance[v], v>> \in t.minq
  /\ \A v \in DOMAIN t.distance : t.distance[v] <= c * Cardinality(t.visited)
  /\ \A x \in DOMAIN m.neighbor_table : /\ x \in DOMAIN t.distance
                                        /\ t.distance[x] <= m.neighbor_table[x].cost
  /\ FinalIn(m, self, t)

LEMMA StartSettling ==
  ASSUME NEW m, NEW self, Computable(m, self), NEW c \in Nat, Cheap(m, c)
  PROVE  Settling(c, m, self, Start(m, self))
<1> DEFINE s1 == Start(m, self)
           nb == m.neighbor_table
<1>1. Coherent(s1)
  BY StartCoherent
<1>2. /\ s1.visited = {self} /\ s1.distance[self] = 0
      /\ DOMAIN s1.distance = DOMAIN nb \cup {self}
      /\ s1.minq = {<<nb[v].cost, v>> : v \in DOMAIN nb}
  BY DEF Start
<1>3. \A v \in DOMAIN nb : v # self /\ nb[v].cost <= c /\ s1.distance[v] = nb[v].cost
  BY DEF Computable, Cheap, Start
<1>4. \A v \in DOMAIN nb : nb[v].cost \in Nat
  BY CostModAssumption DEF Computable, Cost
<1>5. c * Cardinality({self}) = c
  <2>1. Cardinality({self}) = 1
    BY FS_Singleton
  <2> QED BY <2>1
<1> HIDE DEF s1, nb
<1>6. \A p \in s1.minq : s1.distance[p[2]] <= p[1]
  BY <1>2, <1>3, <1>4
<1>7. \A v \in DOMAIN s1.distance \ s1.visited : <<s1.distance[v], v>> \in s1.minq
  BY <1>2, <1>3
<1>8. \A v \in DOMAIN s1.distance : s1.distance[v] <= c * Cardinality(s1.visited)
  BY <1>2, <1>3, <1>5
<1>9. FinalIn(m, self, s1)
  BY <1>2 DEF FinalIn
<1>10. \A x \in DOMAIN nb : x \in DOMAIN s1.distance /\ s1.distance[x] <= nb[x].cost
  BY <1>2, <1>3, <1>4
<1> QED BY <1>1, <1>2, <1>6, <1>7, <1>8, <1>9, <1>10 DEF Settling, s1, nb

LEMMA SkipSettling ==
  ASSUME NEW m, NEW self, Computable(m, self),
         NEW c \in Nat, NEW t, Settling(c, m, self, t), t.minq # {},
         Top(t.minq)[2] \in t.visited
  PROVE  Settling(c, m, self, Turn(t, m.graph))
<1> DEFINE s1 == Turn(t, m.graph)
<1>1. Coherent(t) /\ t \in Local /\ Coherent(s1)
  BY TurnCoherent DEF Settling, Coherent
<1>2. s1 = [distance |-> t.distance, next_hop |-> t.next_hop,
            visited |-> t.visited, minq |-> t.minq \ {Top(t.minq)}]
  BY <1>1, TurnSkips
<1> HIDE DEF s1
<1>3. /\ s1.distance = t.distance /\ s1.visited = t.visited
      /\ s1.minq = t.minq \ {Top(t.minq)}
  BY <1>2
<1>4. \A v \in DOMAIN s1.distance \ s1.visited : <<s1.distance[v], v>> \in s1.minq
  <2> SUFFICES ASSUME NEW v \in DOMAIN t.distance \ t.visited
               PROVE  <<t.distance[v], v>> \in t.minq \ {Top(t.minq)}
    BY <1>3
  <2>1. <<t.distance[v], v>> \in t.minq
    BY DEF Settling
  <2> QED BY <2>1
<1>5. FinalIn(m, self, s1)
  BY <1>3 DEF FinalIn, Settling
<1> QED BY <1>1, <1>3, <1>4, <1>5 DEF Settling, s1

(* The routers a turn that visits u finds closer are not visited, and get  *)
(* the whole sum as their distance.                                        *)
Uncut(m, t, u, s1) ==
  \A v \in Closer(t, m.graph, u) :
     v \notin s1.visited /\ s1.distance[v] = t.distance[u] + m.graph[u][v].cost

(* A router that is visited has the least distance of the others, and no   *)
(* visited one is farther: its edges relax none of the visited ones, and   *)
(* no sum is cut.                                                          *)
LEMMA VisitSettling ==
  ASSUME NEW m, NEW self, Computable(m, self),
         NEW c \in Nat, Cheap(m, c), c * Cardinality(Router) < CostMod,
         NEW t, Settling(c, m, self, t), t.minq # {},
         NEW u, u = Top(t.minq)[2], u \notin t.visited
  PROVE  /\ Settling(c, m, self, Turn(t, m.graph))
         /\ Uncut(m, t, u, Turn(t, m.graph))
<1> DEFINE g == m.graph
           s1 == Turn(t, m.graph)
           closer == Closer(t, g, u)
           du == t.distance[u]
           w(v) == g[u][v].cost
<1>1. Coherent(t) /\ t \in Local /\ Coherent(s1) /\ s1 \in Local
  BY TurnCoherent DEF Settling, Coherent
<1>2. /\ u \in DOMAIN t.distance /\ closer \subseteq Router
      /\ DOMAIN s1.distance = DOMAIN t.distance \cup closer
      /\ \A v \in closer : /\ Through(t, g, u, v) \in Nat
                           /\ Through(t, g, u, v) < CostMod =>
                                s1.distance[v] = Through(t, g, u, v)
      /\ \A v \in DOMAIN t.distance \ closer : s1.distance[v] = t.distance[v]
      /\ s1.visited = t.visited \cup {u}
      /\ s1.minq = (t.minq \ {Top(t.minq)}) \cup {<<s1.distance[v], v>> : v \in closer}
  <2>1. u = Top(t.minq)[2] /\ u \notin t.visited /\ Coherent(t) /\ t.minq # {}
    BY <1>1
  <2>2. Visits(t, g, u, s1)
    BY <2>1, VisitFacts
  <2> HIDE DEF s1, g
  <2> QED BY <2>2 DEF Visits
<1>3. /\ \A v \in DOMAIN t.distance : t.distance[v] \in Nat /\ v \in Router
      /\ \A p \in t.minq : p[1] \in Nat /\ p[2] \in DOMAIN t.distance
      /\ du \in Nat /\ u \in Router
  <2>1. Cost \subseteq Nat
    BY CostModAssumption DEF Cost
  <2>2. /\ DOMAIN t.distance \subseteq Router /\ t.minq \subseteq Cost \X Router
        /\ \A v \in DOMAIN t.distance : t.distance[v] \in Cost
    BY <1>1, LocalFields
  <2>3. \A p \in t.minq : p[2] \in DOMAIN t.distance
    BY <1>1 DEF Coherent
  <2> QED BY <1>2, <2>1, <2>2, <2>3
<1>4. Top(t.minq) \in t.minq /\ \A p \in t.minq : du <= p[1]
  <2>1. Top(t.minq) \in t.minq /\ \A p \in t.minq : Top(t.minq)[1] <= p[1]
    BY <1>1, LocalFields, TopIsLeast
  <2>2. du <= Top(t.minq)[1]
    BY <2>1 DEF Settling
  <2>3. Top(t.minq)[1] \in Nat
    BY <1>3, <2>1
  <2> HIDE DEF du
  <2> QED BY <1>3, <2>1, <2>2, <2>3
<1>5. \A v \in t.visited : v \in DOMAIN t.distance /\ t.distance[v] <= du
  <2>1. <<du, u>> \in t.minq
    BY <1>2 DEF Settling
  <2>2. \A v \in t.visited \ {self} : t.distance[v] <= <<du, u>>[1]
    BY <2>1 DEF Settling, FinalIn
  <2>3. t.distance[self] = 0
    BY DEF Settling
  <2> QED BY <1>1, <1>3, <2>2, <2>3 DEF Coherent
<1>6. \A v \in DOMAIN g[u] : w(v) \in Nat /\ w(v) <= c /\ Through(t, g, u, v) = du + w(v)
  <2>1. Cost \subseteq Nat
    BY CostModAssumption DEF Cost
  <2> QED BY <1>3, <2>1, EdgeFacts DEF Cheap, Through
<1>7. /\ closer \subseteq DOMAIN g[u]
      /\ \A v \in DOMAIN g[u] \ closer : v \in DOMAIN t.distance /\ t.distance[v] <= du + w(v)
      /\ \A v \in closer : v \in DOMAIN t.distance => t.distance[v] > du + w(v)
  <2>1. closer \subseteq DOMAIN g[u]
    BY DEF Closer
  <2>2. ASSUME NEW v \in DOMAIN g[u] \ closer
        PROVE  v \in DOMAIN t.distance /\ t.distance[v] <= du + w(v)
    <3>1. v \in DOMAIN t.distance /\ ~(t.distance[v] > Through(t, g, u, v))
      BY <2>2 DEF Closer
    <3> HIDE DEF du, w, closer
    <3> QED BY <1>3, <1>6, <3>1
  <2>3. ASSUME NEW v \in closer, v \in DOMAIN t.distance PROVE t.distance[v] > du + w(v)
    <3>1. t.distance[v] > Through(t, g, u, v)
      BY <2>3 DEF Closer
    <3> QED BY <1>6, <2>1, <3>1
  <2> QED BY <2>1, <2>2, <2>3
<1>8. /\ u \notin closer
      /\ \A v \in t.visited : v \notin closer
  <2> HIDE DEF closer, du, w, g
  <2>1. u \in DOMAIN t.distance /\ t.distance[u] = du
    BY <1>2 DEF du
  <2> QED BY <1>3, <1>5, <1>6, <1>7, <2>1
<1>9. /\ Cardinality(s1.visited) = Cardinality(t.visited) + 1
      /\ Cardinality(t.visited) \in Nat
      /\ Cardinality(s1.visited) <= Cardinality(Router)
      /\ Cardinality(Router) \in Nat
  <2>1. t.visited \in SUBSET Router /\ s1.visited \in SUBSET Router /\ IsFiniteSet(Router)
    BY <1>1, LocalFields, RouterIdAssumption
  <2>2. IsFiniteSet(t.visited) /\ Cardinality(s1.visited) <= Cardinality(Router)
    BY <2>1, FS_Subset
  <2>3. Cardinality(t.visited \cup {u}) = Cardinality(t.visited) + 1
    BY <2>2, FS_AddElement
  <2>4. Cardinality(t.visited) \in Nat /\ Cardinality(Router) \in Nat
    BY <2>1, <2>2, FS_CardinalityType
  <2> QED BY <1>2, <2>2, <2>3, <2>4
<1> DEFINE k == Cardinality(t.visited)
<1>10. /\ c * k \in Nat /\ c * (k + 1) = c * k + c
       /\ c * (k + 1) <= c * Cardinality(Router)
  <2>1. k \in Nat /\ k + 1 \in Nat /\ k + 1 <= Cardinality(Router) /\ Cardinality(Router) \in Nat
    BY <1>9
  <2> HIDE DEF k
  <2>2. c * k \in Nat /\ c * (k + 1) = c * k + c
    BY <2>1, Product
  <2>3. c * (k + 1) <= c * Cardinality(Router)
    BY <2>1, Product
  <2> QED BY <2>2, <2>3
<1>11. \A v \in DOMAIN t.distance : t.distance[v] <= c * k
  BY DEF Settling
<1> HIDE DEF closer, du, w, g, k, s1
<1>12. ASSUME NEW v \in closer
       PROVE  /\ s1.distance[v] = du + w(v)
              /\ s1.distance[v] <= c * (k + 1)
  <2>1. du + w(v) <= c * k + c
    BY <1>2, <1>3, <1>6, <1>7, <1>10, <1>11 DEF du
  <2>2. c * Cardinality(Router) \in Nat
    BY <1>9
  <2>3. du + w(v) < CostMod /\ du + w(v) \in Nat
    BY <1>3, <1>6, <1>7, <1>10, <2>1, <2>2, CostModAssumption
  <2>4. Through(t, g, u, v) = du + w(v)
    BY <1>6, <1>7
  <2> QED BY <1>2, <1>10, <2>1, <2>3, <2>4
<1>13. \A v \in DOMAIN t.distance : s1.distance[v] <= t.distance[v]
  <2>1. ASSUME NEW v \in DOMAIN t.distance, v \in closer PROVE s1.distance[v] <= t.distance[v]
    BY <1>3, <1>6, <1>7, <1>12, <2>1
  <2>2. ASSUME NEW v \in DOMAIN t.distance, v \notin closer PROVE s1.distance[v] <= t.distance[v]
    BY <1>2, <1>3, <2>2
  <2> QED BY <2>1, <2>2
<1>14. \A v \in s1.visited : /\ v \in DOMAIN t.distance /\ s1.distance[v] = t.distance[v]
                             /\ s1.distance[v] <= du
  BY <1>2, <1>3, <1>5, <1>8 DEF du
<1>15. \A v \in DOMAIN s1.distance : s1.distance[v] \in Nat
  BY <1>2, <1>3, <1>6, <1>7, <1>12
<1>16. self \in s1.visited /\ s1.distance[self] = 0
  BY <1>2, <1>14 DEF Settling
<1>17. \A p \in s1.minq : s1.distance[p[2]] <= p[1] /\ du <= p[1]
  <2>1. ASSUME NEW p \in t.minq PROVE s1.distance[p[2]] <= p[1] /\ du <= p[1]
    <3>1. p[2] \in DOMAIN t.distance /\ p[1] \in Nat /\ t.distance[p[2]] <= p[1]
      BY <1>3 DEF Settling
    <3> QED BY <1>2, <1>3, <1>4, <1>13, <1>15, <3>1
  <2>2. ASSUME NEW v \in closer PROVE s1.distance[v] <= s1.distance[v] /\ du <= s1.distance[v]
    BY <1>3, <1>6, <1>7, <1>12
  <2> QED BY <1>2, <2>1, <2>2
<1>18. \A v \in DOMAIN s1.distance \ s1.visited : <<s1.distance[v], v>> \in s1.minq
  <2> SUFFICES ASSUME NEW v \in DOMAIN s1.distance \ s1.visited, v \notin closer
               PROVE  <<s1.distance[v], v>> \in s1.minq
    BY <1>2
  <2>1. v \in DOMAIN t.distance \ t.visited /\ v # u /\ s1.distance[v] = t.distance[v]
    BY <1>2
  <2>2. <<t.distance[v], v>> \in t.minq
    BY <2>1 DEF Settling
  <2>3. <<t.distance[v], v>> # Top(t.minq)
    BY <2>1
  <2> QED BY <1>2, <2>1, <2>2, <2>3
<1>19. \A v \in DOMAIN s1.distance : s1.distance[v] <= c * Cardinality(s1.visited)
  <2>1. Cardinality(s1.visited) = k + 1
    BY <1>9 DEF k
  <2>2. ASSUME NEW v \in DOMAIN t.distance PROVE s1.distance[v] <= c * (k + 1)
    BY <1>2, <1>3, <1>10, <1>11, <1>13, <1>15
  <2> QED BY <1>2, <1>12, <2>1, <2>2
<1>20. FinalIn(m, self, s1)
  <2> SUFFICES ASSUME NEW x \in s1.visited \ {self}
               PROVE  /\ \A p \in s1.minq : s1.distance[x] <= p[1]
                      /\ \A v \in DOMAIN m.graph[x] :
                           /\ v \in DOMAIN s1.distance
                           /\ s1.distance[v] <= s1.distance[x] + m.graph[x][v].cost
    BY DEF FinalIn
  <2>1. ASSUME NEW p \in s1.minq PROVE s1.distance[x] <= p[1]
    <3>1. p[1] \in Nat
      BY <1>2, <1>3, <1>15
    <3> QED BY <1>3, <1>14, <1>15, <1>2, <1>17, <3>1
  <2>2. ASSUME NEW v \in DOMAIN m.graph[x], x = u
        PROVE  /\ v \in DOMAIN s1.distance
               /\ s1.distance[v] <= s1.distance[x] + m.graph[x][v].cost
    <3>1. v \in DOMAIN g[u] /\ m.graph[x][v].cost = w(v) /\ s1.distance[x] = du
      BY <1>2, <1>14, <2>2 DEF g, w, du
    <3>2. CASE v \in closer
      BY <1>2, <1>3, <1>6, <1>12, <3>1, <3>2
    <3>3. CASE v \notin closer
      BY <1>2, <1>7, <3>1, <3>3
    <3> QED BY <3>2, <3>3
  <2>3. ASSUME NEW v \in DOMAIN m.graph[x], x # u
        PROVE  /\ v \in DOMAIN s1.distance
               /\ s1.distance[v] <= s1.distance[x] + m.graph[x][v].cost
    <3>1. x \in t.visited \ {self} /\ x \in Router /\ s1.distance[x] = t.distance[x]
      BY <1>2, <1>3, <1>14, <2>3
    <3>2. v \in DOMAIN t.distance /\ t.distance[v] <= t.distance[x] + m.graph[x][v].cost
      BY <3>1 DEF Settling, FinalIn
    <3>3. m.graph[x][v].cost \in Nat
      BY <3>1, EdgeFacts, CostModAssumption DEF Cost
    <3> QED BY <1>2, <1>3, <1>13, <1>14, <1>15, <3>1, <3>2, <3>3
  <2> QED BY <2>1, <2>2, <2>3
<1>21. ASSUME NEW x \in DOMAIN m.neighbor_table
       PROVE  x \in DOMAIN s1.distance /\ s1.distance[x] <= m.neighbor_table[x].cost
  <2>1. x \in DOMAIN t.distance /\ t.distance[x] <= m.neighbor_table[x].cost
    BY DEF Settling
  <2>2. m.neighbor_table[x].cost \in Nat
    BY CostModAssumption DEF Computable, Cost
  <2> QED BY <1>2, <1>3, <1>13, <1>15, <2>1, <2>2
<1>22. Settling(c, m, self, s1)
  BY <1>1, <1>16, <1>17, <1>18, <1>19, <1>20, <1>21 DEF Settling
<1>23. \A v \in closer : v \notin s1.visited /\ s1.distance[v] = du + w(v)
  BY <1>2, <1>8, <1>12
<1> QED BY <1>22, <1>23 DEF Uncut, s1, closer, du, w, g
---------------------------------------------------------------------------------
(* The states of the loop, turn by turn, all of them in S. *)
Turns(m, self, S, a) ==
  /\ a \in [Nat -> S] /\ a[0] = Start(m, self)
  /\ \A k \in Nat : a[k + 1] = IF a[k].minq = {} THEN a[k] ELSE Turn(a[k], m.graph)
  /\ Loop(m, self) = a[MaxTurns]

(* What a set of states keeps that holds the first one, and with a state   *)
(* the one after a turn, holds of the state Loop returns.                  *)
LEMMA LoopTurns ==
  ASSUME NEW m, NEW self, NEW S, Start(m, self) \in S,
         \A t \in S : t.minq # {} => Turn(t, m.graph) \in S
  PROVE  \E a : Turns(m, self, S, a)
<1> DEFINE F == [p \in Nat \X S |-> IF p[2].minq = {} THEN p[2] ELSE Turn(p[2], m.graph)]
           next(a) == [k \in Nat |-> IF k = 0 THEN Start(m, self)
                                     ELSE IF a[k - 1].minq = {} THEN a[k - 1]
                                          ELSE Turn(a[k - 1], m.graph)]
           after == CHOOSE a : a = next(a)
<1>1. Loop(m, self) = after[MaxTurns]
  BY DEF Loop
<1>2. \E a : a = next(a)
  <2>1. F \in [Nat \X S -> S]
    OBVIOUS
  <2> HIDE DEF F, next, after
  <2>2. PICK f : Iterates(S, Start(m, self), F, f)
    BY <2>1, Recursion
  <2>3. /\ f \in [Nat -> S] /\ f[0] = Start(m, self)
        /\ \A k \in Nat : f[k + 1] = IF f[k].minq = {} THEN f[k] ELSE Turn(f[k], m.graph)
    BY <2>2 DEF F, Iterates
  <2>4. ASSUME NEW k \in Nat
        PROVE  f[k] = IF k = 0 THEN Start(m, self)
                      ELSE IF f[k - 1].minq = {} THEN f[k - 1] ELSE Turn(f[k - 1], m.graph)
    <3>1. CASE k = 0
      BY <2>3, <3>1
    <3>2. CASE k # 0
      <4>1. k - 1 \in Nat /\ (k - 1) + 1 = k
        BY <3>2
      <4> QED BY <2>3, <3>2, <4>1
    <3> QED BY <3>1, <3>2
  <2>5. f = next(f)
    BY <2>3, <2>4 DEF next
  <2> QED BY <2>5
<1>3. after = next(after)
  BY <1>2
<1> HIDE DEF after
<1>4. /\ after[0] = Start(m, self)
      /\ \A k \in Nat : after[k + 1] = IF after[k].minq = {} THEN after[k]
                                       ELSE Turn(after[k], m.graph)
  <2>1. after[0] = Start(m, self)
    BY <1>3
  <2>2. ASSUME NEW k \in Nat
        PROVE  after[k + 1] = IF after[k].minq = {} THEN after[k] ELSE Turn(after[k], m.graph)
    <3>1. k + 1 \in Nat /\ k + 1 # 0 /\ (k + 1) - 1 = k
      OBVIOUS
    <3>2. after[k + 1] = next(after)[k + 1]
      BY <1>3
    <3> HIDE DEF next
    <3>3. next(after)[k + 1] = IF after[k].minq = {} THEN after[k] ELSE Turn(after[k], m.graph)
      BY <3>1 DEF next
    <3> QED BY <3>2, <3>3
  <2> QED BY <2>1, <2>2
<1>5. after \in [Nat -> S]
  <2> DEFINE K == {k \in Nat : after[k] \in S}
  <2>1. 0 \in K /\ \A k \in K : k + 1 \in K
    BY <1>4
  <2>2. K \in SUBSET Nat
    OBVIOUS
  <2> HIDE DEF K
  <2>3. K = Nat
    BY <2>1, <2>2, AllNat
  <2>4. after = [k \in Nat |-> after[k]]
    BY <1>3
  <2> QED BY <2>3, <2>4 DEF K
<1> QED BY <1>1, <1>4, <1>5 DEF Turns

LEMMA MaxTurnsNat == MaxTurns \in Nat
<1>1. Cardinality(Router) \in Nat
  BY RouterIdAssumption, FS_CardinalityType
<1> QED BY <1>1, Product DEF MaxTurns
---------------------------------------------------------------------------------
(* No turn leaves the loop's variables incoherent, so Loop does not. *)
LEMMA LoopCoherent ==
  ASSUME NEW m, NEW self, Computable(m, self)
  PROVE  Coherent(Loop(m, self))
<1> DEFINE S == {t \in Local : Coherent(t)}
<1>1. Start(m, self) \in S
  BY StartCoherent DEF Coherent
<1>2. \A t \in S : t.minq # {} => Turn(t, m.graph) \in S
  BY TurnCoherent DEF Coherent
<1>3. PICK a : Turns(m, self, S, a)
  <2> HIDE DEF S
  <2> QED BY <1>1, <1>2, LoopTurns
<1>4. MaxTurns \in Nat
  BY MaxTurnsNat
<1> QED BY <1>3, <1>4 DEF Turns

(* Pairs left in the queue and turns taken, against the pairs the visited  *)
(* routers can have pushed: a router pushes each router at most once.      *)
Ending(t, k) ==
  t.minq = {} \/ Cardinality(t.minq) + k <= Cardinality(Router) * Cardinality(t.visited)

LEMMA QueueFinite ==
  ASSUME NEW t, Coherent(t)
  PROVE  /\ IsFiniteSet(t.minq) /\ Cardinality(t.minq) \in Nat
         /\ IsFiniteSet(t.visited) /\ Cardinality(t.visited) \in Nat
         /\ Cardinality(t.visited) <= Cardinality(Router)
<1>1. t.minq \in SUBSET (Cost \X Router) /\ t.visited \in SUBSET Router
  BY LocalFields DEF Coherent
<1>2. IsFiniteSet(Cost)
  <2>1. 0 \in Int /\ CostMod - 1 \in Int
    BY CostModAssumption
  <2> QED BY <2>1, FS_Interval DEF Cost
<1>3. IsFiniteSet(Cost \X Router)
  BY <1>2, RouterIdAssumption, FS_Product
<1>4. IsFiniteSet(t.minq)
  BY <1>1, <1>3, FS_Subset
<1>5. IsFiniteSet(t.visited) /\ Cardinality(t.visited) <= Cardinality(Router)
  BY <1>1, RouterIdAssumption, FS_Subset
<1> QED BY <1>4, <1>5, FS_CardinalityType

(* Pairs of routers with their distances are no more than the routers. *)
LEMMA PushedBound ==
  ASSUME NEW P, NEW d, \A p \in P : p = <<d[p[2]], p[2]>> /\ p[2] \in Router
  PROVE  IsFiniteSet(P) /\ Cardinality(P) <= Cardinality(Router)
<1> DEFINE f == [p \in P |-> p[2]]
<1>1. f \in [P -> Router] /\ \A p, q \in P : f[p] = f[q] => p = q
  OBVIOUS
<1> HIDE DEF f
<1>2. f \in Injection(P, Router)
  BY <1>1 DEF Injection, IsInjective
<1> QED BY <1>2, RouterIdAssumption, FS_Injection

LEMMA TurnEnding ==
  ASSUME NEW m, NEW self, Computable(m, self), NEW t, Coherent(t), t.minq # {},
         NEW k \in Nat, Ending(t, k)
  PROVE  Ending(Turn(t, m.graph), k + 1)
<1> DEFINE u == Top(t.minq)[2]
           s1 == Turn(t, m.graph)
           R == Cardinality(Router)
           Q == t.minq \ {Top(t.minq)}
<1>1. /\ t \in Local /\ Coherent(s1)
      /\ Top(t.minq) \in t.minq
  BY TurnCoherent, TopIsLeast, LocalFields DEF Coherent
<1>2. /\ R \in Nat /\ Cardinality(t.minq) \in Nat /\ Cardinality(t.visited) \in Nat
      /\ IsFiniteSet(t.minq) /\ IsFiniteSet(t.visited)
      /\ Cardinality(t.visited) <= R
  BY QueueFinite, RouterIdAssumption, FS_CardinalityType
<1>3. IsFiniteSet(Q) /\ Cardinality(Q) = Cardinality(t.minq) - 1
  BY <1>1, <1>2, FS_RemoveElement
<1>4. Cardinality(t.minq) + k <= R * Cardinality(t.visited)
  BY DEF Ending
<1>5. CASE u \in t.visited
  <2>1. s1.visited = t.visited /\ s1.minq = Q
    BY <1>1, <1>5, TurnSkips
  <2>2. R * Cardinality(t.visited) \in Nat
    BY <1>2, Product
  <2> HIDE DEF s1, R, Q
  <2> QED BY <1>2, <1>3, <1>4, <2>1, <2>2 DEF Ending, s1, R
<1>6. CASE u \notin t.visited
  <2> DEFINE C == Closer(t, m.graph, u)
             P == {<<s1.distance[v], v>> : v \in C}
  <2>1. C \subseteq Router /\ s1.visited = t.visited \cup {u} /\ s1.minq = Q \cup P
    BY <1>6, VisitFacts DEF Visits
  <2> HIDE DEF s1, C, Q, u
  <2>2. IsFiniteSet(P) /\ Cardinality(P) <= R
    <3>1. \A p \in P : p = <<s1.distance[p[2]], p[2]>> /\ p[2] \in Router
      BY <2>1
    <3> HIDE DEF P
    <3> QED BY <3>1, PushedBound
  <2> HIDE DEF P
  <2>3. Cardinality(s1.minq) <= Cardinality(Q) + Cardinality(P)
    <3>1. /\ IsFiniteSet(Q \cap P)
          /\ Cardinality(Q \cup P) = Cardinality(Q) + Cardinality(P) - Cardinality(Q \cap P)
      BY <1>3, <2>2, FS_Union, FS_Intersection
    <3>2. Cardinality(Q \cap P) \in Nat /\ Cardinality(Q) \in Nat /\ Cardinality(P) \in Nat
      BY <1>3, <2>2, <3>1, FS_CardinalityType
    <3> HIDE DEF Q
    <3> QED BY <2>1, <3>1, <3>2
  <2>4. Cardinality(s1.visited) = Cardinality(t.visited) + 1
    BY <1>2, <1>6, <2>1, FS_AddElement
  <2> DEFINE v == Cardinality(t.visited)
  <2>5. R * v \in Nat /\ R * (v + 1) = R * v + R
    BY <1>2, Product
  <2>6. Cardinality(P) \in Nat /\ Cardinality(s1.minq) \in Nat
    BY <1>1, <2>2, QueueFinite, FS_CardinalityType
  <2>7. Cardinality(s1.minq) + (k + 1) <= R * (v + 1)
    <3> HIDE DEF R, v
    <3> QED BY <1>2, <1>3, <1>4, <2>2, <2>3, <2>5, <2>6 DEF v
  <2> QED BY <2>4, <2>7 DEF Ending, s1
<1> QED BY <1>5, <1>6

(* Whatever the graph, MaxTurns turns empty the queue: Loop is the state   *)
(* in which "while (!minq.empty())" ends.                                  *)
LEMMA LoopEnds ==
  ASSUME NEW m, NEW self, Computable(m, self)
  PROVE  Loop(m, self).minq = {}
<1> DEFINE S == {t \in Local : Coherent(t)}
           R == Cardinality(Router)
<1>1. Start(m, self) \in S /\ \A t \in S : t.minq # {} => Turn(t, m.graph) \in S
  BY StartCoherent, TurnCoherent DEF Coherent
<1>2. PICK a : Turns(m, self, S, a)
  <2> HIDE DEF S
  <2> QED BY <1>1, LoopTurns
<1>3. R \in Nat
  BY RouterIdAssumption, FS_CardinalityType
<1>4. Ending(Start(m, self), 0)
  <2> DEFINE s1 == Start(m, self)
  <2>1. /\ s1.visited = {self} /\ self \in Router
        /\ s1.minq = {<<m.neighbor_table[v].cost, v>> : v \in DOMAIN m.neighbor_table}
        /\ \A v \in DOMAIN m.neighbor_table : /\ s1.distance[v] = m.neighbor_table[v].cost
                                              /\ v \in Router
    BY DEF Start, Computable
  <2> HIDE DEF s1
  <2>2. Cardinality(s1.minq) <= R /\ IsFiniteSet(s1.minq)
    <3>1. \A p \in s1.minq : p = <<s1.distance[p[2]], p[2]>> /\ p[2] \in Router
      BY <2>1
    <3> QED BY <3>1, PushedBound
  <2>3. Cardinality(s1.visited) = 1 /\ Cardinality(s1.minq) \in Nat
    BY <2>1, <2>2, FS_Singleton, FS_CardinalityType
  <2> HIDE DEF R
  <2>4. Cardinality(s1.minq) + 0 <= R * Cardinality(s1.visited)
    BY <1>3, <2>2, <2>3
  <2> QED BY <2>4 DEF Ending, s1, R
<1> DEFINE K == {k \in Nat : Ending(a[k], k)}
<1>5. 0 \in K
  BY <1>2, <1>4 DEF Turns
<1>6. ASSUME NEW k \in K PROVE k + 1 \in K
  <2>1. a[k] \in S /\ Ending(a[k], k)
    BY <1>2 DEF Turns
  <2>2. CASE a[k].minq = {}
    BY <1>2, <2>2 DEF Turns, Ending
  <2>3. CASE a[k].minq # {}
    <3>1. a[k + 1] = Turn(a[k], m.graph)
      BY <1>2, <2>3 DEF Turns
    <3>2. Ending(Turn(a[k], m.graph), k + 1)
      BY <2>1, <2>3, TurnEnding
    <3> QED BY <3>1, <3>2
  <2> QED BY <2>2, <2>3
<1>7. MaxTurns \in K
  <2>1. K \in SUBSET Nat
    OBVIOUS
  <2> HIDE DEF K
  <2>2. K = Nat
    BY <1>5, <1>6, <2>1, AllNat
  <2> QED BY <2>2, MaxTurnsNat
<1> DEFINE e == a[MaxTurns]
<1>8. e = Loop(m, self) /\ Coherent(e) /\ Ending(e, MaxTurns)
  BY <1>2, <1>7, MaxTurnsNat DEF Turns
<1> HIDE DEF e
<1>9. /\ Cardinality(e.minq) \in Nat /\ IsFiniteSet(e.minq)
      /\ Cardinality(e.visited) \in Nat /\ Cardinality(e.visited) <= R
  BY <1>8, QueueFinite
<1>10. ASSUME Cardinality(e.minq) + MaxTurns <= R * Cardinality(e.visited)
       PROVE  Cardinality(e.minq) = 0
  <2>1. R * Cardinality(e.visited) <= R * R /\ MaxTurns = R * R
    BY <1>3, <1>9, Product DEF MaxTurns
  <2>2. R * Cardinality(e.visited) \in Nat /\ R * R \in Nat
    BY <1>3, <1>9, Product
  <2> HIDE DEF R
  <2> QED BY <1>9, <1>10, <2>1, <2>2
<1> QED BY <1>8, <1>9, <1>10, FS_EmptySet DEF Ending
---------------------------------------------------------------------------------
(* Every neighbour has a route, and a route leads over a neighbour the     *)
(* loop started from, whatever the costs: the sums may even be cut.        *)
Hopping(m, self, t) ==
  /\ Coherent(t) /\ DOMAIN m.neighbor_table \subseteq DOMAIN t.distance
  /\ self \in t.visited /\ t.distance[self] = 0
  /\ \A v \in DOMAIN t.distance \ {self} :
        \E x \in DOMAIN m.neighbor_table : t.next_hop[v] = m.port_table[m.neighbor_table[x].port]

LEMMA StartHopping ==
  ASSUME NEW m, NEW self, Computable(m, self)
  PROVE  Hopping(m, self, Start(m, self))
<1>1. Coherent(Start(m, self))
  BY StartCoherent
<1>2. /\ Start(m, self).visited = {self} /\ Start(m, self).distance[self] = 0
      /\ DOMAIN Start(m, self).distance = DOMAIN m.neighbor_table \cup {self}
      /\ \A v \in DOMAIN m.neighbor_table :
            v # self => Start(m, self).next_hop[v] = m.port_table[m.neighbor_table[v].port]
  BY DEF Start
<1> QED BY <1>1, <1>2 DEF Hopping

LEMMA TurnHopping ==
  ASSUME NEW m, NEW self, Computable(m, self), NEW t, Hopping(m, self, t), t.minq # {}
  PROVE  Hopping(m, self, Turn(t, m.graph))
<1> DEFINE u == Top(t.minq)[2]
           g == m.graph
           s1 == Turn(t, m.graph)
<1>1. Coherent(t) /\ t \in Local /\ Coherent(s1)
  BY TurnCoherent DEF Hopping, Coherent
<1>2. CASE u \in t.visited
  <2>1. s1.distance = t.distance /\ s1.next_hop = t.next_hop /\ s1.visited = t.visited
    BY <1>1, <1>2, TurnSkips
  <2> HIDE DEF s1
  <2> QED BY <1>1, <2>1 DEF Hopping, s1
<1>3. CASE u \notin t.visited
  <2> DEFINE C == Closer(t, g, u)
  <2>1. /\ u \in DOMAIN t.distance
        /\ DOMAIN s1.distance = DOMAIN t.distance \cup C
        /\ \A v \in C : Through(t, g, u, v) \in Nat /\ s1.next_hop[v] = t.next_hop[u]
        /\ \A v \in DOMAIN t.distance \ C : /\ s1.distance[v] = t.distance[v]
                                            /\ s1.next_hop[v] = t.next_hop[v]
        /\ s1.visited = t.visited \cup {u}
    <3>1. u = Top(t.minq)[2] /\ u \notin t.visited
      BY <1>3
    <3>2. Visits(t, g, u, s1)
      BY <1>1, <3>1, VisitFacts
    <3> HIDE DEF u, g, s1
    <3> QED BY <3>2 DEF Visits
  <2>2. self \in DOMAIN t.distance /\ u # self /\ self \notin C
    <3>1. self \in t.visited /\ t.distance[self] = 0 /\ t.visited \subseteq DOMAIN t.distance
      BY DEF Hopping, Coherent
    <3>2. \A v \in C : v \in DOMAIN t.distance => t.distance[v] > Through(t, g, u, v)
      BY DEF Closer
    <3> HIDE DEF C, u, g
    <3>3. self \notin C
      BY <2>1, <3>1, <3>2
    <3> QED BY <1>3, <3>1, <3>3
  <2> HIDE DEF s1, C, u, g
  <2>3. self \in s1.visited /\ s1.distance[self] = 0
    BY <2>1, <2>2 DEF Hopping
  <2>4. ASSUME NEW v \in DOMAIN s1.distance \ {self}
        PROVE  \E x \in DOMAIN m.neighbor_table :
                  s1.next_hop[v] = m.port_table[m.neighbor_table[x].port]
    <3>1. CASE v \in C
      BY <2>1, <2>2, <3>1 DEF Hopping
    <3>2. CASE v \notin C
      BY <2>1, <3>2 DEF Hopping
    <3> QED BY <3>1, <3>2
  <2>5. DOMAIN m.neighbor_table \subseteq DOMAIN s1.distance
    BY <2>1 DEF Hopping
  <2> QED BY <1>1, <2>3, <2>4, <2>5 DEF Hopping, s1
<1> QED BY <1>2, <1>3

LEMMA LoopHopping ==
  ASSUME NEW m, NEW self, Computable(m, self)
  PROVE  Hopping(m, self, Loop(m, self))
<1> DEFINE S == {t \in Local : Hopping(m, self, t)}
<1>1. \A t : Hopping(m, self, t) => t \in S
  BY DEF Hopping, Coherent
<1>2. Start(m, self) \in S
  BY <1>1, StartHopping
<1>3. \A t \in S : t.minq # {} => Turn(t, m.graph) \in S
  BY <1>1, TurnHopping
<1>4. PICK a : Turns(m, self, S, a)
  <2> HIDE DEF S
  <2> QED BY <1>2, <1>3, LoopTurns
<1> QED BY <1>4, MaxTurnsNat DEF Turns
---------------------------------------------------------------------------------
(***************************************************************************)
(* What the loop computes: the distances of real paths, that no path       *)
(* undercuts.                                                              *)
(***************************************************************************)
(* RecordEdges, of the record m. *)
EdgesOf(m) == [u \in Router |->
                 IF u = root THEN [x \in DOMAIN m.neighbor_table |-> m.neighbor_table[x].cost]
                 ELSE [x \in DOMAIN m.graph[u] |-> m.graph[u][x].cost]]

(* f[i] is the cost of the way from the first router of p to the i-th, for *)
(* the first k of them.                                                    *)
Sums(g, p, k, f) ==
  /\ f \in [1 .. k -> Nat] /\ f[1] = 0
  /\ \A i \in 1 .. k - 1 : f[i + 1] = f[i] + g[p[i]][p[i + 1]]

(* A distance is the cost of a path over visited routers that leaves by    *)
(* the next hop.                                                           *)
Traced(m, t) ==
  \A v \in DOMAIN t.distance \ {root} :
     \E p \in Paths(EdgesOf(m), root, v) :
        /\ PathCost(EdgesOf(m), p) = t.distance[v] /\ p[2] = t.next_hop[v]
        /\ \A i \in 1 .. Len(p) - 1 : p[i] \in t.visited
---------------------------------------------------------------------------------
LEMMA RecordsComputable == ASSUME NEW m \in Records PROVE Computable(m, root)
BY RecordsAssumption, RootAssumption DEF Computable

LEMMA EdgesFacts ==
  ASSUME NEW m \in Records, NEW u \in Router
  PROVE  /\ DOMAIN EdgesOf(m) = Router /\ DOMAIN EdgesOf(m)[u] \subseteq Router
         /\ \A v \in DOMAIN EdgesOf(m)[u] : EdgesOf(m)[u][v] \in Nat
         /\ u = root => /\ DOMAIN EdgesOf(m)[u] = DOMAIN m.neighbor_table
                        /\ \A v \in DOMAIN EdgesOf(m)[u] :
                              EdgesOf(m)[u][v] = m.neighbor_table[v].cost
         /\ u # root => /\ DOMAIN EdgesOf(m)[u] = DOMAIN m.graph[u]
                        /\ \A v \in DOMAIN EdgesOf(m)[u] :
                              EdgesOf(m)[u][v] = m.graph[u][v].cost
<1>1. Cost \subseteq Nat
  BY CostModAssumption DEF Cost
<1>2. CASE u = root
  <2>1. EdgesOf(m)[u] = [x \in DOMAIN m.neighbor_table |-> m.neighbor_table[x].cost]
    BY <1>2 DEF EdgesOf
  <2>2. DOMAIN EdgesOf(m) = Router
    BY DEF EdgesOf
  <2>3. /\ DOMAIN m.neighbor_table \subseteq Router
        /\ \A x \in DOMAIN m.neighbor_table : m.neighbor_table[x].cost \in Nat
    BY <1>1, RecordsAssumption
  <2>4. DOMAIN EdgesOf(m)[u] = DOMAIN m.neighbor_table
    BY <2>1
  <2>5. \A v \in DOMAIN EdgesOf(m)[u] : EdgesOf(m)[u][v] = m.neighbor_table[v].cost
    BY <2>1
  <2>6. \A v \in DOMAIN EdgesOf(m)[u] : EdgesOf(m)[u][v] \in Nat
    BY <2>3, <2>4, <2>5
  <2>7. DOMAIN EdgesOf(m)[u] \subseteq Router
    BY <2>3, <2>4
  <2> QED BY <1>2, <2>2, <2>4, <2>5, <2>6, <2>7
<1>3. CASE u # root
  <2>1. EdgesOf(m)[u] = [x \in DOMAIN m.graph[u] |-> m.graph[u][x].cost]
    BY <1>3 DEF EdgesOf
  <2>2. DOMAIN EdgesOf(m) = Router
    BY DEF EdgesOf
  <2>3. /\ DOMAIN m.graph[u] \subseteq Router
        /\ \A x \in DOMAIN m.graph[u] : m.graph[u][x].cost \in Nat
    BY <1>1, RecordsAssumption
  <2>4. DOMAIN EdgesOf(m)[u] = DOMAIN m.graph[u]
    BY <2>1
  <2>5. \A v \in DOMAIN EdgesOf(m)[u] : EdgesOf(m)[u][v] = m.graph[u][v].cost
    BY <2>1
  <2>6. \A v \in DOMAIN EdgesOf(m)[u] : EdgesOf(m)[u][v] \in Nat
    BY <2>3, <2>4, <2>5
  <2>7. DOMAIN EdgesOf(m)[u] \subseteq Router
    BY <2>3, <2>4
  <2> QED BY <1>3, <2>2, <2>4, <2>5, <2>6, <2>7
<1> QED BY <1>2, <1>3

(* A path of the definition, as a function of its positions. *)
LEMMA PathElim ==
  ASSUME NEW m \in Records, NEW d, NEW p \in Paths(EdgesOf(m), root, d)
  PROVE  /\ Len(p) \in Nat \ {0} /\ p \in [1 .. Len(p) -> Router]
         /\ p[1] = root /\ p[Len(p)] = d
         /\ \A i, j \in 1 .. Len(p) : p[i] = p[j] => i = j
         /\ \A i \in 1 .. Len(p) - 1 : /\ p[i + 1] \in DOMAIN EdgesOf(m)[p[i]]
                                       /\ EdgesOf(m)[p[i]][p[i + 1]] \in Nat
<1>1. DOMAIN EdgesOf(m) = Router
  BY DEF EdgesOf
<1>2. Cardinality(Router) \in Nat
  BY RouterIdAssumption, FS_CardinalityType
<1>3. PICK k \in 0 .. Cardinality(Router) : p \in [1 .. k -> Router]
  BY <1>1 DEF Paths, SeqOf
<1>4. Len(p) = k /\ k \in Nat /\ p \in Seq(Router)
  BY <1>2, <1>3
<1>5. /\ p # <<>> /\ p[1] = root /\ p[Len(p)] = d /\ IsInjective(p)
      /\ \A i \in 1 .. Len(p) - 1 : p[i + 1] \in DOMAIN EdgesOf(m)[p[i]]
  BY DEF Paths
<1>6. k # 0
  BY <1>3, <1>4, <1>5
<1>7. \A i, j \in 1 .. Len(p) : p[i] = p[j] => i = j
  BY <1>3, <1>4, <1>5 DEF IsInjective
<1>8. \A i \in 1 .. Len(p) - 1 : EdgesOf(m)[p[i]][p[i + 1]] \in Nat
  BY <1>3, <1>4, <1>5, EdgesFacts
<1> QED BY <1>3, <1>4, <1>5, <1>6, <1>7, <1>8

LEMMA PathIntro ==
  ASSUME NEW m \in Records, NEW d, NEW k \in Nat \ {0}, NEW p \in [1 .. k -> Router],
         p[1] = root, p[k] = d, \A i, j \in 1 .. k : p[i] = p[j] => i = j,
         \A i \in 1 .. k - 1 : p[i + 1] \in DOMAIN EdgesOf(m)[p[i]]
  PROVE  p \in Paths(EdgesOf(m), root, d) /\ Len(p) = k
<1>1. DOMAIN EdgesOf(m) = Router
  BY DEF EdgesOf
<1>2. Len(p) = k /\ p \in Seq(Router) /\ p # <<>>
  OBVIOUS
<1>3. IsInjective(p)
  BY DEF IsInjective
<1>4. k <= Cardinality(Router)
  <2>1. p \in Injection(1 .. k, Router)
    BY <1>3 DEF Injection
  <2>2. Cardinality(1 .. k) <= Cardinality(Router)
    BY <2>1, RouterIdAssumption, FS_Injection
  <2>3. Cardinality(1 .. k) = k
    BY FS_Interval
  <2> QED BY <2>2, <2>3
<1>5. p \in SeqOf(Router, Cardinality(Router))
  <2>1. k \in 0 .. Cardinality(Router)
    BY <1>4, RouterIdAssumption, FS_CardinalityType
  <2> QED BY <2>1 DEF SeqOf
<1> QED BY <1>1, <1>2, <1>3, <1>5 DEF Paths

(* The sums along a path exist, and are the only ones. *)
LEMMA PathSums ==
  ASSUME NEW m \in Records, NEW d, NEW p \in Paths(EdgesOf(m), root, d)
  PROVE  \E f : Sums(EdgesOf(m), p, Len(p), f) /\ PathCost(EdgesOf(m), p) = f[Len(p)]
<1> DEFINE g == EdgesOf(m)
           k == Len(p)
           w(i) == g[p[i]][p[i + 1]]
           F == [q \in Nat \X Nat |-> IF q[1] \in 1 .. k - 1 THEN q[2] + w(q[1]) ELSE 0]
           next(f) == [i \in 1 .. k |-> IF i = 1 THEN 0 ELSE f[i - 1] + g[p[i - 1]][p[i]]]
           upto == CHOOSE f : f = next(f)
<1>1. k \in Nat \ {0} /\ \A i \in 1 .. k - 1 : w(i) \in Nat
  BY PathElim
<1>2. PathCost(g, p) = upto[k]
  BY DEF PathCost
<1> HIDE DEF g, k
<1>3. \E f : f = next(f)
  <2>1. F \in [Nat \X Nat -> Nat]
    <3> HIDE DEF w
    <3> QED BY <1>1
  <2> HIDE DEF F
  <2>2. PICK h : Iterates(Nat, 0, F, h)
    BY <2>1, Recursion
  <2>3. h \in [Nat -> Nat] /\ h[0] = 0 /\ \A i \in Nat : h[i + 1] = F[<<i, h[i]>>]
    BY <2>2 DEF Iterates
  <2>4. \A i \in Nat : h[i + 1] = IF i \in 1 .. k - 1 THEN h[i] + w(i) ELSE 0
    <3> HIDE DEF w
    <3> QED BY <2>3 DEF F
  <2> DEFINE f == [i \in 1 .. k |-> h[i]]
  <2>5. ASSUME NEW i \in 1 .. k
        PROVE  f[i] = IF i = 1 THEN 0 ELSE f[i - 1] + g[p[i - 1]][p[i]]
    <3>1. i - 1 \in Nat /\ (i - 1) + 1 = i /\ (i # 1 => i - 1 \in 1 .. k - 1 /\ i - 1 \in 1 .. k)
      BY <1>1
    <3>2. h[(i - 1) + 1] = IF i - 1 \in 1 .. k - 1 THEN h[i - 1] + w(i - 1) ELSE 0
      BY <2>4, <3>1
    <3>3. i = 1 => i - 1 \notin 1 .. k - 1
      OBVIOUS
    <3> QED BY <3>1, <3>2, <3>3
  <2>6. f = next(f)
    BY <2>5
  <2> QED BY <2>6
<1>4. upto = next(upto)
  BY <1>3
<1> HIDE DEF upto
<1>5. upto[1] = 0 /\ \A i \in 1 .. k - 1 : upto[i + 1] = upto[i] + w(i)
  <2>1. upto[1] = 0
    BY <1>1, <1>4
  <2>2. ASSUME NEW i \in 1 .. k - 1 PROVE upto[i + 1] = upto[i] + w(i)
    <3>1. i + 1 \in 1 .. k /\ i + 1 # 1 /\ (i + 1) - 1 = i
      BY <1>1
    <3>2. upto[i + 1] = next(upto)[i + 1]
      BY <1>4
    <3> QED BY <3>1, <3>2
  <2> QED BY <2>1, <2>2
<1>6. upto \in [1 .. k -> Nat]
  <2> DEFINE K == {i \in Nat : i + 1 \in 1 .. k => upto[i + 1] \in Nat}
  <2>1. 0 \in K
    BY <1>5
  <2>2. ASSUME NEW i \in K PROVE i + 1 \in K
    <3> SUFFICES ASSUME (i + 1) + 1 \in 1 .. k PROVE upto[(i + 1) + 1] \in Nat
      OBVIOUS
    <3>1. i + 1 \in 1 .. k - 1 /\ i + 1 \in 1 .. k
      BY <1>1
    <3>2. upto[i + 1] \in Nat /\ w(i + 1) \in Nat /\ upto[(i + 1) + 1] = upto[i + 1] + w(i + 1)
      BY <1>1, <1>5, <3>1
    <3> HIDE DEF w
    <3> QED BY <3>2
  <2>3. K \in SUBSET Nat
    OBVIOUS
  <2> HIDE DEF K
  <2>4. K = Nat
    BY <2>1, <2>2, <2>3, AllNat
  <2>5. \A i \in 1 .. k : i - 1 \in Nat /\ (i - 1) + 1 = i
    BY <1>1
  <2>6. ASSUME NEW i \in 1 .. k PROVE upto[i] \in Nat
    <3>1. i - 1 \in K /\ (i - 1) + 1 = i
      BY <2>4, <2>5
    <3>2. (i - 1) + 1 \in 1 .. k => upto[(i - 1) + 1] \in Nat
      BY <3>1 DEF K
    <3> QED BY <3>1, <3>2
  <2>7. upto = [i \in 1 .. k |-> upto[i]]
    BY <1>4
  <2> QED BY <2>6, <2>7
<1> QED BY <1>2, <1>5, <1>6 DEF Sums, g, k

LEMMA SumsUnique ==
  ASSUME NEW g, NEW p, NEW k \in Nat \ {0}, NEW q, NEW j \in Nat \ {0},
         k <= j, \A i \in 1 .. k : q[i] = p[i],
         NEW f, Sums(g, p, k, f), NEW h, Sums(g, q, j, h)
  PROVE  \A i \in 1 .. k : h[i] = f[i]
<1> DEFINE K == {i \in Nat : i + 1 \in 1 .. k => h[i + 1] = f[i + 1]}
<1>1. 0 \in K
  BY DEF Sums
<1>2. ASSUME NEW i \in K PROVE i + 1 \in K
  <2> SUFFICES ASSUME (i + 1) + 1 \in 1 .. k PROVE h[(i + 1) + 1] = f[(i + 1) + 1]
    OBVIOUS
  <2>1. i + 1 \in 1 .. k - 1 /\ i + 1 \in 1 .. j - 1 /\ i + 1 \in 1 .. k
    OBVIOUS
  <2>2. h[i + 1] = f[i + 1] /\ q[i + 1] = p[i + 1] /\ q[(i + 1) + 1] = p[(i + 1) + 1]
    BY <2>1
  <2>3. /\ h[(i + 1) + 1] = h[i + 1] + g[q[i + 1]][q[(i + 1) + 1]]
        /\ f[(i + 1) + 1] = f[i + 1] + g[p[i + 1]][p[(i + 1) + 1]]
    BY <2>1 DEF Sums
  <2> QED BY <2>2, <2>3
<1>3. K \in SUBSET Nat
  OBVIOUS
<1> HIDE DEF K
<1>4. K = Nat
  BY <1>1, <1>2, <1>3, AllNat
<1>5. \A i \in 1 .. k : i - 1 \in Nat /\ (i - 1) + 1 = i
  OBVIOUS
<1> QED BY <1>4, <1>5 DEF K
---------------------------------------------------------------------------------
(* Where the queue is empty no path costs less than the distance kept for  *)
(* its end: along the path every router is visited, so its edges were used.*)
LEMMA Dominates ==
  ASSUME NEW m \in Records, NEW c \in Nat, NEW t, Settling(c, m, root, t), t.minq = {},
         NEW d, NEW p \in Paths(EdgesOf(m), root, d)
  PROVE  d \in DOMAIN t.distance /\ t.distance[d] <= PathCost(EdgesOf(m), p)
<1> DEFINE g == EdgesOf(m)
           k == Len(p)
<1>1. PICK f : Sums(g, p, k, f) /\ PathCost(g, p) = f[k]
  BY PathSums
<1>2. /\ k \in Nat \ {0} /\ p[1] = root /\ p[k] = d
      /\ \A i \in 1 .. k : p[i] \in Router
      /\ \A i \in 1 .. k - 1 : p[i + 1] \in DOMAIN g[p[i]] /\ g[p[i]][p[i + 1]] \in Nat
  BY PathElim
<1>3. /\ f[1] = 0 /\ \A i \in 1 .. k : f[i] \in Nat
      /\ \A i \in 1 .. k - 1 : f[i + 1] = f[i] + g[p[i]][p[i + 1]]
  BY <1>1 DEF Sums
<1>4. /\ root \in t.visited /\ t.distance[root] = 0 /\ t.visited \subseteq DOMAIN t.distance
      /\ \A x \in DOMAIN t.distance : x \in t.visited
      /\ \A x \in DOMAIN t.distance : t.distance[x] \in Nat
  <2>1. Cost \subseteq Nat
    BY CostModAssumption DEF Cost
  <2> QED BY <2>1, LocalFields DEF Settling, Coherent
<1> DEFINE Near(i) == p[i] \in DOMAIN t.distance /\ t.distance[p[i]] <= f[i]
           K == {i \in Nat : i + 1 \in 1 .. k => Near(i + 1)}
<1>5. 0 \in K
  BY <1>2, <1>3, <1>4
<1> HIDE DEF k
<1>6. ASSUME NEW i \in 1 .. k - 1, Near(i) PROVE Near(i + 1)
  <2> DEFINE x == p[i]
             y == p[i + 1]
  <2>1. i \in 1 .. k /\ i + 1 \in 1 .. k
    BY <1>2
  <2>2. /\ x \in Router /\ y \in DOMAIN g[x] /\ g[x][y] \in Nat
        /\ f[i] \in Nat /\ f[i + 1] \in Nat /\ f[i + 1] = f[i] + g[x][y]
    BY <1>2, <1>3, <2>1
  <2>3. x \in DOMAIN t.distance /\ t.distance[x] <= f[i] /\ x \in t.visited
    BY <1>4, <1>6
  <2>4. CASE x = root
    <3>1. y \in DOMAIN m.neighbor_table /\ g[x][y] = m.neighbor_table[y].cost
      BY <2>2, <2>4, EdgesFacts
    <3>2. y \in DOMAIN t.distance /\ t.distance[y] <= g[x][y]
      BY <3>1 DEF Settling
    <3> HIDE DEF g, x, y
    <3>3. t.distance[y] <= f[i + 1]
      BY <1>4, <2>2, <3>2
    <3> QED BY <3>2, <3>3 DEF y
  <2>5. CASE x # root
    <3>1. y \in DOMAIN m.graph[x] /\ g[x][y] = m.graph[x][y].cost
      BY <2>2, <2>5, EdgesFacts
    <3>2. y \in DOMAIN t.distance /\ t.distance[y] <= t.distance[x] + g[x][y]
      BY <2>3, <2>5, <3>1 DEF Settling, FinalIn
    <3> HIDE DEF g, x, y
    <3>3. t.distance[y] <= f[i + 1]
      BY <1>4, <2>2, <2>3, <3>2
    <3> QED BY <3>2, <3>3 DEF y
  <2> QED BY <2>4, <2>5
<1> HIDE DEF Near
<1>7. ASSUME NEW i \in K PROVE i + 1 \in K
  <2> SUFFICES ASSUME (i + 1) + 1 \in 1 .. k PROVE Near((i + 1) + 1)
    OBVIOUS
  <2>1. i + 1 \in 1 .. k /\ i + 1 \in 1 .. k - 1
    BY <1>2
  <2> QED BY <1>6, <2>1
<1>8. K = Nat
  <2>1. K \in SUBSET Nat
    OBVIOUS
  <2> HIDE DEF K
  <2> QED BY <1>5, <1>7, <2>1, AllNat
<1>9. Near(k)
  <2>0. k - 1 \in Nat /\ (k - 1) + 1 = k /\ k \in 1 .. k
    BY <1>2
  <2>1. k - 1 \in K
    <3> HIDE DEF K
    <3> QED BY <1>8, <2>0
  <2>2. (k - 1) + 1 \in 1 .. k => Near((k - 1) + 1)
    BY <2>1 DEF K
  <2> QED BY <2>0, <2>2
<1> QED BY <1>1, <1>2, <1>9 DEF Near, k

(* One more edge at the end of a path. *)
LEMMA Extended ==
  ASSUME NEW m \in Records, NEW u \in Router \ {root}, NEW p \in Paths(EdgesOf(m), root, u),
         NEW v \in DOMAIN m.graph[u], \A i \in 1 .. Len(p) : p[i] # v
  PROVE  \E q \in Paths(EdgesOf(m), root, v) :
            /\ PathCost(EdgesOf(m), q) = PathCost(EdgesOf(m), p) + m.graph[u][v].cost
            /\ q[2] = p[2] /\ Len(q) = Len(p) + 1
            /\ \A i \in 1 .. Len(p) : q[i] = p[i]
<1> DEFINE g == EdgesOf(m)
           k == Len(p)
           q == [i \in 1 .. k + 1 |-> IF i = k + 1 THEN v ELSE p[i]]
<1>1. /\ k \in Nat \ {0} /\ p \in [1 .. k -> Router] /\ p[1] = root /\ p[k] = u
      /\ \A i, j \in 1 .. k : p[i] = p[j] => i = j
      /\ \A i \in 1 .. k - 1 : p[i + 1] \in DOMAIN g[p[i]]
  <2>1. /\ Len(p) \in Nat \ {0} /\ p \in [1 .. Len(p) -> Router]
        /\ p[1] = root /\ p[Len(p)] = u
        /\ \A i, j \in 1 .. Len(p) : p[i] = p[j] => i = j
        /\ \A i \in 1 .. Len(p) - 1 : p[i + 1] \in DOMAIN EdgesOf(m)[p[i]]
    <3> HIDE DEF q, g, k
    <3> QED BY PathElim
  <2> HIDE DEF q
  <2> QED BY <2>1 DEF g, k
<1>2. v \in DOMAIN g[u] /\ v \in Router /\ g[u][v] = m.graph[u][v].cost
  BY EdgesFacts
<1>3. \A i \in 1 .. k : p[i] # v
  OBVIOUS
<1> HIDE DEF g, k
<1>4. k + 1 \in Nat \ {0} /\ k >= 2
  BY <1>1
<1>5. /\ q \in [1 .. k + 1 -> Router] /\ q[k + 1] = v
      /\ \A i \in 1 .. k : q[i] = p[i]
  BY <1>1, <1>2
<1> HIDE DEF q
<1>6. \A i, j \in 1 .. k + 1 : q[i] = q[j] => i = j
  <2> SUFFICES ASSUME NEW i \in 1 .. k + 1, NEW j \in 1 .. k + 1, q[i] = q[j] PROVE i = j
    OBVIOUS
  <2>1. /\ i \in 1 .. k \/ i = k + 1
        /\ j \in 1 .. k \/ j = k + 1
    BY <1>1
  <2> QED BY <1>1, <1>3, <1>5, <2>1
<1>7. \A i \in 1 .. (k + 1) - 1 : q[i + 1] \in DOMAIN g[q[i]]
  <2> SUFFICES ASSUME NEW i \in 1 .. k PROVE q[i + 1] \in DOMAIN g[q[i]]
    BY <1>1
  <2>1. CASE i = k
    BY <1>1, <1>2, <1>5, <2>1
  <2>2. CASE i # k
    <3>1. i \in 1 .. k - 1 /\ i + 1 \in 1 .. k
      BY <1>1, <2>2
    <3> QED BY <1>1, <1>5, <3>1
  <2> QED BY <2>1, <2>2
<1>8. q \in Paths(g, root, v) /\ Len(q) = k + 1
  <2> DEFINE j == k + 1
  <2>1. q[1] = root /\ j \in Nat \ {0} /\ q \in [1 .. j -> Router] /\ q[j] = v
    BY <1>1, <1>4, <1>5
  <2>2. /\ \A i, i2 \in 1 .. j : q[i] = q[i2] => i = i2
        /\ \A i \in 1 .. j - 1 : q[i + 1] \in DOMAIN g[q[i]]
    BY <1>6, <1>7
  <2>3. q \in Paths(g, root, v) /\ Len(q) = j
    <3> HIDE DEF j
    <3> QED BY <2>1, <2>2, PathIntro DEF g
  <2> QED BY <2>3
<1>9. PICK f : Sums(g, p, k, f) /\ PathCost(g, p) = f[k]
  BY PathSums DEF g, k
<1>10. PICK h : Sums(g, q, k + 1, h) /\ PathCost(g, q) = h[k + 1]
  <2>1. PICK h : Sums(EdgesOf(m), q, Len(q), h) /\ PathCost(EdgesOf(m), q) = h[Len(q)]
    BY <1>8, PathSums DEF g
  <2> QED BY <1>8, <2>1 DEF g
<1>11. h[k] = f[k]
  <2>1. k <= k + 1 /\ k \in 1 .. k
    BY <1>1
  <2>2. \A i \in 1 .. k : h[i] = f[i]
    <3> DEFINE j == k + 1
    <3>1. /\ Sums(g, p, k, f) /\ Sums(g, q, j, h)
          /\ \A i \in 1 .. k : q[i] = p[i]
      BY <1>5, <1>8, <1>9, <1>10
    <3>2. k \in Nat \ {0} /\ j \in Nat \ {0} /\ k <= j
      BY <1>1, <1>4, <2>1
    <3> HIDE DEF j
    <3> QED BY <3>1, <3>2, SumsUnique
  <2> QED BY <2>1, <2>2
<1>12. h[k + 1] = f[k] + g[u][v]
  <2>1. k \in 1 .. Len(q) - 1 /\ k \in 1 .. k
    BY <1>1, <1>8
  <2>2. h[k + 1] = h[k] + g[q[k]][q[k + 1]]
    BY <1>10, <2>1 DEF Sums
  <2>3. q[k] = u /\ q[k + 1] = v
    BY <1>1, <1>5, <2>1
  <2> QED BY <1>11, <2>2, <2>3
<1>13. q[2] = p[2]
  <2>1. 2 \in 1 .. k
    BY <1>1, <1>4
  <2> QED BY <1>5, <2>1
<1> QED BY <1>2, <1>5, <1>8, <1>9, <1>10, <1>12, <1>13 DEF g, k

LEMMA StartTraced ==
  ASSUME NEW m \in Records
  PROVE  Traced(m, Start(m, root))
<1> DEFINE g == EdgesOf(m)
           nb == m.neighbor_table
           s1 == Start(m, root)
<1>1. /\ DOMAIN s1.distance \ {root} = DOMAIN nb \ {root}
      /\ \A v \in DOMAIN nb \ {root} : /\ s1.distance[v] = nb[v].cost
                                       /\ s1.next_hop[v] = m.port_table[nb[v].port]
      /\ s1.visited = {root}
  BY DEF Start
<1>2. ASSUME NEW v \in DOMAIN nb \ {root}
      PROVE  \E p \in Paths(g, root, v) :
                /\ PathCost(g, p) = nb[v].cost /\ p[2] = m.port_table[nb[v].port]
                /\ \A i \in 1 .. Len(p) - 1 : p[i] \in {root}
  <2> DEFINE k == 2
             p == [i \in 1 .. k |-> IF i = 1 THEN root ELSE v]
  <2>1. v \in Router /\ root \in Router /\ v # root /\ m.port_table[nb[v].port] = v
    BY RecordsAssumption, RootAssumption
  <2>2. v \in DOMAIN g[root] /\ g[root][v] = nb[v].cost
    BY RootAssumption, EdgesFacts
  <2> HIDE DEF g, nb
  <2>3. /\ k \in Nat \ {0} /\ p \in [1 .. k -> Router] /\ p[1] = root /\ p[2] = v /\ p[k] = v
        /\ \A i, j \in 1 .. k : p[i] = p[j] => i = j
        /\ \A i \in 1 .. k - 1 : i = 1
    BY <2>1
  <2> HIDE DEF p
  <2>4. \A i \in 1 .. k - 1 : p[i + 1] \in DOMAIN g[p[i]]
    BY <2>2, <2>3
  <2>5. p \in Paths(g, root, v) /\ Len(p) = k
    <3> HIDE DEF k
    <3> QED BY <2>3, <2>4, PathIntro DEF g
  <2>6. PICK f : Sums(g, p, Len(p), f) /\ PathCost(g, p) = f[Len(p)]
    BY <2>5, PathSums DEF g
  <2>7. f[2] = f[1] + g[p[1]][p[2]] /\ f[1] = 0
    <3>1. 1 \in 1 .. Len(p) - 1
      BY <2>5
    <3> QED BY <2>6, <3>1 DEF Sums
  <2>8. g[root][v] \in Nat
    BY <2>2, RootAssumption, EdgesFacts DEF g
  <2>9. PathCost(g, p) = nb[v].cost
    BY <2>2, <2>3, <2>5, <2>6, <2>7, <2>8
  <2> QED BY <2>1, <2>3, <2>5, <2>9
<1> QED BY <1>1, <1>2 DEF Traced

LEMMA TurnTraced ==
  ASSUME NEW m \in Records, NEW c \in Nat, Cheap(m, c), c * Cardinality(Router) < CostMod,
         NEW t, Settling(c, m, root, t), Traced(m, t), t.minq # {}
  PROVE  Traced(m, Turn(t, m.graph))
<1> DEFINE u == Top(t.minq)[2]
           g == m.graph
           s1 == Turn(t, m.graph)
           E == EdgesOf(m)
<1>1. Computable(m, root)
  BY RecordsComputable
<1>2. Coherent(t) /\ t \in Local
  BY DEF Settling, Coherent
<1>3. CASE u \in t.visited
  <2>1. s1.distance = t.distance /\ s1.next_hop = t.next_hop /\ s1.visited = t.visited
    BY <1>2, <1>3, TurnSkips
  <2> HIDE DEF s1
  <2> QED BY <2>1 DEF Traced, s1
<1>4. CASE u \notin t.visited
  <2> DEFINE C == Closer(t, g, u)
  <2>1. u = Top(t.minq)[2] /\ u \notin t.visited
    BY <1>4
  <2>2. Visits(t, g, u, s1)
    <3> HIDE DEF u
    <3> QED BY <1>1, <1>2, <2>1, VisitFacts
  <2>3. \A v \in C : v \notin s1.visited /\ s1.distance[v] = t.distance[u] + g[u][v].cost
    <3>1. Uncut(m, t, u, s1)
      <4> HIDE DEF u
      <4> QED BY <1>1, <2>1, VisitSettling
    <3> HIDE DEF u
    <3> QED BY <3>1 DEF Uncut
  <2>4. C \subseteq DOMAIN g[u]
    BY DEF Closer
  <2> HIDE DEF u, g, s1, C
  <2>5. /\ u \in DOMAIN t.distance
        /\ DOMAIN s1.distance = DOMAIN t.distance \cup C
        /\ \A v \in C : s1.next_hop[v] = t.next_hop[u]
        /\ \A v \in DOMAIN t.distance \ C : /\ s1.distance[v] = t.distance[v]
                                            /\ s1.next_hop[v] = t.next_hop[v]
        /\ s1.visited = t.visited \cup {u}
    BY <2>2 DEF Visits, C
  <2>6. u \in Router \ {root}
    BY <1>2, <2>1, <2>5, LocalFields DEF Settling
  <2>7. PICK p \in Paths(E, root, u) :
           /\ PathCost(E, p) = t.distance[u] /\ p[2] = t.next_hop[u]
           /\ \A i \in 1 .. Len(p) - 1 : p[i] \in t.visited
    BY <2>5, <2>6 DEF Traced
  <2>8. /\ Len(p) \in Nat \ {0} /\ p[Len(p)] = u
        /\ \A i \in 1 .. Len(p) : p[i] \in s1.visited
    <3>1. Len(p) \in Nat \ {0} /\ p[Len(p)] = u
      BY PathElim
    <3> QED BY <2>5, <2>7, <3>1
  <2> SUFFICES ASSUME NEW v \in DOMAIN s1.distance \ {root}
               PROVE  \E q \in Paths(E, root, v) :
                         /\ PathCost(E, q) = s1.distance[v] /\ q[2] = s1.next_hop[v]
                         /\ \A i \in 1 .. Len(q) - 1 : q[i] \in s1.visited
    BY DEF Traced, s1
  <2>9. CASE v \in C
    <3>1. v \in DOMAIN m.graph[u] /\ \A i \in 1 .. Len(p) : p[i] # v
      BY <2>3, <2>4, <2>8, <2>9 DEF g
    <3>2. PICK q \in Paths(E, root, v) :
             /\ PathCost(E, q) = PathCost(E, p) + m.graph[u][v].cost
             /\ q[2] = p[2] /\ Len(q) = Len(p) + 1
             /\ \A i \in 1 .. Len(p) : q[i] = p[i]
      BY <2>6, <3>1, Extended
    <3>3. PathCost(E, q) = s1.distance[v] /\ q[2] = s1.next_hop[v]
      BY <2>3, <2>5, <2>7, <2>9, <3>2 DEF g
    <3>4. \A i \in 1 .. Len(q) - 1 : q[i] \in s1.visited
      BY <2>8, <3>2
    <3> QED BY <3>3, <3>4
  <2>10. CASE v \notin C
    <3>1. PICK q \in Paths(E, root, v) :
             /\ PathCost(E, q) = t.distance[v] /\ q[2] = t.next_hop[v]
             /\ \A i \in 1 .. Len(q) - 1 : q[i] \in t.visited
      BY <2>5, <2>10 DEF Traced
    <3>2. s1.distance[v] = t.distance[v] /\ s1.next_hop[v] = t.next_hop[v]
      BY <2>5, <2>10
    <3> QED BY <2>5, <3>1, <3>2
  <2> QED BY <2>9, <2>10
<1> QED BY <1>3, <1>4

(* What Loop returns: distances of real paths, that no path undercuts. *)
LEMMA LoopTraced ==
  ASSUME NEW m \in Records, NEW c \in Nat, Cheap(m, c), c * Cardinality(Router) < CostMod
  PROVE  Settling(c, m, root, Loop(m, root)) /\ Traced(m, Loop(m, root))
<1> DEFINE S == {t \in Local : Settling(c, m, root, t) /\ Traced(m, t)}
<1>1. \A t : Settling(c, m, root, t) /\ Traced(m, t) => t \in S
  BY DEF Settling, Coherent
<1>2. Computable(m, root)
  BY RecordsComputable
<1>3. Start(m, root) \in S
  BY <1>1, <1>2, StartSettling, StartTraced
<1>4. ASSUME NEW t \in S, t.minq # {} PROVE Turn(t, m.graph) \in S
  <2>1. Settling(c, m, root, t) /\ Traced(m, t)
    OBVIOUS
  <2>2. Settling(c, m, root, Turn(t, m.graph))
    BY <1>2, <1>4, <2>1, SkipSettling, VisitSettling
  <2>3. Traced(m, Turn(t, m.graph))
    BY <1>4, <2>1, TurnTraced
  <2> QED BY <1>1, <2>2, <2>3
<1>5. PICK a : Turns(m, root, S, a)
  <2> HIDE DEF S
  <2> QED BY <1>3, <1>4, LoopTurns
<1> QED BY <1>5, MaxTurnsNat DEF Turns

LEMMA NarrowCheap ==
  ASSUME RecordsNarrow
  PROVE  \E c \in Nat : c * Cardinality(Router) < CostMod /\ \A m \in Records : Cheap(m, c)
<1>1. Cost \subseteq Nat
  BY CostModAssumption DEF Cost
<1> QED BY <1>1 DEF RecordsNarrow, CostsUpTo, Cheap
---------------------------------------------------------------------------------
LoopInv == record \in Records /\ Coherent(locals)

(* The two maps have the same keys, the visited routers among them, and    *)
(* costs keep their 16 bits, whatever the graph is.                        *)
THEOREM LocalsCorrect == LoopSpec => []LocalsOK
<1>1. StartLoop => LoopInv
  BY RecordsComputable, StartCoherent DEF StartLoop, LoopInv
<1>2. LoopInv /\ [TakeTurn]_loopVars => LoopInv'
  BY RecordsComputable, TurnCoherent DEF LoopInv, TakeTurn, loopVars
<1>3. LoopInv => LocalsOK
  BY LocalFields DEF LoopInv, LocalsOK, Coherent
<1> QED BY <1>1, <1>2, <1>3, PTL DEF LoopSpec

(* No router that was visited would have to be visited again, on any       *)
(* graph whose longest path fits in 16 bits.                               *)
THEOREM VisitedAlwaysFinal == ASSUME RecordsNarrow PROVE LoopSpec => []VisitedIsFinal
<1>1. PICK c \in Nat : c * Cardinality(Router) < CostMod /\ \A m \in Records : Cheap(m, c)
  BY NarrowCheap
<1> DEFINE Inv == record \in Records /\ Settling(c, record, root, locals)
<1>2. StartLoop => Inv
  BY <1>1, RecordsComputable, StartSettling DEF StartLoop
<1>3. Inv /\ [TakeTurn]_loopVars => Inv'
  BY <1>1, RecordsComputable, SkipSettling, VisitSettling DEF TakeTurn, loopVars
<1>4. Inv => VisitedIsFinal
  BY DEF Settling, FinalIn, VisitedIsFinal
<1> QED BY <1>2, <1>3, <1>4, PTL DEF LoopSpec

(* The routing table that update_forwarding_table stores lists exactly the *)
(* routers that have a path, each with the cost of its cheapest path and   *)
(* the first hop of a cheapest path, on any graph whose longest path fits  *)
(* in 16 bits.                                                             *)
THEOREM AlwaysFindsCheapest == ASSUME RecordsNarrow PROVE LoopSpec => []ComputesCheapest
<1>1. PICK c \in Nat : c * Cardinality(Router) < CostMod /\ \A m \in Records : Cheap(m, c)
  BY NarrowCheap
<1>2. ASSUME record \in Records PROVE ComputesCheapest
  <2> DEFINE end == Loop(record, root)
             routes == update_forwarding_table(record, root).routing_table
             D == DOMAIN end.distance \ {root}
  <2>1. Settling(c, record, root, end) /\ Traced(record, end) /\ end.minq = {}
    BY <1>1, <1>2, RecordsComputable, LoopTraced, LoopEnds
  <2>2. routes = [v \in D |-> [cost |-> end.distance[v], next_hop |-> end.next_hop[v]]]
    BY <1>2, RecordsAssumption DEF update_forwarding_table
  <2>3. RecordEdges = EdgesOf(record)
    BY DEF RecordEdges, EdgesOf
  <2> HIDE DEF end, routes
  <2>4. ASSUME NEW d \in Router \ {root}, d \in D
        PROVE  /\ Paths(RecordEdges, root, d) # {} /\ d \in DOMAIN routes
               /\ CheapestVia(RecordEdges, root, d, routes[d].cost, routes[d].next_hop)
    <3>1. /\ d \in DOMAIN routes /\ routes[d].cost = end.distance[d]
          /\ routes[d].next_hop = end.next_hop[d]
      BY <2>2, <2>4
    <3>2. \E p \in Paths(RecordEdges, root, d) :
             PathCost(RecordEdges, p) = end.distance[d] /\ p[2] = end.next_hop[d]
      BY <2>1, <2>3, <2>4 DEF Traced
    <3>3. \A p \in Paths(RecordEdges, root, d) : end.distance[d] <= PathCost(RecordEdges, p)
      BY <1>2, <2>1, <2>3, Dominates
    <3> QED BY <3>1, <3>2, <3>3 DEF CheapestVia
  <2>5. ASSUME NEW d \in Router \ {root}, d \notin D
        PROVE  Paths(RecordEdges, root, d) = {} /\ d \notin DOMAIN routes
    <3>1. \A p \in Paths(RecordEdges, root, d) : d \in DOMAIN end.distance
      BY <1>2, <2>1, <2>3, Dominates
    <3> QED BY <2>2, <2>5, <3>1
  <2> QED BY <2>4, <2>5 DEF ComputesCheapest, routes
<1>3. StartLoop => record \in Records
  BY DEF StartLoop
<1>4. record \in Records /\ [TakeTurn]_loopVars => (record \in Records)'
  BY DEF TakeTurn, loopVars
<1> QED BY <1>2, <1>3, <1>4, PTL DEF LoopSpec
---------------------------------------------------------------------------------
(***************************************************************************)
(* The methods of LSImpl, each for one method: what it does to the sound   *)
(* tables of the router self, whose port p leads to the router peer[p].    *)
(***************************************************************************)
SeqNum == 0 .. SEQ_MOD - 1
Graph == [Router -> PMap(Router, Edge)]

Wired(self, peer) ==
  /\ DOMAIN peer \subseteq Port
  /\ \A p \in DOMAIN peer : peer[p] \in Router \ {self}
  /\ \A p, q \in DOMAIN peer : peer[p] = peer[q] => p = q

(* A port is known exactly if the router at its other end is a neighbour.  *)
Linked(n, peer) ==
  /\ DOMAIN n.port_table \subseteq DOMAIN peer
  /\ \A p \in DOMAIN n.port_table : /\ n.port_table[p] = peer[p]
                                    /\ peer[p] \in DOMAIN n.neighbor_table
  /\ \A x \in DOMAIN n.neighbor_table :
        /\ n.neighbor_table[x].port \in DOMAIN n.port_table
        /\ peer[n.neighbor_table[x].port] = x

Sound(n, self, peer) ==
  n \in Node /\ Linked(n, peer) /\ self \notin DOMAIN n.routing_table

(* Every route leads to a neighbour, and every neighbour has a route.      *)
Ready(n) ==
  /\ DOMAIN n.neighbor_table \subseteq DOMAIN n.routing_table
  /\ \A d \in DOMAIN n.routing_table : n.routing_table[d].next_hop \in DOMAIN n.neighbor_table

SameLinks(n, m) == m.neighbor_table = n.neighbor_table /\ m.port_table = n.port_table
SameNumbers(n, m) == m.max_sequence_num = n.max_sequence_num /\ m.sequence_num = n.sequence_num

(* The packets of r are packets, on ports that lead to neighbours. *)
Posted(r, peer) == \A m \in r.out : m.port \in DOMAIN peer /\ m.lsp \in LSP

(* The LSP of the tables q that update_LS sends. *)
Announcement(q, self, table) == [source |-> self, seq |-> q.sequence_num, entries |-> table]

(* A handler that has brought the tables to q ends with them, or announces *)
(* them.                                                                   *)
Ends(q, r, self) == \/ r = [node |-> q, out |-> {}]
                    \/ \E table \in Tables(q) : r = update_LS(q, self, table)

(* It was announced to every neighbour if the cost of a link changed.      *)
Told(n, r) == Costs(r.node) # Costs(n) =>
                {m.port : m \in r.out} = {r.node.neighbor_table[x].port :
                                            x \in DOMAIN r.node.neighbor_table}

LEMMA LinkedSame == ASSUME NEW peer, NEW n, NEW m, Linked(n, peer), SameLinks(n, m)
                    PROVE  Linked(m, peer)
BY DEF Linked, SameLinks

(* A function from some keys of K to V is a map, and conversely. *)
LEMMA MapIntro == ASSUME NEW K, NEW V, NEW D \in SUBSET K, NEW m \in [D -> V]
                  PROVE  m \in PMap(K, V)
BY DEF PMap

LEMMA MapElim == ASSUME NEW K, NEW V, NEW m \in PMap(K, V)
                 PROVE  DOMAIN m \subseteq K /\ m \in [DOMAIN m -> V]
BY DEF PMap

LEMMA EmptyIsMap == \A K, V : EmptyMap \in PMap(K, V)
<1> SUFFICES ASSUME NEW K, NEW V PROVE EmptyMap \in PMap(K, V)
  OBVIOUS
<1>1. EmptyMap \in [{} -> V] /\ {} \in SUBSET K
  BY DEF EmptyMap
<1> QED BY <1>1, MapIntro

(* m[k] = v keeps a map a map, and so does erasing keys. *)
LEMMA PutMap == ASSUME NEW K, NEW V, NEW m \in PMap(K, V), NEW k \in K, NEW v \in V
                PROVE  Put(m, k, v) \in PMap(K, V)
<1>1. Put(m, k, v) \in [DOMAIN m \cup {k} -> V]
  BY MapElim DEF Put
<1> QED BY <1>1, MapElim, MapIntro

LEMMA EraseMap == ASSUME NEW K, NEW V, NEW m \in PMap(K, V), NEW S
                  PROVE  Erase(m, S) \in PMap(K, V)
<1>1. Erase(m, S) \in [DOMAIN m \ S -> V]
  BY MapElim DEF Erase, Restrict
<1> QED BY <1>1, MapElim, MapIntro

LEMMA NodeFields ==
  ASSUME NEW n \in Node
  PROVE  /\ n.neighbor_table \in PMap(Router, Neighbor)
         /\ n.port_table \in PMap(Port, Router)
         /\ n.routing_table \in PMap(Router, Route)
         /\ n.graph \in Graph
         /\ n.max_sequence_num \in PMap(Router, SeqNum)
         /\ n.sequence_num \in SeqNum
BY DEF Node, Graph, SeqNum

LEMMA NeighborFacts ==
  ASSUME NEW self, NEW peer, NEW n, Sound(n, self, peer), Wired(self, peer),
         NEW x \in DOMAIN n.neighbor_table
  PROVE  /\ x \in Router \ {self} /\ n.neighbor_table[x] \in Neighbor
         /\ n.neighbor_table[x].port \in DOMAIN peer /\ n.neighbor_table[x].port \in Port
         /\ peer[n.neighbor_table[x].port] = x
         /\ n.port_table[n.neighbor_table[x].port] = x
<1>1. n.neighbor_table \in PMap(Router, Neighbor)
  BY NodeFields DEF Sound
<1>2. x \in Router /\ n.neighbor_table[x] \in Neighbor
  BY <1>1, MapElim
<1> QED BY <1>2 DEF Sound, Linked, Wired

(* The walk over the neighbours ends with a neighbour. *)
LEMMA LastIsNeighbor ==
  ASSUME NEW n \in Node, DOMAIN Costs(n) # {}
  PROVE  LastOf(DOMAIN Costs(n)) \subseteq DOMAIN Costs(n)
<1>1. n.neighbor_table \in PMap(Router, Neighbor)
  BY NodeFields
<1>2. DOMAIN n.neighbor_table \subseteq Router
  BY <1>1, MapElim
<1>3. DOMAIN Costs(n) = DOMAIN n.neighbor_table
  BY DEF Costs
<1> QED BY <1>2, <1>3, LastOfAssumption

(* Numbers are compared as numbers. *)
LEMMA NumberFacts ==
  ASSUME NEW n \in Node
  PROVE  /\ DOMAIN n.max_sequence_num \subseteq Router
         /\ \A x \in DOMAIN n.max_sequence_num : /\ n.max_sequence_num[x] \in SeqNum
                                                 /\ n.max_sequence_num[x] \in Nat
         /\ n.sequence_num \in SeqNum /\ n.sequence_num \in Nat
<1>1. n.max_sequence_num \in PMap(Router, SeqNum) /\ n.sequence_num \in SeqNum
  BY NodeFields
<1>2. SeqNum \subseteq Nat
  BY SeqModAssumption DEF SeqNum
<1> QED BY <1>1, <1>2, MapElim
---------------------------------------------------------------------------------
LEMMA CostsTyped ==
  ASSUME NEW n \in Node
  PROVE  Costs(n) \in PMap(Router, Cost) /\ Tables(n) \subseteq PMap(Router, Cost)
<1>1. n.neighbor_table \in PMap(Router, Neighbor)
  BY NodeFields
<1>2. /\ DOMAIN n.neighbor_table \subseteq Router
      /\ \A x \in DOMAIN n.neighbor_table : n.neighbor_table[x] \in Neighbor
  BY <1>1, MapElim
<1>3. Costs(n) \in [DOMAIN n.neighbor_table -> Cost]
  BY <1>2 DEF Costs, Neighbor
<1> HIDE DEF Costs
<1>4. Costs(n) \in PMap(Router, Cost)
  BY <1>2, <1>3, MapIntro
<1>5. EmptyMap \in PMap(Router, Cost)
  BY EmptyIsMap
<1>6. ASSUME DOMAIN Costs(n) # {}, NEW x \in LastOf(DOMAIN Costs(n))
      PROVE  Restrict(Costs(n), {x}) \in PMap(Router, Cost)
  <2>1. x \in DOMAIN n.neighbor_table /\ x \in DOMAIN Costs(n)
    BY <1>3, <1>6, LastIsNeighbor
  <2>2. Restrict(Costs(n), {x}) \in [{x} -> Cost] /\ {x} \subseteq Router
    BY <1>2, <1>3, <2>1 DEF Restrict
  <2> QED BY <2>2, MapIntro
<1> QED BY <1>4, <1>5, <1>6 DEF Tables

(* What the table of an LSP says of a neighbour is its cost. *)
LEMMA TablesFacts ==
  ASSUME NEW n \in Node, NEW table \in Tables(n), NEW x \in DOMAIN table
  PROVE  x \in DOMAIN n.neighbor_table /\ table[x] = n.neighbor_table[x].cost
<1>1. table # EmptyMap
  BY DEF EmptyMap
<1>2. DOMAIN Costs(n) # {} /\ \E y \in LastOf(DOMAIN Costs(n)) : table = Restrict(Costs(n), {y})
  BY <1>1 DEF Tables
<1>3. PICK y \in DOMAIN Costs(n) : table = Restrict(Costs(n), {y})
  BY <1>2, LastIsNeighbor
<1>4. x = y /\ table[x] = Costs(n)[x]
  BY <1>3 DEF Restrict
<1> QED BY <1>3, <1>4 DEF Costs

(* The edges of a router are replaced by edges. *)
LEMMA AnnounceTyped ==
  ASSUME NEW g \in Graph, NEW u \in Router, NEW entries \in PMap(Router, Cost)
  PROVE  Announce(g, u, entries) \in Graph
<1> DEFINE h == del_node(g, u)
           new(x) == IF x = u THEN DOMAIN entries ELSE IF x \in DOMAIN entries THEN {u} ELSE {}
           cost(x, y) == IF x = u THEN entries[y] ELSE entries[x]
           edge(x, y) == IF y \in new(x) THEN [cost |-> cost(x, y), timeout |-> DV_LS_TIMEOUT]
                         ELSE h[x][y]
           grown(x) == [y \in DOMAIN h[x] \cup new(x) |-> edge(x, y)]
<1>1. DOMAIN entries \subseteq Router /\ \A x \in DOMAIN entries : entries[x] \in Cost
  BY MapElim
<1>2. ASSUME NEW x \in Router PROVE h[x] \in PMap(Router, Edge)
  <2>1. g[x] \in PMap(Router, Edge)
    BY DEF Graph
  <2>2. EmptyMap \in PMap(Router, Edge)
    BY DEF EmptyMap, PMap
  <2>3. \A T : Erase(g[x], T) \in PMap(Router, Edge)
    BY <2>1, EraseMap
  <2> QED BY <2>2, <2>3 DEF del_node
<1>3. Announce(g, u, entries) = [x \in Router |-> grown(x)]
  BY DEF Announce, add_edges
<1> HIDE DEF h
<1>4. ASSUME NEW x \in Router PROVE grown(x) \in PMap(Router, Edge)
  <2>1. DOMAIN h[x] \subseteq Router /\ \A y \in DOMAIN h[x] : h[x][y] \in Edge
    BY <1>2, MapElim
  <2>2. new(x) \subseteq Router /\ \A y \in new(x) : cost(x, y) \in Cost
    BY <1>1
  <2> HIDE DEF new, cost
  <2>3. \A y \in DOMAIN h[x] \cup new(x) : edge(x, y) \in Edge
    BY <2>1, <2>2, LSTimeoutAssumption DEF Edge
  <2> HIDE DEF edge
  <2>4. grown(x) \in [DOMAIN h[x] \cup new(x) -> Edge]
    BY <2>3
  <2> HIDE DEF grown
  <2> QED BY <2>1, <2>2, <2>4, MapIntro
<1> HIDE DEF grown
<1> QED BY <1>3, <1>4 DEF Graph

LEMMA ExpireTyped == ASSUME NEW g \in Graph PROVE Expire(g) \in Graph
<1>1. \A u \in Router : \A T : Erase(g[u], T) \in PMap(Router, Edge)
  BY EraseMap DEF Graph
<1> QED BY <1>1 DEF Expire, Graph

(* An edge after an announcement is an old one or says what was announced. *)
LEMMA AnnounceEdges ==
  ASSUME NEW g, NEW u, NEW entries, NEW x \in Router,
         NEW y \in DOMAIN Announce(g, u, entries)[x]
  PROVE  \/ /\ y \in DOMAIN g[x] /\ Announce(g, u, entries)[x][y] = g[x][y]
         \/ /\ Announce(g, u, entries)[x][y].timeout = DV_LS_TIMEOUT
            /\ x = u /\ y \in DOMAIN entries
            /\ Announce(g, u, entries)[x][y].cost = entries[y]
         \/ /\ Announce(g, u, entries)[x][y].timeout = DV_LS_TIMEOUT
            /\ y = u /\ x \in DOMAIN entries
            /\ Announce(g, u, entries)[x][y].cost = entries[x]
<1> DEFINE h == del_node(g, u)
           new == IF x = u THEN DOMAIN entries ELSE IF x \in DOMAIN entries THEN {u} ELSE {}
           cost(z) == IF x = u THEN entries[z] ELSE entries[x]
           row == [z \in DOMAIN h[x] \cup new |->
                     IF z \in new THEN [cost |-> cost(z), timeout |-> DV_LS_TIMEOUT] ELSE h[x][z]]
<1>1. Announce(g, u, entries)[x] = row
  BY DEF Announce, add_edges
<1>2. \A z \in DOMAIN h[x] : z \in DOMAIN g[x] /\ h[x][z] = g[x][z]
  BY DEF del_node, Erase, Restrict, EmptyMap
<1> HIDE DEF h
<1>3. CASE y \in new
  <2>1. Announce(g, u, entries)[x][y] = [cost |-> cost(y), timeout |-> DV_LS_TIMEOUT]
    BY <1>1, <1>3
  <2> QED BY <1>3, <2>1
<1>4. CASE y \notin new
  <2>1. y \in DOMAIN h[x] /\ Announce(g, u, entries)[x][y] = h[x][y]
    BY <1>1, <1>4
  <2> QED BY <1>2, <2>1
<1> QED BY <1>3, <1>4

LEMMA ExpireEdges ==
  ASSUME NEW g, NEW x \in Router, NEW y \in DOMAIN Expire(g)[x]
  PROVE  y \in DOMAIN g[x] /\ Expire(g)[x][y] = g[x][y] /\ g[x][y].timeout # 0
BY DEF Expire, Erase, Restrict

(* update_LS changes the graph and the number, and leaves no neighbour out *)
(* when it sends.                                                          *)
LEMMA UpdateAnnounces ==
  ASSUME NEW self \in Router, NEW peer, Wired(self, peer), NEW n, Sound(n, self, peer),
         NEW table \in Tables(n)
  PROVE  LET r == update_LS(n, self, table)
         IN  /\ Sound(r.node, self, peer) /\ SameLinks(n, r.node) /\ Posted(r, peer)
             /\ r.node.graph = Announce(n.graph, self, Costs(n))
             /\ r.node.routing_table = n.routing_table
             /\ r.node.max_sequence_num = n.max_sequence_num
             /\ r.node.sequence_num = (n.sequence_num + 1) % SEQ_MOD
             /\ Announcement(n, self, table) \in LSP
             /\ r.out = {[port |-> n.neighbor_table[x].port,
                          lsp |-> Announcement(n, self, table)] : x \in DOMAIN n.neighbor_table}
             /\ \A old : Told(old, r)
<1> DEFINE r == update_LS(n, self, table)
           G == Announce(n.graph, self, Costs(n))
           q == (n.sequence_num + 1) % SEQ_MOD
           lsp == Announcement(n, self, table)
<1>0. n \in Node
  BY DEF Sound
<1>1. r = [node |-> [n EXCEPT !.graph = G, !.sequence_num = q],
           out  |-> send_LS(n, lsp, NoPort)]
  BY <1>0 DEF update_LS, Node, Announcement
<1>a. G \in Graph /\ q \in SeqNum
  <2>1. n.graph \in Graph /\ n.sequence_num \in SeqNum
    BY <1>0, NodeFields
  <2>2. G \in Graph
    BY <1>0, <2>1, CostsTyped, AnnounceTyped
  <2> QED BY <2>1, <2>2, SeqModAssumption DEF SeqNum
<1>b. lsp \in LSP
  <2>1. table \in PMap(Router, Cost) /\ n.sequence_num \in SeqNum
    BY <1>0, CostsTyped, NodeFields
  <2> QED BY <2>1 DEF LSP, SeqNum, Announcement
<1> HIDE DEF r, G, q, lsp
<1>2. /\ r.node \in Node /\ SameLinks(n, r.node)
      /\ r.node.graph = G /\ r.node.routing_table = n.routing_table
      /\ r.node.max_sequence_num = n.max_sequence_num
      /\ r.node.sequence_num = q
  BY <1>0, <1>1, <1>a DEF Node, Graph, SeqNum, SameLinks
<1>3. Sound(r.node, self, peer)
  BY <1>2, LinkedSame DEF Sound
<1>4. \A x \in DOMAIN n.neighbor_table : n.neighbor_table[x].port # NoPort
  BY NeighborFacts, PortAssumption DEF NoPort
<1>5. r.out = {[port |-> n.neighbor_table[x].port, lsp |-> lsp] : x \in DOMAIN n.neighbor_table}
  <2>1. {y \in DOMAIN n.neighbor_table : n.neighbor_table[y].port # NoPort} = DOMAIN n.neighbor_table
    BY <1>4
  <2>2. r.out = send_LS(n, lsp, NoPort)
    BY <1>1
  <2> QED BY <2>1, <2>2, Zenon DEF send_LS
<1>6. {m.port : m \in r.out} = {n.neighbor_table[x].port : x \in DOMAIN n.neighbor_table}
  <2>1. ASSUME NEW m \in r.out
        PROVE  m.port \in {n.neighbor_table[x].port : x \in DOMAIN n.neighbor_table}
    BY <1>5
  <2>2. ASSUME NEW x \in DOMAIN n.neighbor_table
        PROVE  \E m \in r.out : m.port = n.neighbor_table[x].port
    <3>1. [port |-> n.neighbor_table[x].port, lsp |-> lsp] \in r.out
      BY <1>5
    <3> QED BY <3>1
  <2> QED BY <2>1, <2>2
<1>7. Posted(r, peer)
  BY <1>5, <1>b, NeighborFacts DEF Posted
<1>8. ASSUME NEW old PROVE Told(old, r)
  <2>1. r.node.neighbor_table = n.neighbor_table
    BY <1>2 DEF SameLinks
  <2>2. {r.node.neighbor_table[x].port : x \in DOMAIN r.node.neighbor_table}
          = {n.neighbor_table[x].port : x \in DOMAIN n.neighbor_table}
    BY <2>1
  <2> QED BY <1>6, <2>2, Zenon DEF Told
<1> QED BY <1>2, <1>3, <1>5, <1>7, <1>8, <1>b DEF r, G, q, lsp

(* What a handler grants that ends with q, or announces it. *)
LEMMA EndsFacts ==
  ASSUME NEW self \in Router, NEW peer, Wired(self, peer), NEW q, Sound(q, self, peer),
         NEW r, Ends(q, r, self)
  PROVE  /\ Sound(r.node, self, peer) /\ SameLinks(q, r.node) /\ Posted(r, peer)
         /\ r.node.routing_table = q.routing_table
         /\ r.node.max_sequence_num = q.max_sequence_num
<1>1. CASE r = [node |-> q, out |-> {}]
  BY <1>1 DEF SameLinks, Posted
<1>2. CASE \E table \in Tables(q) : r = update_LS(q, self, table)
  <2>1. PICK table \in Tables(q) : r = update_LS(q, self, table)
    BY <1>2
  <2> QED BY <2>1, UpdateAnnounces
<1> QED BY <1>1, <1>2 DEF Ends

(* A sound router is one that Dijkstra's algorithm may be run on. *)
LEMMA SoundComputable ==
  ASSUME NEW self \in Router, NEW peer, Wired(self, peer), NEW n, Sound(n, self, peer)
  PROVE  Computable(n, self)
<1>1. n.neighbor_table \in PMap(Router, Neighbor) /\ n.graph \in Graph
  BY NodeFields DEF Sound
<1>2. ASSUME NEW x \in DOMAIN n.neighbor_table
      PROVE  /\ x \in Router \ {self} /\ n.neighbor_table[x].cost \in Cost
             /\ n.port_table[n.neighbor_table[x].port] = x
  BY NeighborFacts DEF Neighbor
<1>3. ASSUME NEW u \in Router
      PROVE  /\ DOMAIN n.graph[u] \subseteq Router
             /\ \A v \in DOMAIN n.graph[u] : n.graph[u][v].cost \in Cost
  <2>1. n.graph[u] \in PMap(Router, Edge)
    BY <1>1 DEF Graph
  <2>2. DOMAIN n.graph[u] \subseteq Router /\ \A v \in DOMAIN n.graph[u] : n.graph[u][v] \in Edge
    BY <2>1, MapElim
  <2> QED BY <2>2 DEF Edge
<1> QED BY <1>2, <1>3 DEF Computable

(* update_forwarding_table stores routes that lead to neighbours, one to   *)
(* every neighbour among them.                                             *)
LEMMA ForwardingUpdate ==
  ASSUME NEW self \in Router, NEW peer, Wired(self, peer), NEW n, Sound(n, self, peer)
  PROVE  LET m == update_forwarding_table(n, self)
         IN  /\ Sound(m, self, peer) /\ SameLinks(n, m) /\ Ready(m)
             /\ SameNumbers(n, m) /\ m.graph = n.graph
<1> DEFINE end == Loop(n, self)
           R == [v \in DOMAIN end.distance \ {self} |->
                   [cost |-> end.distance[v], next_hop |-> end.next_hop[v]]]
           m == update_forwarding_table(n, self)
<1>0. n \in Node
  BY DEF Sound
<1>1. m = [n EXCEPT !.routing_table = R]
  BY <1>0 DEF update_forwarding_table, Node
<1>2. Coherent(end) /\ Hopping(n, self, end)
  BY SoundComputable, LoopHopping DEF Hopping
<1> HIDE DEF end
<1>3. R \in PMap(Router, Route)
  <2>1. /\ end \in Local /\ DOMAIN end.distance = DOMAIN end.next_hop
    BY <1>2 DEF Coherent
  <2>2. /\ DOMAIN end.distance \ {self} \subseteq Router
        /\ \A v \in DOMAIN end.distance \ {self} :
              end.distance[v] \in Cost /\ end.next_hop[v] \in Router
    BY <2>1, LocalFields
  <2>3. R \in [DOMAIN end.distance \ {self} -> Route]
    BY <2>2 DEF Route
  <2> HIDE DEF R
  <2> QED BY <2>2, <2>3, MapIntro
<1>4. /\ DOMAIN R = DOMAIN end.distance \ {self}
      /\ \A d \in DOMAIN R : R[d].next_hop = end.next_hop[d]
  OBVIOUS
<1> HIDE DEF R, m
<1>5. /\ m \in Node /\ SameLinks(n, m) /\ m.routing_table = R
      /\ SameNumbers(n, m) /\ m.graph = n.graph
  BY <1>0, <1>1, <1>3 DEF Node, SameLinks, SameNumbers
<1>6. Sound(m, self, peer)
  BY <1>4, <1>5, LinkedSame DEF Sound
<1>7. ASSUME NEW d \in DOMAIN m.routing_table
      PROVE  m.routing_table[d].next_hop \in DOMAIN m.neighbor_table
  <2>1. PICK x \in DOMAIN n.neighbor_table :
           end.next_hop[d] = n.port_table[n.neighbor_table[x].port]
    BY <1>2, <1>4, <1>5 DEF Hopping
  <2>2. n.port_table[n.neighbor_table[x].port] = x
    BY NeighborFacts
  <2> QED BY <1>4, <1>5, <2>1, <2>2 DEF SameLinks
<1>8. DOMAIN m.neighbor_table \subseteq DOMAIN m.routing_table
  <2>1. DOMAIN n.neighbor_table \subseteq DOMAIN end.distance \ {self}
    BY <1>2, NeighborFacts DEF Hopping
  <2> QED BY <1>4, <1>5, <2>1 DEF SameLinks
<1> QED BY <1>5, <1>6, <1>7, <1>8 DEF Ready, m

(* A packet for the destination of a route leaves on the port that leads   *)
(* to the next hop, if that is a neighbour.                                *)
LEMMA RouteForwards ==
  ASSUME NEW self, NEW peer, Wired(self, peer), NEW n, Sound(n, self, peer),
         NEW d \in DOMAIN n.routing_table, n.routing_table[d].next_hop \in DOMAIN n.neighbor_table
  PROVE  \E p \in DOMAIN peer : /\ recv_data(n, self, d) = {p}
                                /\ peer[p] = n.routing_table[d].next_hop
<1> DEFINE x == n.routing_table[d].next_hop
           p == n.neighbor_table[x].port
<1>1. p \in DOMAIN peer /\ peer[p] = x
  BY NeighborFacts
<1>2. {y \in DOMAIN n.neighbor_table : /\ d # self /\ d \in DOMAIN n.routing_table
                                       /\ n.routing_table[d].next_hop = y} = {x}
  BY DEF Sound
<1>3. recv_data(n, self, d) = {p}
  BY <1>2, Zenon DEF recv_data
<1> QED BY <1>1, <1>3

(* It leaves on ports of the router, in any case. *)
LEMMA DataForwards ==
  ASSUME NEW self, NEW peer, Wired(self, peer), NEW n, Sound(n, self, peer), NEW d
  PROVE  recv_data(n, self, d) \subseteq DOMAIN peer
BY NeighborFacts DEF recv_data

(* recv_LS: a packet is taken in and passed on only if it is newer.        *)
LEMMA RecvLSFloods ==
  ASSUME NEW self \in Router, NEW peer, Wired(self, peer), NEW n, Sound(n, self, peer),
         NEW port \in DOMAIN peer, NEW lsp \in LSP
  PROVE  LET r == recv_LS(n, self, port, lsp)
         IN  /\ Sound(r.node, self, peer) /\ SameLinks(n, r.node) /\ Posted(r, peer)
             /\ r.node.sequence_num = n.sequence_num
             /\ Seen(n, lsp) => r = [node |-> n, out |-> {}]
             /\ ~Seen(n, lsp) =>
                  /\ Ready(r.node)
                  /\ r.node.max_sequence_num = Put(n.max_sequence_num, lsp.source, lsp.seq)
                  /\ r.node.graph = Announce(n.graph, lsp.source, lsp.entries)
                  /\ r.out = send_LS(n, lsp, port)
<1> DEFINE r == recv_LS(n, self, port, lsp)
           M == Put(n.max_sequence_num, lsp.source, lsp.seq)
           G == Announce(n.graph, lsp.source, lsp.entries)
           kept == [n EXCEPT !.max_sequence_num = M, !.graph = G]
<1>0. n \in Node
  BY DEF Sound
<1>1. CASE Seen(n, lsp)
  <2>1. r = [node |-> n, out |-> {}]
    BY <1>1 DEF recv_LS
  <2> HIDE DEF r
  <2> QED BY <1>1, <2>1 DEF SameLinks, Posted, r
<1>2. CASE ~Seen(n, lsp)
  <2>1. r = [node |-> update_forwarding_table(kept, self), out |-> send_LS(n, lsp, port)]
    BY <1>0, <1>2 DEF recv_LS, Node
  <2>2. M \in PMap(Router, SeqNum) /\ G \in Graph
    <3>1. lsp.source \in Router /\ lsp.seq \in SeqNum /\ lsp.entries \in PMap(Router, Cost)
      BY DEF LSP, SeqNum
    <3>2. n.max_sequence_num \in PMap(Router, SeqNum) /\ n.graph \in Graph
      BY <1>0, NodeFields
    <3>3. M \in PMap(Router, SeqNum)
      BY <3>1, <3>2, PutMap
    <3> QED BY <3>1, <3>2, <3>3, AnnounceTyped
  <2> HIDE DEF M, G, r
  <2>3. /\ kept \in Node /\ SameLinks(n, kept) /\ kept.max_sequence_num = M
        /\ kept.graph = G /\ kept.sequence_num = n.sequence_num
        /\ kept.routing_table = n.routing_table
    BY <1>0, <2>2 DEF Node, Graph, SeqNum, SameLinks
  <2> HIDE DEF kept
  <2>4. Sound(kept, self, peer)
    BY <2>3, LinkedSame DEF Sound
  <2>5. /\ Sound(r.node, self, peer) /\ SameLinks(kept, r.node) /\ Ready(r.node)
        /\ r.node.max_sequence_num = M /\ r.node.graph = G
        /\ r.node.sequence_num = n.sequence_num
    BY <2>1, <2>3, <2>4, ForwardingUpdate DEF SameNumbers
  <2>6. SameLinks(n, r.node)
    BY <2>3, <2>5 DEF SameLinks
  <2>7. r.out = send_LS(n, lsp, port)
    BY <2>1
  <2>8. Posted(r, peer)
    BY <2>7, NeighborFacts DEF send_LS, Posted
  <2> QED BY <1>2, <2>5, <2>6, <2>7, <2>8 DEF r, M, G
<1> QED BY <1>1, <1>2

(* No number goes back, and what is passed on is the packet, which was     *)
(* newer, and not to where it came from.                                   *)
LEMMA NumbersGrow ==
  ASSUME NEW self \in Router, NEW peer, Wired(self, peer), NEW n, Sound(n, self, peer),
         NEW port \in DOMAIN peer, NEW lsp \in LSP
  PROVE  LET r == recv_LS(n, self, port, lsp)
             old == n.max_sequence_num
             new == r.node.max_sequence_num
         IN  /\ \A x \in DOMAIN old : x \in DOMAIN new /\ new[x] >= old[x]
             /\ lsp.source \in DOMAIN new /\ new[lsp.source] >= lsp.seq
             /\ \A m \in r.out : /\ m.lsp = lsp /\ m.port # port
                                 /\ lsp.source \in DOMAIN old => lsp.seq > old[lsp.source]
<1> DEFINE r == recv_LS(n, self, port, lsp)
           old == n.max_sequence_num
           new == r.node.max_sequence_num
<1>1. /\ \A x \in DOMAIN old : old[x] \in Nat
      /\ lsp.source \in Router /\ lsp.seq \in Nat
  BY NumberFacts, SeqModAssumption DEF Sound, LSP
<1>2. CASE Seen(n, lsp)
  <2>1. new = old /\ r.out = {}
    BY <1>2, RecvLSFloods
  <2> HIDE DEF r, new
  <2>2. lsp.source \in DOMAIN old /\ old[lsp.source] >= lsp.seq
    BY <1>2 DEF Seen
  <2> QED BY <1>1, <2>1, <2>2 DEF r, new
<1>3. CASE ~Seen(n, lsp)
  <2>1. new = Put(old, lsp.source, lsp.seq) /\ r.out = send_LS(n, lsp, port)
    BY <1>3, RecvLSFloods
  <2> HIDE DEF r, new
  <2>2. lsp.source \in DOMAIN old => lsp.seq > old[lsp.source]
    BY <1>1, <1>3 DEF Seen
  <2>3. /\ DOMAIN new = DOMAIN old \cup {lsp.source}
        /\ \A x \in DOMAIN new : new[x] = IF x = lsp.source THEN lsp.seq ELSE old[x]
    BY <2>1 DEF Put
  <2>4. \A m \in r.out : m.lsp = lsp /\ m.port # port
    BY <2>1 DEF send_LS
  <2> QED BY <1>1, <2>2, <2>3, <2>4 DEF r, new
<1> QED BY <1>2, <1>3
---------------------------------------------------------------------------------
(* The entry a PONG leaves, and the tables it leaves before an update. *)
Entry(port, RTT) == [cost |-> RTT, port |-> port, timeout |-> PONG_TIMEOUT]

Learned(n, q, x, port, RTT) ==
  /\ q.neighbor_table = Put(n.neighbor_table, x, Entry(port, RTT))
  /\ q.routing_table \in {n.routing_table, Touch(n.routing_table, x, ZeroRoute)}
  /\ q.graph = n.graph /\ SameNumbers(n, q)

(* recv_pong: the neighbour is entered under the port its PONG came in on, *)
(* and the protocol is told of every new cost.                             *)
LEMMA PongLearns ==
  ASSUME NEW self \in Router, NEW peer, Wired(self, peer), NEW n, Sound(n, self, peer),
         NEW port \in DOMAIN peer, NEW RTT \in Cost,
         NEW pong, pong = recv_pong(n, port, peer[port], RTT)
  PROVE  /\ Sound(pong.node, self, peer) /\ Learned(n, pong.node, peer[port], port, RTT)
         /\ ~pong.update => Costs(pong.node) = Costs(n)
<1> DEFINE src == peer[port]
           entry == Entry(port, RTT)
           N == Put(n.neighbor_table, src, entry)
           P == Put(n.port_table, port, src)
           T == Touch(n.routing_table, src, ZeroRoute)
<1>0. n \in Node
  BY DEF Sound
<1>1. src \in Router /\ src # self /\ port \in Port
  BY DEF Wired
<1>2. entry \in Neighbor
  BY <1>1, PongTimeoutAssumption DEF Neighbor, Entry
<1>3. N \in PMap(Router, Neighbor)
  <2>1. n.neighbor_table \in PMap(Router, Neighbor)
    BY <1>0, NodeFields
  <2> HIDE DEF entry, src
  <2> QED BY <1>1, <1>2, <2>1, PutMap
<1>4. P \in PMap(Port, Router)
  <2>1. n.port_table \in PMap(Port, Router)
    BY <1>0, NodeFields
  <2> HIDE DEF src
  <2> QED BY <1>1, <2>1, PutMap
<1>t. T \in PMap(Router, Route) /\ self \notin DOMAIN T
  <2>1. n.routing_table \in PMap(Router, Route) /\ self \notin DOMAIN n.routing_table
    BY <1>0, NodeFields DEF Sound
  <2>2. ZeroRoute \in Route
    BY CostModAssumption DEF ZeroRoute, Route, Cost
  <2> HIDE DEF src
  <2>3. Put(n.routing_table, src, ZeroRoute) \in PMap(Router, Route)
    BY <1>1, <2>1, <2>2, PutMap
  <2>4. DOMAIN Put(n.routing_table, src, ZeroRoute) = DOMAIN n.routing_table \cup {src}
    BY DEF Put
  <2> QED BY <1>1, <2>1, <2>3, <2>4 DEF Touch
<1>5. CASE port \in DOMAIN n.port_table
  <2>1. n.port_table[port] = src /\ src \in DOMAIN n.neighbor_table
    BY <1>5 DEF Sound, Linked
  <2>2. /\ pong.node = [n EXCEPT !.neighbor_table = N, !.routing_table = T]
        /\ ~pong.update => n.neighbor_table[src].cost = RTT
    BY <1>0, <1>5, <2>1 DEF recv_pong, Touch, Node, Entry
  <2>3. /\ \A x \in DOMAIN N : N[x] = IF x = src THEN entry ELSE n.neighbor_table[x]
        /\ DOMAIN N = DOMAIN n.neighbor_table
    BY <2>1 DEF Put
  <2> HIDE DEF N, T
  <2>4. /\ pong.node \in Node /\ pong.node.neighbor_table = N
        /\ pong.node.port_table = n.port_table /\ pong.node.routing_table = T
        /\ pong.node.graph = n.graph /\ SameNumbers(n, pong.node)
    BY <1>0, <1>3, <1>t, <2>2 DEF Node, SameNumbers
  <2>5. Linked(pong.node, peer)
    BY <1>5, <2>1, <2>3, <2>4 DEF Sound, Linked, Entry
  <2>6. ASSUME ~pong.update PROVE Costs(pong.node) = Costs(n)
    <3>1. \A x \in DOMAIN N : N[x].cost = n.neighbor_table[x].cost
      BY <2>2, <2>3, <2>6 DEF Entry
    <3> QED BY <2>3, <2>4, <3>1 DEF Costs
  <2> QED BY <1>t, <2>4, <2>5, <2>6 DEF Sound, Learned, N, T
<1>6. CASE port \notin DOMAIN n.port_table
  <2>1. /\ pong.node = [n EXCEPT !.neighbor_table = N, !.port_table = P]
        /\ pong.update = TRUE
    BY <1>0, <1>6 DEF recv_pong, Touch, Node, Entry
  <2>2. /\ \A x \in DOMAIN N : N[x] = IF x = src THEN entry ELSE n.neighbor_table[x]
        /\ DOMAIN N = DOMAIN n.neighbor_table \cup {src}
        /\ \A p \in DOMAIN P : P[p] = IF p = port THEN src ELSE n.port_table[p]
        /\ DOMAIN P = DOMAIN n.port_table \cup {port}
    BY DEF Put
  <2> HIDE DEF N, P
  <2>3. /\ pong.node \in Node /\ pong.node.neighbor_table = N
        /\ pong.node.port_table = P /\ pong.node.routing_table = n.routing_table
        /\ pong.node.graph = n.graph /\ SameNumbers(n, pong.node)
    BY <1>0, <1>3, <1>4, <2>1 DEF Node, SameNumbers
  <2>4. Linked(pong.node, peer)
    BY <1>6, <2>2, <2>3 DEF Sound, Linked, Entry
  <2> QED BY <2>1, <2>3, <2>4 DEF Sound, Learned, N
<1> QED BY <1>5, <1>6

LEMMA RecvPongHandled ==
  ASSUME NEW self \in Router, NEW peer, Wired(self, peer), NEW n, Sound(n, self, peer),
         NEW port \in DOMAIN peer, NEW RTT \in Cost,
         NEW r \in recv_pong_LS(n, self, port, peer[port], RTT)
  PROVE  \E q : /\ Sound(q, self, peer) /\ Learned(n, q, peer[port], port, RTT)
                /\ Ends(q, r, self) /\ Told(n, r)
<1> DEFINE pong == recv_pong(n, port, peer[port], RTT)
           q == pong.node
<1>1. /\ Sound(q, self, peer) /\ Learned(n, q, peer[port], port, RTT)
      /\ ~pong.update => Costs(q) = Costs(n)
  BY PongLearns
<1>2. CASE pong.update
  <2>1. PICK t \in Tables(q) : r = update_LS(q, self, t)
    BY <1>2 DEF recv_pong_LS
  <2> HIDE DEF pong, q
  <2> QED BY <1>1, <2>1, UpdateAnnounces DEF Ends
<1>3. CASE ~pong.update
  <2>1. r = [node |-> q, out |-> {}]
    BY <1>3 DEF recv_pong_LS
  <2> HIDE DEF pong, q
  <2> QED BY <1>1, <1>3, <2>1 DEF Ends, Told
<1> QED BY <1>2, <1>3

(* Dropping neighbours drops exactly their ports. *)
LEMMA DropNeighborsLinked ==
  ASSUME NEW self \in Router, NEW peer, Wired(self, peer), NEW n, Sound(n, self, peer),
         NEW S, S \subseteq DOMAIN n.neighbor_table
  PROVE  LET m == DropNeighbors(n, S)
         IN  /\ Sound(m, self, peer)
             /\ m.neighbor_table = Erase(n.neighbor_table, S)
             /\ m.routing_table = n.routing_table
             /\ m.graph = n.graph /\ SameNumbers(n, m)
<1> DEFINE ports == {n.neighbor_table[x].port : x \in S}
           N == Erase(n.neighbor_table, S)
           P == Erase(n.port_table, ports)
           m == DropNeighbors(n, S)
<1>0. n \in Node
  BY DEF Sound
<1>1. /\ N = [x \in DOMAIN n.neighbor_table \ S |-> n.neighbor_table[x]]
      /\ P = [p \in DOMAIN n.port_table \ ports |-> n.port_table[p]]
  BY DEF Erase, Restrict
<1>2. m = [n EXCEPT !.port_table = P, !.neighbor_table = N]
  BY <1>0 DEF DropNeighbors, Node
<1>3. N \in PMap(Router, Neighbor)
  BY <1>0, NodeFields, EraseMap
<1>4. P \in PMap(Port, Router)
  <2>1. n.port_table \in PMap(Port, Router)
    BY <1>0, NodeFields
  <2> HIDE DEF ports
  <2> QED BY <2>1, EraseMap
<1>5. ASSUME NEW p \in DOMAIN n.port_table
      PROVE  p \in ports <=> peer[p] \in S
  <2>1. DOMAIN n.port_table \subseteq DOMAIN peer
    BY DEF Sound, Linked
  <2>2. \A x \in S : /\ n.neighbor_table[x].port \in DOMAIN n.port_table
                     /\ peer[n.neighbor_table[x].port] = x
    BY DEF Sound, Linked
  <2> QED BY <2>1, <2>2 DEF Wired
<1>6. ASSUME NEW x \in DOMAIN n.neighbor_table \ S
      PROVE  /\ n.neighbor_table[x].port \in DOMAIN n.port_table \ ports
             /\ peer[n.neighbor_table[x].port] = x
  BY <1>5 DEF Sound, Linked
<1>7. \A p \in DOMAIN n.port_table \ ports :
         n.port_table[p] = peer[p] /\ peer[p] \in DOMAIN n.neighbor_table \ S
  BY <1>5 DEF Sound, Linked
<1> HIDE DEF m, N, P, ports
<1>8. /\ m \in Node /\ m.port_table = P /\ m.neighbor_table = N
      /\ m.routing_table = n.routing_table
      /\ m.graph = n.graph /\ SameNumbers(n, m)
  BY <1>0, <1>2, <1>3, <1>4 DEF Node, SameNumbers
<1>9. Linked(m, peer)
  <2>1. DOMAIN n.port_table \subseteq DOMAIN peer
    BY DEF Sound, Linked
  <2> QED BY <1>1, <1>6, <1>7, <1>8, <2>1 DEF Linked
<1> QED BY <1>8, <1>9 DEF Sound, m, N

(* What update_timeout leaves before an update. *)
Cleared(n, q) ==
  /\ q.neighbor_table = Erase(n.neighbor_table, Silent(n))
  /\ q.routing_table = n.routing_table
  /\ q.graph = Expire(n.graph) /\ SameNumbers(n, q)

LEMMA UpdateTimeoutHandled ==
  ASSUME NEW self \in Router, NEW peer, Wired(self, peer), NEW n, Sound(n, self, peer),
         NEW r \in update_timeout_LS(n, self)
  PROVE  \E q : Sound(q, self, peer) /\ Cleared(n, q) /\ Ends(q, r, self) /\ Told(n, r)
<1> DEFINE kept == DropNeighbors(n, Silent(n))
           G == Expire(kept.graph)
           left == [kept EXCEPT !.graph = G]
<1>0. n \in Node
  BY DEF Sound
<1>1. /\ Sound(kept, self, peer) /\ kept.graph = n.graph /\ SameNumbers(n, kept)
      /\ kept.neighbor_table = Erase(n.neighbor_table, Silent(n))
      /\ kept.routing_table = n.routing_table
  BY DropNeighborsLinked DEF Silent
<1>2. IF left = n THEN r = [node |-> n, out |-> {}]
      ELSE \E t \in Tables(left) : r = update_LS(left, self, t)
  <2>1. left = [kept EXCEPT !.graph = Expire(@)]
    BY <1>1 DEF Sound, Node
  <2> QED BY <2>1 DEF update_timeout_LS
<1>g. G \in Graph
  BY <1>1, NodeFields, ExpireTyped DEF Sound
<1>h. G = Expire(n.graph)
  BY <1>1
<1> HIDE DEF kept, G
<1>3. /\ left \in Node /\ SameLinks(kept, left) /\ SameNumbers(n, left)
      /\ left.graph = G /\ left.routing_table = n.routing_table
  BY <1>1, <1>g DEF Node, Graph, Sound, SameLinks, SameNumbers
<1> HIDE DEF left
<1>4. Sound(left, self, peer) /\ Cleared(n, left)
  BY <1>1, <1>3, <1>h, LinkedSame DEF Sound, Cleared, SameLinks
<1>5. CASE left = n
  BY <1>2, <1>4, <1>5 DEF Ends, Told
<1>6. CASE left # n
  <2>1. PICK t \in Tables(left) : r = update_LS(left, self, t)
    BY <1>2, <1>6
  <2> QED BY <1>4, <2>1, UpdateAnnounces DEF Ends
<1> QED BY <1>5, <1>6

(* What is left of a time. *)
LEMMA ElapseType ==
  ASSUME NEW T \in Nat, NEW t \in 0 .. T, NEW d \in Nat
  PROVE  Elapse(t, d) \in 0 .. T
BY DEF Elapse

LEMMA AgeSound ==
  ASSUME NEW self, NEW peer, NEW n, Sound(n, self, peer), NEW d \in Nat
  PROVE  LET m == Age(n, d)
         IN  /\ Sound(m, self, peer) /\ SameNumbers(n, m) /\ Costs(m) = Costs(n)
             /\ m.routing_table = n.routing_table
             /\ DOMAIN m.neighbor_table = DOMAIN n.neighbor_table
             /\ \A x \in DOMAIN n.neighbor_table :
                  /\ n.neighbor_table[x].timeout \in 0 .. PONG_TIMEOUT
                  /\ m.neighbor_table[x].cost = n.neighbor_table[x].cost
                  /\ m.neighbor_table[x].port = n.neighbor_table[x].port
                  /\ m.neighbor_table[x].timeout = Elapse(n.neighbor_table[x].timeout, d)
             /\ \A u \in Router :
                  /\ DOMAIN m.graph[u] = DOMAIN n.graph[u]
                  /\ \A v \in DOMAIN n.graph[u] :
                       /\ n.graph[u][v].timeout \in 0 .. DV_LS_TIMEOUT
                       /\ m.graph[u][v].cost = n.graph[u][v].cost
                       /\ m.graph[u][v].timeout = Elapse(n.graph[u][v].timeout, d)
<1> DEFINE N == [x \in DOMAIN n.neighbor_table |->
                   [n.neighbor_table[x] EXCEPT !.timeout = Elapse(@, d)]]
           H(u) == [v \in DOMAIN n.graph[u] |-> [n.graph[u][v] EXCEPT !.timeout = Elapse(@, d)]]
           G == [u \in Router |-> H(u)]
           m == Age(n, d)
<1>0. n \in Node
  BY DEF Sound
<1>1. m = [n EXCEPT !.neighbor_table = N, !.graph = G]
  BY <1>0 DEF Age, Node
<1>2. /\ DOMAIN n.neighbor_table \subseteq Router
      /\ n.neighbor_table \in [DOMAIN n.neighbor_table -> Neighbor]
  BY <1>0, NodeFields, MapElim
<1>3. \A x \in DOMAIN n.neighbor_table :
         /\ N[x] \in Neighbor
         /\ N[x].port = n.neighbor_table[x].port /\ N[x].cost = n.neighbor_table[x].cost
         /\ N[x].timeout = Elapse(n.neighbor_table[x].timeout, d)
         /\ n.neighbor_table[x].timeout \in 0 .. PONG_TIMEOUT
  <2> SUFFICES ASSUME NEW x \in DOMAIN n.neighbor_table
               PROVE  /\ N[x] \in Neighbor
                      /\ N[x].port = n.neighbor_table[x].port
                      /\ N[x].cost = n.neighbor_table[x].cost
                      /\ N[x].timeout = Elapse(n.neighbor_table[x].timeout, d)
                      /\ n.neighbor_table[x].timeout \in 0 .. PONG_TIMEOUT
    OBVIOUS
  <2>1. n.neighbor_table[x] \in Neighbor
    BY <1>2
  <2>2. Elapse(n.neighbor_table[x].timeout, d) \in 0 .. PONG_TIMEOUT
    BY <2>1, ElapseType, PongTimeoutAssumption DEF Neighbor
  <2> QED BY <2>1, <2>2 DEF Neighbor
<1>4. N \in PMap(Router, Neighbor)
  <2>1. N \in [DOMAIN n.neighbor_table -> Neighbor]
    BY <1>3
  <2> HIDE DEF N
  <2> QED BY <1>2, <2>1, MapIntro
<1>5. DOMAIN N = DOMAIN n.neighbor_table
  OBVIOUS
<1>6. ASSUME NEW u \in Router
      PROVE  /\ H(u) \in PMap(Router, Edge) /\ DOMAIN H(u) = DOMAIN n.graph[u]
             /\ \A v \in DOMAIN n.graph[u] :
                  /\ n.graph[u][v].timeout \in 0 .. DV_LS_TIMEOUT
                  /\ H(u)[v].cost = n.graph[u][v].cost
                  /\ H(u)[v].timeout = Elapse(n.graph[u][v].timeout, d)
  <2>1. n.graph \in Graph
    BY <1>0, NodeFields
  <2>2. n.graph[u] \in PMap(Router, Edge)
    BY <2>1 DEF Graph
  <2>3. DOMAIN n.graph[u] \subseteq Router /\ \A v \in DOMAIN n.graph[u] : n.graph[u][v] \in Edge
    BY <2>2, MapElim
  <2>4. ASSUME NEW v \in DOMAIN n.graph[u]
        PROVE  /\ n.graph[u][v].timeout \in 0 .. DV_LS_TIMEOUT
               /\ H(u)[v] \in Edge
               /\ H(u)[v].cost = n.graph[u][v].cost
               /\ H(u)[v].timeout = Elapse(n.graph[u][v].timeout, d)
    <3>1. PICK e \in Edge : e = n.graph[u][v]
      BY <2>3
    <3>2. H(u)[v] = [e EXCEPT !.timeout = Elapse(e.timeout, d)]
      BY <3>1
    <3>3. e.timeout \in 0 .. DV_LS_TIMEOUT
      BY DEF Edge
    <3>4. Elapse(e.timeout, d) \in 0 .. DV_LS_TIMEOUT
      BY <3>3, ElapseType, LSTimeoutAssumption
    <3> HIDE DEF H
    <3> QED BY <3>1, <3>2, <3>3, <3>4 DEF Edge
  <2>5. H(u) \in [DOMAIN n.graph[u] -> Edge]
    BY <2>4
  <2>6. DOMAIN H(u) = DOMAIN n.graph[u]
    OBVIOUS
  <2> HIDE DEF H
  <2>7. H(u) \in PMap(Router, Edge)
    BY <2>3, <2>5, MapIntro
  <2> QED BY <2>4, <2>6, <2>7
<1>g. G \in Graph /\ \A u \in Router : G[u] = H(u)
  <2> HIDE DEF H
  <2> QED BY <1>6 DEF Graph
<1> HIDE DEF m, N, G, H
<1>7. /\ m \in Node /\ m.neighbor_table = N /\ m.port_table = n.port_table
      /\ m.graph = G /\ m.routing_table = n.routing_table /\ SameNumbers(n, m)
  BY <1>0, <1>1, <1>4, <1>g DEF Node, Graph, SameNumbers
<1>8. Linked(m, peer)
  BY <1>3, <1>5, <1>7 DEF Sound, Linked
<1>9. Sound(m, self, peer)
  BY <1>7, <1>8 DEF Sound
<1>10. Costs(m) = Costs(n)
  BY <1>3, <1>5, <1>7 DEF Costs
<1>11. \A u \in Router :
         /\ DOMAIN m.graph[u] = DOMAIN n.graph[u]
         /\ \A v \in DOMAIN n.graph[u] :
              /\ n.graph[u][v].timeout \in 0 .. DV_LS_TIMEOUT
              /\ m.graph[u][v].cost = n.graph[u][v].cost
              /\ m.graph[u][v].timeout = Elapse(n.graph[u][v].timeout, d)
  BY <1>6, <1>7, <1>g
<1> QED BY <1>3, <1>5, <1>7, <1>9, <1>10, <1>11 DEF m

LEMMA EmptySound ==
  ASSUME NEW self, NEW peer
  PROVE  Sound(NewNode, self, peer)
<1>1. EmptyMap \in PMap(Router, Neighbor) /\ EmptyMap \in PMap(Port, Router)
  BY EmptyIsMap
<1>2. EmptyMap \in PMap(Router, Route) /\ EmptyMap \in PMap(Router, Edge)
      /\ EmptyMap \in PMap(Router, SeqNum)
  BY EmptyIsMap
<1>3. NewNode \in Node
  BY <1>1, <1>2, SeqModAssumption DEF NewNode, Node, SeqNum
<1> QED BY <1>3 DEF NewNode, EmptyMap, Sound, Linked
=================================================================================
