# A TLA+ model of COMP556

The repository holds three course projects in C and C++, all of them protocols:
`src/project3`, routers that run a distance-vector or a link-state protocol inside
a discrete-event simulator; `src/project2`, a stop-and-wait file transfer over UDP;
and `src/project1`, a ping-pong server and its client over TCP.

## Inventory

| component | state | operations | interacts by | hard behaviour |
|---|---|---|---|---|
| Router core, `RoutingProtocolImpl.{h,cc}` | `neighbor_table`, `port_table`, `routing_table` | `init`, `handle_alarm`, `recv`, `send_ping`, `recv_ping_send_pong`, `recv_pong`, `recv_data`, `update_timeout` | called by the simulator, calls the protocol, shares its three tables with it by pointer | three tables that must lose and gain neighbours together; instants stored and compared with a later clock |
| Distance vector, `DVProImp.{h,cc}` | `DV_time`, `IsUpdated`, the shared tables | `recv`, `send`, `send_DV`, `update`, `refresh`, `earseDV` | DV packets | lookups without checks; triggered updates through a flag; 16-bit costs; unordered packets without sequence numbers |
| Link state, `LSImpl.cc` | `graph`, `max_sequence_num`, `sequence_num` | `recv_LS`, `send_LS`, `update_LS`, `update_forwarding_table`, `del_node`, `add_edge` | flooded LSPs | flooding, stale LSPs, sequence numbers on the wire, expiry |
| Simulator, `Simulator`, `Event`, `Node`, `Link` | event queue, clock, links alive or not, delays | `run`, `set_alarm`, `dispatch` of six events, `send`, `link_dies`, `link_comes_up`, `change_delay` | calls the routers, one handler at a time | equal times in any order, a delay that changes while packets are on the way, lost packets |
| `sendfile.c` | `seq_num`, position in the file, the packet being sent | read, send, wait, resend, stop | UDP datagrams | loss, duplication, reordering, mangling; numbers that wrap |
| `recvfile.c` | `seq_num`, `rewrite`, the output file | receive, check, write, acknowledge, stop | UDP datagrams | the same, and an output file that may exist |
| `project1/server.c`, `client.c` | list of connections with counts and buffers, a second `count` in `main` | select, accept, three receive loops, send, `dump`; connect, ping, pong | TCP streams | messages in pieces, an uninitialized shared variable, busy loops on non-blocking sockets, clients that are killed |

What makes each of them correct:

- Router: the tables agree with each other after every handler; every route
  leads somewhere; every change is advertised; nothing outlives its neighbour.
- File transfer: the output is the file, block by block, whatever the network
  does; an acknowledgement is never about a block that was not written; both
  programs end.
- Link state: an LSP describes its sender's neighbours; the graph converges to
  the topology; forwarding tables follow the graph.
- Simulator: events are dispatched once and in the order of their times.
- Server: every message is echoed whole, to the client it came from; no client's
  connection is closed under it; every client gets all its pongs.

`PROJECT.json` lists under "hazards" where in the code these can go wrong.

## Modules

| module | models |
|---|---|
| `RouterTables` | the three tables and the part of `RoutingProtocolImpl` both protocols share |
| `DVProImp` | the methods of `DVProImp`, as operators on a router record |
| `DVRouter` | a router driven by the simulator's events in every order; its properties |
| `MCDVRouter` | the instance TLC checks |
| `RouterPackets` | PING, PONG and DATA, which both protocols send in the same way |
| `Dijkstra` | `update_forwarding_table`: its loop and what it stores |
| `DijkstraLoop`, `MCDijkstraLoop` | the loop turn by turn, on a family of graphs |
| `CheapestPaths` | cheapest paths by enumeration: the reference definition, no code |
| `LSImpl` | the methods of the link-state protocol, as operators on a router record |
| `LSRouter`, `MCLSRouter` | a link-state router driven by events in every order |
| `Simulator` | event queue, clock, alarms, nodes, ports and links; the routers are a parameter |
| `DVNetwork`, `MCDVNetwork` | the simulator with distance-vector routers |
| `LSNetwork`, `MCLSNetwork` | the simulator with link-state routers |
| `Neighborhood` | what both networks' routers know of their neighbours, and the vocabulary of the proofs about it; no code |
| `PingServer` | `server.c`: the select loop, its connections and the streams |
| `PingPong`, `MCPingPong` | the server with its clients; its properties |
| `DVTablesProofs` | lemmas: what each method does to a router's tables, whatever its links |
| `DVRouterProofs` | the invariant and the theorems about `DVRouter` |
| `DVNetworkProofs` | the invariant and the theorems about `DVNetwork` |
| `FileTransfer` | what a file transfer promises (abstract specification) |
| `StopAndWait` | `sendfile`, `recvfile` and UDP; refines `FileTransfer` |
| `MCStopAndWait` | the instances TLC checks |
| `LSTablesProofs` | the theorems about `DijkstraLoop`; lemmas: what each method does to a router's tables, whatever its links |
| `LSRouterProofs` | the invariant and the theorems about `LSRouter` |
| `LSNetworkProofs` | the invariant and the theorems about `LSNetwork` |
| `StopAndWaitProofs` | the invariant, the theorems and the refinement of `StopAndWait` |
| `PingPongProofs` | the invariant and the theorems about `PingPong` |

### The router (`RouterTables`, `DVProImp`, `DVRouter`)

A router is a record with the fields of the classes. An `unordered_map` is a
function whose `DOMAIN` is the set of present keys; `Touch` is what `operator[]`
does to an absent key. Stored instants are kept as the time left, so
`sys->time() >= t` reads `t = 0`, and the clock is `Age`. Costs are reduced
modulo `CostMod` (2^16 in the code) wherever the code stores a sum into an
`unsigned short`. Each method is one operator, with everything it calls; a
handler also returns whether it called `send()`. A loop over a table whose
iterations touch their own key only is a function over the keys.

`DVRouter` has one action per event of the simulator: `RecvPong` and `RecvDV` per
port, `HandleAlarm` per alarm, and `Tick`, which the clock may only take when
nothing is due (events at the same time are dispatched in any order, as the
heap of `Simulator` may). What arrives is chosen freely: a PONG may measure any
round-trip time of `RTTs`, and a DV packet may carry any table of `Adverts` that
lists its receiver and not its sender. That this holds of the packets a router
sends is not assumed lightly: `AdvertsWellFormed` shows it of this router's own.
`CutOff` cuts the router's links for good, for the liveness property.

Properties: `RoutesForward`, `TimersMatchRoutes`, `PortsMatchNeighbors`,
`AdvertsWellFormed`, the action property `TriggeredUpdate`, and `Forgets`.

| run | instance | shows |
|---|---|---|
| `DVRouter` | router r, neighbours a and b, a further router d; costs modulo 4; two round-trip times; timeouts 2 and 3, all periods 1 | all of the above but `Forgets`; about 1 million states |
| `DVRouterForgets` | the same, one round-trip time, shorter timeouts, fair alarms | `Forgets` |

Costs modulo 4 make the sums wrap, make them hit `INFINITY_COST`, and let each of
the comparisons go either way. The timeouts keep the order of the code's
(a neighbour lives 15 s, a route 45 s, checks run every second), so that a neighbour
can expire before a route, and an advertised route while its neighbour lives.

### The link-state router (`Dijkstra`, `LSImpl`, `LSRouter`)

`LSImpl` treats the link-state protocol as `DVProImp` the other one. `graph[u][v]`
holds cost and time left of an edge. Two details of the code matter and are kept:
`del_node` compares an edge's *cost* with the router's number, so router IDs are
numbers here; and the loop that writes an LSP's table leaves one neighbour in
all slots, the last in the order of an `unordered_map`, so `update_LS` takes the
table as an argument and its callers allow every one of `Tables`. Which neighbours
may be the last is the constant `LastOf`: the C++ standard leaves it open, so the runs that
pass take `Whichever` of them, at every announcement anew, and the theorems hold for any
`LastOf`; a library has one order, which the run that ends in a counterexample takes
(`Nearest`).

`Dijkstra` translates the loop of `update_forwarding_table`; `Loop` runs it to the
end for the handlers, `DijkstraLoop` takes its turns as steps. Its heap is a set.
`LSRouter` has the actions of `DVRouter`, with any LSP of `LSPs` arriving; the alarm
that only sends PINGs is left to `LSNetwork`. `CutOff` is there for `Forgets`, as in
`DVRouter`.

| run | instance | shows |
|---|---|---|
| `DijkstraLoop` | 4 routers, all directed graphs among three with edges of cost 1 or 3, all sets of links of cost 0 or 4 | `ComputesCheapest` against the enumeration of paths, `VisitedIsFinal`, `Terminates` |
| `LSRouter` | router 1 with two neighbours, costs modulo 16 and round-trip times 2 and 4 (2 is a router as well), numbers modulo 2, LSPs of router 2 with two numbers and router 1's own with one, all periods 1, fair alarms | `FloodsOnce`, `AnnouncesChange`, `FreshRoutesForward`, and `Forgets`: a router that is cut off forgets its neighbours and the whole graph |

Costs 0, 1, 3, 4 give ties, links that are worse than two edges, and free ones.
The costs are modulo 64, above the longest path: `RecordsNarrow` says so of any
instance, and the theorem about `VisitedIsFinal` needs it. With costs modulo 6 TLC
finds both `VisitedIsFinal` and `ComputesCheapest` violated, since the loop compares the
whole sum and stores it cut (`LSImpl.cc:115`).
`DijkstraLoop` may stop: the loop ends. Its fairness is the program's own progress.

### The networks (`Simulator`, `DVNetwork`, `LSNetwork`)

`Simulator` is the discrete-event simulator. `event_q` is a bag of the six kinds
of events; an action takes one of the earliest, lets the time pass on all
routers, and runs the handler, whose packets become events that are due after
the delay their link has at that moment, unless the link is dead or loses them.
Events of one time are taken in any order. The packets' step from `Node::send` to
`Event_Xmit_Pkt_On_Link` happens at the same instant and is part of sending.
The routers enter through constants (`recv`, `handle_alarm`, `Age`, `Hello`), which
`DVNetwork` and `LSNetwork` give as whole handlers of `RoutingProtocolImpl`: PINGs
carry their time, and costs are what PONGs measure. Nothing about the routers is
assumed here: every packet that arrives was sent by another router.

The times are the code's: milliseconds, PINGs every 10 s, DV packets and LSPs
every 30 s, checks every second, lives of 15 s and 45 s; costs are modulo 65536.
A run enumerates scenarios: `scenario` holds the configured events, the links that
may lose packets, and `stop_time`, which ends a run, so that these runs allow
deadlock. At most `MaxLost` packets are lost, none of them at `LossEnd` or later.
`changed` is a history variable, the time of the last change or loss. "Settled"
means `SETTLE` has passed since: 15 s until a neighbour expires, a second until it
is noticed, 45 s until what was said of it expires, and the delays. `DETECT` is the
part of it for the neighbours, 19 s or 16.6 s: room for two sums, which `Timely` states
(and `Settles` of `LSNetwork` for the rest of `SETTLE`). If no
delay is above `D`, a dead link's last PONG arrives within `D` and its neighbour has
expired 16 s later; and after `4 * D` and a PING period a live link has been measured as
it now is. TLC checks `Timely`
of each instance, with its greatest delay (`TimelyAssumption`), and `Settles`
(`SettlesAssumption`).

| run | instance | shows |
|---|---|---|
| `DVNetwork` | the triangle of `addtest1`; 40 scenarios of one or two changes, where links die or come up and delays rise, with DATA packets, and one where two routers lose the third at once, so that their DV packets cross; and one without changes where a link loses any two packets of the first 50 s | `FindsCheapest`, `NeighborsKnown`, `DataOnCourse`, and at all times `QueueSound`, `RoutesForward`, `AdvertsWellFormed` |
| `LSNetwork` | the triangle; a link dies, another one, both (a router is cut off), one comes up again, one gets slower; and a link loses any packet of the first 2 s | `NeighborsKnown`, `GraphsTrue`, `FloodsReachAll`, `NoLoops`, `RoutesForward`, and at all times `QueueSound` |
| `DVNetworkCounts` | a ring of four and a fifth router whose link dies | a counterexample, see below |
| `LSNetworkRoutes` | the five routers of `addtest2` in its first 70 s, when no link changes, and the iteration order of libstdc++ | a counterexample, see below |

The triangle is the smallest network with an alternative path and a cycle, and
its cheapest way from 2 to 3 is not the direct one. The ring of four is the
smallest in which a route's confirmations of different age go round. `addtest2` is there
because with the library's order the triangle does not show that LSPs name one neighbour
only: 1, 2 and 3 name 2, 1 and 1, which with everyone's own links is all there is to know. A loss
matters for what is checked only when `SETTLE` is left before `stop_time`, which
bounds `LossEnd`; in the first two seconds fall the first PINGs, PONGs and the LSPs
they trigger, none of which is repeated at once.
`RoutesForward` of `LSNetwork` speaks of routers with a live link only: one that is
cut off never computes its routes anew and keeps them for ever (`LSImpl.cc:49`),
and forwards nothing since it has no neighbour.
`DVNetwork` lets delays only rise: when one falls, the known error of `update` (see
below) leaves a wrong cost for good.

### The file transfer (`FileTransfer`, `StopAndWait`)

`pc`, `block` and `s_seq` are where `sendfile` is: `SendPacket` is its `sendto`,
`RecvAck` and `Timeout` the two outcomes of its `recvfrom`, followed by reading the
next block (`Read`) or not. `RecvPacket` and `RecvMangledPacket` are one turn of
`recvfile`'s loop. A CRC is either right or wrong. Three things are read without its
protection: the sequence number byte, obeyed when it is -1 (`recvfile.c:94`); the length,
which sizes an array and a `memcpy` before the CRC is compared (`recvfile.c:104-111`); and the
number in an ACK, which has no CRC. `SeqErrors`, `LenErrors` and `AckErrors` say what they
may show in a mangled datagram. Of a length it matters whether so many bytes are in the
buffer: beyond it the copy may go well, and then the packet is discarded, or kill
`recvfile` (`Overrun`, `crashed`); a length whose top bit is set is a negative `short` and
always kills it. In-flight datagrams are sets: one stays available after it arrived
(duplication), arrives at any time (delay and reordering), or never enters
(loss). Numbers repeat after `SEQ_SIZE` blocks, so correctness needs a bound on a
datagram's life: `LIFETIME` counts the blocks the sender may have moved on
meanwhile. The field `block` of a datagram serves only for that and for the
properties; no guard of the programs reads it.

| run | instance | shows |
|---|---|---|
| `StopAndWait` | 20 blocks, numbers modulo 4, lifetime 3, an old output file, mangled packets of any length | `CompleteWhenClosed`, `AcksAreTrue`, `TransfersFile`, the refinement of `FileTransfer`, and, with fairness, `Delivers`: the receiver gets to the end, unless a mangled length kills it |
| `StopAndWaitSenderStops` | 2 blocks | a counterexample, see below |

The numbers wrap five times, and datagrams of the whole previous round may
still arrive. 20 different blocks make any loss, repetition or swap visible. The
code uses 128 numbers; the theorems hold for every `SEQ_SIZE`.
These runs allow deadlock, since both programs end.

### The ping-pong server (`PingServer`, `PingPong`)

A TCP stream is what was written to it. A client's k-th byte is the number k, and
`up` counts how many of them were sent, have arrived, and were read, so that a
byte that is lost, repeated, or taken from elsewhere shows. `SIZE_FIELD` bytes at
the start of a message give its size (2 in the code); other bytes look like
`NoSize` there. A socket is named by its client. `todo` is what is left of a round
of the list; `at` is where `main` is: scanning the list, or in the loop for the size
(`RecvSize`), for the rest of the message (`RecvRest`, `Decide`), or for sending (`Send`,
`Sent`). One action is one turn of a loop, that is one `recv` or `send`; a round of
`select` that times out changes nothing and is no action. Two details of the code
matter and are kept: the loop for the rest compares and adds up `main`'s `count`,
which is uninitialized, shared by all connections, and never reset, while
`current->count` decides whether the message is sent back; and a `recv` that finds
nothing adds its -1 to whichever count it is. Counts are machine integers
(`Word`), and what `recv` writes outside of the buffer is not followed.

A client (`client.c`) connects, and `iteration` times sends a message and reads
until it has as many bytes back. `Arrive` hands over any part of what was sent
that the configuration allows; `Kill` ends a client at any time, also in the middle
of a message. `config`, chosen at the start and constant, says what goes wrong in a
run: how long the clients' messages are, how many bytes of one come at least at
first (`least`), what `count` began with, the room in a stream, and who may be killed.

The properties are about the clients the server can serve: `Intact(c)` holds if c's
messages arrive whole and its pongs fit into the stream, or if all clients'
messages have the very length that `count` began with and their size fields arrive
in one piece. Then the loop for the rest reads nothing of c. This is the condition
under which the code works, not one it states; without it `AllServed` fails.

| run | instance | shows |
|---|---|---|
| `PingPong` | two clients with two pings each, buffers of 4, integers from -7 to 6; messages of 3 or 4 bytes that arrive whole with every value of `count`; messages in pieces with clients that are killed; and one disorderly client next to an `Intact` one | `EchoesWhole`, `DropsOnlyEnded`, and with fairness `Serves` and `Releases` |
| `PingPongUnserved` | two clients whose messages come in two pieces | a counterexample, see below |

The buffer is two bytes longer than the size field and one longer than the
shorter message, which is what the reads and the two counts can tell apart; 14
integers make the loops that spin wrap around; the second ping shows what the
first one left behind. Runs end when all clients have, and the server
then waits in `select`: deadlock is allowed.

## Fairness

`DVRouter` assumes that the clock goes on and that an alarm that is due is
handled: `Simulator::run` takes events from its queue until it is empty, and each
alarm sets its successor. Nothing is assumed of the neighbours.
`StopAndWait` assumes weak fairness of `sendfile`'s own steps and its timeout
(`SO_RCVTIMEO` is always finite), and strong fairness of one successful exchange:
a packet sent again and again gets into the network, arrives with its ACK
getting into the network, and that ACK arrives. No duplicate, mangled or late
datagram need ever arrive.
`LSRouter` assumes of the clock and its alarms what `DVRouter` does. `PingPong` assumes
weak fairness of the server (its loop never ends, and `select` returns when
something is ready), of each client's own steps, and of `Arrive`: TCP delivers what
was sent. Nobody is ever obliged to be killed. The network runs need no fairness.

## Proofs

All theorems hold for every value of the constants under the named assumptions
of the modules; tlapm checks them to the last leaf.

`DVRouterProofs`. The properties are not inductive one by one: a route forwards
because its next hop is a neighbour, which stays so because `earseDV` removes or
redirects the routes of exactly the neighbours `update_timeout` erased, and
falling back needs the neighbour's entry and its port. The invariant `IInv` joins
the types, the two directions between ports and neighbours, "every next hop is
a neighbour", "timers and routes have the same keys", "every neighbour has a
route, the router has none to itself", and "`IsUpdated` is set between events".
`DVTablesProofs` proves for each method, on its own, that it preserves the part
that speaks of tables (`Sound`), from lemmas on maps (`Put`, `Erase`, `Touch`), for a
router with any links; `DVRouterProofs` goes through the actions. Results:
`TypeCorrect`, `TimersAlwaysMatchRoutes`, `PortsAlwaysMatchNeighbors`,
`RoutesAlwaysForward`, `AdvertsAlwaysWellFormed`, `UpdatesAlwaysTriggered`.

`DVNetworkProofs`. `DVRouter` takes for granted that what arrives is well formed; in a
network that is what the others send. The invariant says both at once: every router
is `Sound`, and every event in the queue is one of the configuration, an alarm, or a
packet as the router at the other end of its link may send it: a DV packet lists its
receiver and not its sender, a PING or PONG carries its sender and an instant. Each
handler keeps its router `Sound` because the packet it takes is of that kind, and sends
packets of that kind because its router is `Sound`, by the lemmas of
`DVTablesProofs`. The queue's part follows from a few lemmas about bags: taking one
event, putting in those of a handler, setting the alarm again. Results, for every
topology and any changes, losses and delays: `QueueAlwaysSound`,
`RoutesAlwaysForward`, `AdvertsAlwaysWellFormed`.

Its second half proves `NeighborsAlwaysKnown`, a property of real time, for every network
whose times are `Timely(D)` for some `D`: no link ever has a delay above `D`, a cost
holds `2 * D`, a PONG's entry lives longer than the PING period, and `DETECT` is large
enough. With the code's times this excludes only networks with a delay of 32768 ms or
more, whose costs wrap: for any smaller `D` some `DETECT` will do. The invariant `TInv`
says, of the time since the last change,

- `InTime`: a PING or PONG in the queue arrives when the present delay of its link says,
  or was under way when the network changed, and is then soon gone;
- `Expiring`: what is left of the life of a neighbour behind a dead link ends in time, and
  so does the period of the check that will find it silent;
- `Rounds`: for each PING sent on a live link since all older ones were answered, either it
  or its PONG is in the queue, or the neighbour is known, with the cost of the link, until
  15 s after the PONG came, or that time is over.

`Rounds` goes through a step by following one PING: the alarm puts it in the queue, its
arrival the PONG, whose arrival the entry; a later PONG only prolongs it, and
`update_timeout` erases it only when its time is over. The property follows because in
the period before every instant a PING was sent (`BeforeAny`), which was answered but
whose answer has not expired by then. A change or a loss starts all three again with
nothing to show (`Fresh`), so that losses need no case of their own.

`LSNetworkProofs`. Which protocol the routers run matters little for that: what a
handler of a link-state router does to the neighbours and which PINGs and PONGs it
sends (`Did`) is what one of a distance-vector router does, and the definitions of
`Neighborhood` serve both. LSPs carry a sender and numbers, which is what `recv_LS` needs
to keep a router `Sound`. Results: `QueueAlwaysSound`, `NeighborsAlwaysKnown`.

Its second half is about the settled network, for times that are `Settles(D)` besides:
`SETTLE` is `DETECT` and, after that, room for an LSP to be passed on by every router,
for an edge to expire and be swept, and for every router to announce itself again; 65 s
for the code's times in the runs (`SettlesAssumption`). `Spread` says what any handler
does to LSPs: it takes one in and passes it on, or announces, or leaves the numbers and
the graph alone.

- `GraphsAlwaysTrue`, from `GInv`. What a router learned before a change can reach another
  long after it, from a third that was itself told late, and would renew the edge's 45 s. But
  a router passes each LSP on once: `OldLSPs` says that an LSP in the queue that is not
  true arrives within `D * (1 + k)` of the time the neighbours were known (`Known`), where
  `k` is the number of routers that have had it. There are only so many routers, so from `Life` on no false edge is renewed any more
  (`Passing`), and the checks of the ports sweep what is left.
- `FloodsAlwaysReachAll`, from `Numbered` and `Reached`. `Numbered`: nobody has seen a
  number its sender has not used yet, and whoever sends an LSP on has had it. `Reached`: once
  a router has announced itself on the present network, of any two routers with a live link
  between them the second has had its last LSP, if the first has, or that LSP is on the way
  to it. With no LSP on the way this goes along the path from one router to the next.
- `RoutesAlwaysForward`, from `Renewed`. A change of its own links does not make a router
  compute its routes. What does is an LSP that is new to it, and the one that a neighbour
  announces on the present network is new, if no later one has come before: so within a
  period and a delay the routes are `Ready`, and they stay so because the neighbours no
  longer change.

The last two have the hypothesis `[]NumbersFit`: no router comes to the end of its
65536 numbers, which takes 22 days of announcements every 30 s. They are false without
it (`LSNetworkWrap.cfg`, below): a router whose numbers have wrapped is not heard.

`StopAndWaitProofs`. The hypothesis `Tolerable` says that datagrams live for
fewer blocks than there are numbers and that mangling shows no number that is
obeyed without a CRC. Of mangled lengths nothing is assumed: a `recvfile` that they kill has
written nothing wrong, and does nothing any more. The invariant relates the two programs: `recvfile` has
written `block` or `block + 1` blocks, its number is that count modulo
`SEQ_SIZE`, and a datagram's number is that of its block, which is at most
`LIFETIME - 1` behind. Equal numbers then mean equal blocks, by lemmas on
remainders the module proves first, from multiplication. Results: `TypeCorrect`,
`AcksAlwaysTrue`, `AlwaysCompleteWhenClosed`, and `Implements`, the refinement
of `FileTransfer` step by step.

`LSRouterProofs`. The invariant is the pairing of ports and neighbours, as in
`DVRouterProofs`, with numbers that are numbers. `AnnouncesChange` needs it: whether a
PONG changed anything is decided by the cost of the neighbour its port led to
*before*, which is the sender only if ports and neighbours match. The routing table
is what a recursive function stores; that every route in it leads over the port of
a neighbour is carried through the recursion by a set that every turn of the loop
stays in (`LSTablesProofs`). It holds when a packet has been taken in and not always,
since `update_timeout` erases neighbours and leaves the routes alone. Results:
`TypeCorrect`, `LinksAgree`, `FloodsAtMostOnce`, `ChangesAlwaysAnnounced`,
`FreshRoutesLead`.

`LSTablesProofs`, of the loop. `LocalsCorrect` for every graph; `VisitedAlwaysFinal` and
`AlwaysFindsCheapest` if the costs are so small that no sum is cut (`RecordsNarrow`).
The invariant `Settling` says that every router
not yet visited has a pair with its distance in the queue, no pair is closer than
its router, and no distance exceeds the greatest cost times the number of
visited routers. The top of the queue then has the least distance of the
routers not visited, which is not below that of any visited one, and relaxing its
edges changes none of these. That a least pair exists, and that the loop ends, is
proved from the well-foundedness of the numbers. That the distances are those of
the cheapest paths takes two more facts. `Traced`: a distance is the cost of some path
to its router, whose first step is its next hop. `Dominates`: when the loop has ended,
the distance of no router on a path is above the cost of the path up to it. A visited
router's edges have all been relaxed, so this goes from one router of the path to the
next, and every prefix of the path has a cost that is a number (`PathSums`).

`PingPongProofs`. The hypothesis is in the property: `Intact`. `EchoesWhole` alone is not
inductive: `Echo` says for each intact client where its bytes are, `Base(c)` being
where the message begins that the server reads or sends back: what was read since
is in the buffer from index 0 on, at most one message of it, and `current->count` is
how much of it has still to be sent. `Ready` says that
what `select` reported stays ready until it is handled, so that no intact client's
`recv` fails with -1, which would be added to its count; `Shared` that `count` keeps its
first value as long as all messages have that length; and what arrived ends within a
piece the configuration allows. Results: `TypeCorrect`, `EchoesAlwaysWhole`,
`DropsOnlyTheEnded`, for any number of clients and any sizes.

Only model-checked: the liveness properties (`Forgets` of both routers, `Delivers`,
`Terminates`, `Serves`, `Releases`), since the prover does not reason about fairness and
ENABLED; of `DVNetwork`, `FindsCheapest`, which is false in general (a ring counts up, as
`DVNetworkCounts` shows), and `DataOnCourse`, which speaks of settled routes; of
`LSNetwork`, `NoLoops`: distances fall from hop to hop if all routers compute from the
same graph, but an LSP names whichever neighbour comes last, so that graphs differ while
LSPs are under way, and for these moments there is only what TLC shows of the triangle.

## Where code and documentation disagree

Shown by runs that end in a counterexample:

- `DVNetworkCounts`: a router that lost a route no longer lists it, which its
  neighbours do not take as a withdrawal. On a ring, the neighbour whose copy of
  the route expires first gets it back from the one whose copy is younger, and
  the cost counts up as the route goes around. Only a cost of exactly 65535
  is infinite; the sum wraps instead, and after 290 s the dead router has small
  costs again. `test.txt:22` says of a dying link that the tests check "if our
  algorithm can update properly".
- `LSNetworkRoutes`: the table of an LSP names one neighbour only
  (`LSImpl.cc:68-75`), so the routers do not learn the topology, contrary to
  `LSImpl.cc:105` and `test.txt:21`. libstdc++ puts a new key before the others of a small map,
  so the neighbour left is the one learned first, here the nearest: in `addtest2` 1 names 3, 2
  names 5, 3 names 1, 4 names 5, and 5 names 4. Nobody names the link between 2 and 3 (nor the
  slow one between 3 and 5), so 1 knows no way to 4. The recorded run
  (`output/addtest2_LS.out`) agrees: its packets from 1 to 4 are never put on a link.
- `StopAndWaitSenderStops`: after the one final ACK is lost `sendfile` resends for
  ever, contrary to `project2/README.md:12`.
- `PingPongUnserved`: a message that comes in two pieces is not sent back, unless `main`'s
  `count` happens to equal its size. The loop for its rest (`server.c:311`) compares the size
  with that `count`, which nobody initialized or reset, and adds to that one;
  `server.c:323` asks `current->count`. If the two are equal already the loop is skipped,
  and the next round of `select` reads on. `project1/README:9` says that with 2 to 10 clients "all of them
  could run correctly".

Stated, and seen violated on instances that are not among the runs; the
configurations are kept here:

- `DirectRouteCostsRTT` of `DVRouter` (`DVRouterDirectCost.cfg`: costs modulo 8,
  round-trip times 3 and 4): `update` sets a direct route to the new round-trip time
  and then shifts it once more by the difference (`DVProImp.cc:134,149`), although the
  cost of a link "is the same as round-trip-time" (`global.h:33`).
- `CompleteWhenClosed` (`StopAndWaitMangledFin.cfg`): the number -1 ends `recvfile`
  before the CRC is checked, contrary to `project2/README.md:26`; and
  (`StopAndWaitMangledAck.cfg`) when ACKs may be mangled into the awaited number: they
  are not protected at all, and blocks from the future are acknowledged unwritten.
- `DeliversMangled` (`StopAndWaitMangledLength.cfg`): a mangled length kills `recvfile`, and the
  transfer does not end, contrary to `project2/README.md:26`, by which the receiver gets its
  packets under "Mangle", too.
- `IdleReceiverExits` (`StopAndWaitIdle.cfg`): `recvfile` does not exit after 100 seconds
  without a packet.
- `NoPingPong` of `DVNetwork` (`DVNetworkPingPong.cfg`): when routers 1 and 2 both lose
  router 3 and their alarms are due at the same instant, each sends its table before it
  drops 3 itself; the packets cross, each takes the other's route to 3, and the two route
  it over one another until the routes expire after 45 s. Poisoned reverse does not help,
  since `recv` passes over entries of `INFINITY_COST` (`DVProImp.cc:116`).
- `FloodsReachAll` with numbers modulo 3 in place of 65536 (`LSNetworkWrap.cfg`): once the
  numbers on the wire wrap around, newer LSPs are discarded as old ones
  (`LSImpl.cc:12,65`).

Met in the models, where the properties are stated so as to leave them out:

- A `send` that fails because the client reads too slowly adds 1 to what is left to
  send, and the next one begins a byte earlier (`server.c:325`); `EchoesWhole` asks for
  pongs that fit (`Fits`).
- A client that is killed in the middle of a message leaves a count above 0: its
  connection is never given up, and after a single byte the server waits for the
  second one for ever, and serves nobody (`server.c:280,300`); `Serves` and `Releases`
  are stated for `Orderly` configurations.

## Not modelled

- Parsing of the simulator's configuration (`Simulator::init`, `trim`): text
  processing whose result is the constants of the models.
- CRC-32 as a computation, contents of packets beyond what is compared.
- The adaptive length of `sendfile`'s timeout: only that it is finite matters.
- A write of the received file that fails (`recvfile.c:147`): `fopen` and `fwrite` are
  not checked, and what then happens to a null file pointer is not the program's. The
  refinement and its proofs count the blocks of the output, so writes succeed; the
  file transfer is "partly" modelled for this reason.
- Of `server.c` and `client.c`: the fields of the header other than the size, the
  copies the server makes and never sends, times that are printed, a client told to
  send no ping at all, and signals of broken connections.
- Sockets that cannot be created and arguments that are wrong: the programs
  abort before they have a state.

## Plan

Done, in this order: `DVRouter` and `StopAndWait` with their proofs; `Dijkstra`,
`LSImpl`, `LSRouter`; the simulator and the two networks; `PingServer` and `PingPong` with
their proofs; the proofs about `LSRouter` and `DijkstraLoop`; the proofs about `DVNetwork`,
from the lemmas that make `DVRouter`'s hold of each router of a network, and its first
one about time; the proofs about `LSNetwork`, likewise, and those of its settled graphs,
floods and routes.

Left:

1. `DataOnCourse` of `DVNetwork` and `NoLoops` of `LSNetwork` on networks where they hold for
   a reason that can be stated.
2. Failing writes in `StopAndWait`, as an outcome of `Write` with its own conditions in
   `Tolerable` and in the refinement.
3. Clients in `PingPong` that send nothing, and readers so slow that a `send` fails, with
   what is then still promised to the others.
