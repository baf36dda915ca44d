------------------------------- MODULE PingPong -------------------------------
(***************************************************************************)
(* The ping-pong server with its clients.  A client sends a ping, waits    *)
(* until it has read as many bytes, and goes on until it has done so       *)
(* iteration times; it may also be killed.  TCP delivers the bytes of a    *)
(* ping together or in pieces.                                             *)
(*                                                                         *)
(* config.size: length of each client's messages;                          *)
(* config.least: how many bytes of a message arrive at first, at least;    *)
(* config.count: what the server's variable count holds at the start;      *)
(* config.room: how many bytes a stream to a client holds;                 *)
(* config.kills: the clients that may be killed.                           *)
(***************************************************************************)
EXTENDS PingServer

CONSTANTS Configs,      \* the values of config
          iteration     \* how many pings a client sends

ASSUME IterationAssumption == iteration \in Nat \ {0}
ASSUME ConfigsAssumption ==
  \A f \in Configs :
     /\ f.count \in -(INT_MAX + 1) .. INT_MAX /\ f.room \in Nat \ {0} /\ f.kills \subseteq Client
     /\ \A c \in Client : /\ f.size[c] \in SIZE_FIELD .. BUFFER_LEN
                          /\ f.least[c] \in 1 .. f.size[c]

VARIABLE pc             \* where a client is: "connect", "ping", "pong", "done", "killed"

vars == <<config, up, down, got, ended, backlog, server, pc>>

Init == /\ config \in Configs
        /\ up = [c \in Client |-> [sent |-> 0, arrived |-> 0, read |-> 0]]
        /\ down = [c \in Client |-> <<>>] /\ got = [c \in Client |-> 0]
        /\ ended = {} /\ backlog = <<>>
        /\ ServerInit
        /\ pc = [c \in Client |-> "connect"]
-------------------------------------------------------------------------------
(* The first k bytes of c can be there without the next: they do not end   *)
(* within the piece a message begins with.                                 *)
Begins(c, k) == k % config.size[c] = 0 \/ k % config.size[c] >= config.least[c]

Connect(c) == /\ pc[c] = "connect"
              /\ backlog' = Append(backlog, c)
              /\ pc' = [pc EXCEPT ![c] = "ping"]
              /\ UNCHANGED <<config, up, down, got, ended, server>>

Ping(c) == /\ pc[c] = "ping"
           /\ up' = [up EXCEPT ![c].sent = @ + config.size[c]]
           /\ pc' = [pc EXCEPT ![c] = "pong"]
           /\ UNCHANGED <<config, down, got, ended, backlog, server>>

(* recv returns some of the bytes that are still missing of a pong; the    *)
(* client goes on when it has them all.                                    *)
Pong(c) ==
  /\ pc[c] = "pong"
  /\ \E n \in 1 .. Least(up[c].sent, Len(down[c])) - got[c] : got' = [got EXCEPT ![c] = @ + n]
  /\ IF got'[c] < up[c].sent THEN UNCHANGED <<pc, ended>>
     ELSE IF got'[c] < iteration * config.size[c]
          THEN pc' = [pc EXCEPT ![c] = "ping"] /\ UNCHANGED ended
          ELSE pc' = [pc EXCEPT ![c] = "done"] /\ ended' = ended \cup {c}
  /\ UNCHANGED <<config, up, down, backlog, server>>

(* A killed client may not have handed over all of its last ping; what it  *)
(* has comes in the same pieces.                                           *)
Kill(c) == /\ c \in config.kills /\ pc[c] \in {"ping", "pong"}
           /\ pc' = [pc EXCEPT ![c] = "killed"] /\ ended' = ended \cup {c}
           /\ \E k \in {x \in up[c].arrived .. up[c].sent : Begins(c, x)} :
                up' = [up EXCEPT ![c].sent = k]
           /\ UNCHANGED <<config, down, got, backlog, server>>

Arrive(c) ==
  /\ \E k \in up[c].arrived + 1 .. up[c].sent :
       Begins(c, k) /\ up' = [up EXCEPT ![c].arrived = k]
  /\ UNCHANGED <<config, down, got, ended, backlog, server, pc>>

ClientNext(c) == Connect(c) \/ Ping(c) \/ Pong(c)

Next == \/ ServerNext /\ UNCHANGED pc
        \/ \E c \in Client : ClientNext(c) \/ Kill(c) \/ Arrive(c)

Spec == Init /\ [][Next]_vars

(* The server and the clients run on, and what was sent arrives.           *)
FairServer == WF_vars(ServerNext /\ UNCHANGED pc)
FairSpec == Spec /\ FairServer /\ \A c \in Client : WF_vars(ClientNext(c)) /\ WF_vars(Arrive(c))
-------------------------------------------------------------------------------
Ints == -(INT_MAX + 1) .. INT_MAX

(* Counts stay machine integers, and a loop always has a connection.       *)
TypeOK ==
  /\ \A c \in Client : /\ up[c].read <= up[c].arrived /\ up[c].arrived <= up[c].sent
                       /\ conn[c].count \in Ints
                       /\ got[c] \in 0 .. Len(down[c])
  /\ count \in Ints /\ size \in {0, NoSize} \cup {config.size[c] : c \in Client}
  /\ at \in {"scan", "size", "rest", "send"} /\ (at # "scan" => current \in todo)
  /\ todo \subseteq Range(list) /\ IsInjective(list)

(* The field with a message's size arrives in one piece, and the pong has  *)
(* room in the stream.                                                     *)
Prompt(c) == config.least[c] >= SIZE_FIELD
Fits(c) == config.size[c] <= config.room

(* The loop for the rest of a message reads nothing of c: its messages     *)
(* arrive whole, or count keeps the length that all messages have.         *)
Intact(c) == \/ config.least[c] = config.size[c] /\ Fits(c)
             \/ \A d \in Client : config.size[d] = config.count /\ Prompt(d) /\ Fits(d)

(* Whatever a client gets back is what it sent, from the first byte on:    *)
(* nothing is lost, repeated or taken from another connection, even when   *)
(* other clients' messages come in pieces or their programs are killed.    *)
EchoesWhole ==
  \A c \in Client : Intact(c) =>
     /\ Len(down[c]) <= up[c].arrived
     /\ \A k \in 1 .. Len(down[c]) : down[c][k] = k - 1

(* The server closes a connection only when its client has ended.          *)
DropsOnlyEnded ==
  [][\A c \in Range(list) \ Range(list') : Intact(c) => c \in ended]_vars

(* The conditions under which the wait for the rest of a message is no     *)
(* wait: messages arrive whole, or all have the length count began with.   *)
Orderly == \/ config.kills = {} /\ \A c \in Client : config.least[c] = config.size[c]
           \/ \A c \in Client : config.size[c] = config.count /\ Prompt(c)
Ample == \A c \in Client : Fits(c)

(* Every client gets all of its pongs, whatever the others do.             *)
Serves == \A c \in Client : Orderly /\ Ample /\ pc[c] = "ping" ~> pc[c] \in {"done", "killed"}

(* The connection of a client that is done is given up.                    *)
Releases == \A c \in Client : Orderly /\ Ample /\ pc[c] = "done" ~> c \notin Range(list)
-------------------------------------------------------------------------------
(* "we write a C program to open from 2 to 10 different client to check if *)
(* all of them could run correctly" (README): every client is served.      *)
AllServed == \A c \in Client : pc[c] = "ping" ~> pc[c] \in {"done", "killed"}
===============================================================================
