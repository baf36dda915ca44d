----------------------------- MODULE PingPongProofs -----------------------------
(***************************************************************************)
(* What the ping-pong server guarantees for any number of clients, any     *)
(* lengths of messages and buffers, any value count begins with, and       *)
(* whatever the clients do that are not Intact.                            *)
(*                                                                         *)
(* The heart of the invariant is Echo(c): the server has read the messages *)
(* of c up to Base(c) and echoed them; what it has read beyond is in the   *)
(* buffer, at its place, and conn[c].count is how much of it is still to   *)
(* be sent.  The two places where the code could spoil this are the loop   *)
(* for the rest of a message, which for an Intact client reads nothing, and*)
(* a node that is read although nothing is there (Ready).                  *)
(***************************************************************************)
EXTENDS PingPong, TLAPS
---------------------------------------------------------------------------------
(* Facts on remainders that the provers do not find by themselves, because *)
(* they are about products.                                                *)

(* A product with an integer other than 0 is at least as far from 0.       *)
LEMMA MulUp == ASSUME NEW S \in Nat \ {0}, NEW d \in Int, d >= 1
               PROVE  S * d >= S
<1>1. d - 1 >= 0 /\ S * (d - 1) = S * d - S
  OBVIOUS
<1>2. S * (d - 1) >= 0
  BY <1>1
<1> QED BY <1>1, <1>2

LEMMA MulDown == ASSUME NEW S \in Nat \ {0}, NEW d \in Int, d <= -1
                 PROVE  S * d <= -S
<1> DEFINE e == -d
<1>1. S * e >= S
  BY MulUp
<1>2. S * e = -(S * d)
  OBVIOUS
<1> QED BY <1>1, <1>2

(* The remainder is determined by any quotient. *)
LEMMA ModOf == ASSUME NEW S \in Nat \ {0}, NEW i \in Nat, NEW q \in Int,
                      NEW r \in 0 .. S - 1, i = S * q + r
               PROVE  i % S = r
<1> DEFINE p == i \div S
           m == i % S
           d == p - q
<1>1. i = S * p + m /\ m \in 0 .. S - 1 /\ p \in Int
  OBVIOUS
<1> HIDE DEF p, m
<1>2. S * d = r - m /\ d \in Int
  BY <1>1
<1> HIDE DEF d
<1>3. d = 0
  BY <1>1, <1>2, MulUp, MulDown
<1>4. r = m
  BY <1>1, <1>2, <1>3
<1> QED BY <1>4 DEF m

(* What follows a multiple of S has its distance as remainder.             *)
LEMMA ModAdd == ASSUME NEW S \in Nat \ {0}, NEW D \in Nat, D % S = 0, NEW j \in 0 .. S - 1
                PROVE  (D + j) % S = j
<1> DEFINE q == D \div S
           i == D + j
<1>1. D = S * q + (D % S) /\ q \in Int
  OBVIOUS
<1> HIDE DEF q
<1>2. i \in Nat /\ i = S * q + j
  BY <1>1
<1> HIDE DEF i
<1>3. i % S = j
  BY <1>1, <1>2, ModOf
<1> QED BY <1>3 DEF i

LEMMA ModNext == ASSUME NEW S \in Nat \ {0}, NEW D \in Nat, D % S = 0
                 PROVE  (D + S) % S = 0
<1> DEFINE q == D \div S
           p == q + 1
           i == D + S
<1>1. D = S * q + (D % S) /\ q \in Int
  OBVIOUS
<1> HIDE DEF q
<1>2. i \in Nat /\ i = S * p + 0 /\ p \in Int /\ 0 \in 0 .. S - 1
  BY <1>1
<1> HIDE DEF i, p
<1>3. i % S = 0
  BY <1>2, ModOf
<1> QED BY <1>3 DEF i

(* The numbers from one multiple of S to the next whose remainder is 0 or  *)
(* at least l are the first and those at least l further.                  *)
LEMMA ModGap == ASSUME NEW S \in Nat \ {0}, NEW D \in Nat, D % S = 0, NEW l \in 1 .. S,
                       NEW k \in D .. D + S, k % S = 0 \/ k % S >= l
                PROVE  k = D \/ k >= D + l
<1>1. CASE k = D + S
  BY <1>1
<1>2. CASE k # D + S
  <2> DEFINE j == k - D
  <2>1. j \in 0 .. S - 1 /\ k = D + j
    BY <1>2
  <2> HIDE DEF j
  <2>2. (D + j) % S = j
    BY <2>1, ModAdd
  <2> QED BY <2>1, <2>2
<1> QED BY <1>1, <1>2

(* A machine integer with 2 * M + 2 values keeps those it has.             *)
LEMMA WrapIn == ASSUME NEW M \in Nat, NEW x \in Int
                PROVE  ((x + M + 1) % (2 * M + 2)) - M - 1 \in -(M + 1) .. M
<1> DEFINE S == 2 * M + 2
           m == (x + M + 1) % S
<1>1. S \in Nat \ {0} /\ x + M + 1 \in Int
  OBVIOUS
<1> HIDE DEF S
<1>2. m \in 0 .. S - 1
  BY <1>1
<1> QED BY <1>2 DEF S

LEMMA WrapSame == ASSUME NEW M \in Nat, NEW x \in -(M + 1) .. M
                  PROVE  ((x + M + 1) % (2 * M + 2)) - M - 1 = x
<1> DEFINE S == 2 * M + 2
           i == x + M + 1
<1>1. S \in Nat \ {0} /\ i \in 0 .. S - 1 /\ i \in Nat /\ 0 \in Int /\ i = S * 0 + i
  OBVIOUS
<1>2. i - M - 1 = x
  OBVIOUS
<1> HIDE DEF S, i
<1>3. i % S = i
  BY <1>1, ModOf
<1> QED BY <1>2, <1>3 DEF S, i
---------------------------------------------------------------------------------

Node == [count : Ints, receivebuffer : [0 .. BUFFER_LEN - 1 -> Int]]

Types ==
  /\ config \in Configs
  /\ up \in [Client -> [sent : Nat, arrived : Nat, read : Nat]]
  /\ down \in [Client -> Seq(Int)] /\ got \in [Client -> Nat]
  /\ ended \subseteq Client
  /\ backlog \in Seq(Client) /\ list \in Seq(Client)
  /\ conn \in [Client -> Node]
  /\ count \in Ints /\ size \in {0, NoSize} \cup {config.size[c] : c \in Client}
  /\ todo \subseteq Range(list)
  /\ at \in {"scan", "size", "rest", "send"} /\ (at # "scan" => current \in todo)
  /\ pc \in [Client -> {"connect", "ping", "pong", "done", "killed"}]

(* A connection is in one of the queues at most, and once.                 *)
Queues == /\ IsInjective(list) /\ IsInjective(backlog)
          /\ Range(backlog) \cap Range(list) = {}
          /\ \A c \in Client : pc[c] = "connect" => c \notin Range(list) \cup Range(backlog)

Streams ==
  \A c \in Client :
     /\ up[c].read <= up[c].arrived /\ up[c].arrived <= up[c].sent
     /\ got[c] <= Len(down[c]) /\ Room(c) >= 0
     /\ pc[c] = "connect" \/ c \in Range(backlog) => up[c].read = 0 /\ down[c] = <<>>
     /\ pc[c] \in {"connect", "ping"} => got[c] = up[c].sent
     /\ up[c].sent <= got[c] + config.size[c]
     /\ c \in ended <=> pc[c] \in {"done", "killed"}

Busy(c) == at # "scan" /\ current = c

(* What is still to be handled in this round is ready.                     *)
Ready == \A c \in todo : ~Busy(c) => Waiting(c) > 0 \/ Eof(c)

AllAlike == \A d \in Client : config.size[d] = config.count /\ Prompt(d) /\ Fits(d)
Shared == AllAlike => count = config.count

(* Where the message begins that the server reads or sends.                *)
Base(c) == IF at = "send" /\ current = c /\ conn[c].count > 0
           THEN up[c].read - config.size[c] ELSE Len(down[c])

(* A message is there from its size field on, or not at all.               *)
Piece(c, k) == k = Base(c) \/ k >= Base(c) + config.least[c]

Echo(c) ==
  /\ Base(c) \in Nat /\ Base(c) % config.size[c] = 0 /\ Base(c) <= Len(down[c])
  /\ conn[c].count \in Nat /\ conn[c].count = up[c].read - Len(down[c])
  /\ Piece(c, up[c].read) /\ Piece(c, up[c].arrived) /\ Piece(c, up[c].sent)
  /\ up[c].sent <= Base(c) + config.size[c]
  /\ \A k \in 0 .. up[c].read - Base(c) - 1 : conn[c].receivebuffer[k] = Base(c) + k
  /\ \A k \in 1 .. Len(down[c]) : down[c][k] = k - 1
  /\ Busy(c) => at # "size" /\ size = config.size[c]
  /\ Busy(c) /\ at = "rest" => conn[c].count >= SIZE_FIELD

Echoes == \A c \in Client : Intact(c) => Echo(c)

IInv == Types /\ Queues /\ Streams /\ Ready /\ Shared /\ Echoes
---------------------------------------------------------------------------------
LEMMA WordInts == ASSUME NEW x \in Int PROVE Word(x) \in Ints
  BY ServerAssumption, WrapIn DEF Word, Ints

LEMMA WordSame == ASSUME NEW x \in Ints PROVE Word(x) = x
  BY ServerAssumption, WrapSame DEF Word, Ints

(* What is known of the configuration.                                     *)
LEMMA ConfigFacts ==
  ASSUME Types, NEW c \in Client
  PROVE  /\ config.size[c] \in SIZE_FIELD .. BUFFER_LEN /\ config.size[c] \in Nat \ {0}
         /\ config.least[c] \in 1 .. config.size[c]
         /\ config.room \in Nat \ {0} /\ config.count \in Ints /\ config.count \in Int
<1>1. config \in Configs
  BY DEF Types
<1>2. /\ config.count \in Ints /\ config.room \in Nat \ {0}
      /\ config.size[c] \in SIZE_FIELD .. BUFFER_LEN /\ config.least[c] \in 1 .. config.size[c]
  BY <1>1, ConfigsAssumption DEF Ints
<1>3. SIZE_FIELD \in Nat \ {0} /\ BUFFER_LEN \in Nat
  BY ServerAssumption
<1> QED BY <1>2, <1>3, ServerAssumption DEF Ints

LEMMA NodeFacts ==
  ASSUME Types, NEW c \in Client
  PROVE  /\ conn[c] \in Node /\ conn[c].count \in Int
         /\ up[c].sent \in Nat /\ up[c].arrived \in Nat /\ up[c].read \in Nat
         /\ down[c] \in Seq(Int) /\ Len(down[c]) \in Nat /\ got[c] \in Nat
<1>1. conn[c] \in Node
  BY DEF Types
<1>2. conn[c].count \in Int
  BY <1>1, ServerAssumption DEF Node, Ints
<1>3. up[c] \in [sent : Nat, arrived : Nat, read : Nat]
  BY DEF Types
<1>4. down[c] \in Seq(Int) /\ got[c] \in Nat
  BY DEF Types
<1> QED BY <1>1, <1>2, <1>3, <1>4

(* Whatever the configuration of an Intact client, its messages begin with *)
(* the size field, and its pongs fit.                                      *)
LEMMA IntactFacts ==
  ASSUME Types, NEW c \in Client, Intact(c)
  PROVE  /\ config.least[c] >= SIZE_FIELD /\ Fits(c)
         /\ config.least[c] = config.size[c] \/ AllAlike
  BY ConfigFacts, ServerAssumption DEF Intact, Prompt, AllAlike

LEMMA RemoveOne ==
  ASSUME NEW T, NEW s \in Seq(T), NEW i \in DOMAIN s, IsInjective(s)
  PROVE  /\ RemoveAt(s, i) \in Seq(T) /\ IsInjective(RemoveAt(s, i))
         /\ Range(RemoveAt(s, i)) = Range(s) \ {s[i]}
<1> DEFINE r == RemoveAt(s, i)
<1>1. i \in 1 .. Len(s) /\ Len(s) \in Nat
  OBVIOUS
<1>2. /\ r \in Seq(T) /\ Len(r) = Len(s) - 1
      /\ \A j \in 1 .. Len(s) - 1 : r[j] = IF j < i THEN s[j] ELSE s[j + 1]
  <2> DEFINE a == SubSeq(s, 1, i - 1)
             b == SubSeq(s, i + 1, Len(s))
  <2>1. a \in Seq(T) /\ Len(a) = i - 1 /\ \A j \in 1 .. i - 1 : a[j] = s[j]
    BY <1>1
  <2>2. b \in Seq(T) /\ Len(b) = Len(s) - i /\ \A j \in 1 .. Len(s) - i : b[j] = s[i + j]
    BY <1>1
  <2>3. r = a \o b
    BY DEF RemoveAt
  <2> HIDE DEF a, b, r
  <2>4. r \in Seq(T) /\ Len(r) = Len(s) - 1
    BY <1>1, <2>1, <2>2, <2>3
  <2>5. /\ \A k \in 1 .. Len(a) : r[k] = a[k]
        /\ \A k \in 1 .. Len(b) : r[Len(a) + k] = b[k]
    BY <2>1, <2>2, <2>3, SMTT(30)
  <2>6. ASSUME NEW j \in 1 .. Len(s) - 1 PROVE r[j] = IF j < i THEN s[j] ELSE s[j + 1]
    <3>1. CASE j < i
      <4>1. j \in 1 .. i - 1
        BY <1>1, <3>1
      <4> QED BY <2>1, <2>5, <3>1, <4>1
    <3>2. CASE j >= i
      <4>1. PICK k \in 1 .. Len(s) - i : j = (i - 1) + k
        <5>1. j - (i - 1) \in 1 .. Len(s) - i /\ j = (i - 1) + (j - (i - 1))
          BY <1>1, <3>2
        <5> QED BY <5>1
      <4>2. r[j] = b[k]
        BY <2>1, <2>2, <2>5, <4>1
      <4>3. b[k] = s[i + k] /\ i + k = j + 1
        BY <1>1, <2>2, <4>1
      <4> QED BY <1>1, <3>2, <4>2, <4>3
    <3> QED BY <1>1, <3>1, <3>2
  <2> QED BY <2>4, <2>6
<1> HIDE DEF r
<1>3. DOMAIN r = 1 .. Len(s) - 1 /\ DOMAIN s = 1 .. Len(s)
  BY <1>2
<1>4. IsInjective(r)
  BY <1>1, <1>2, <1>3, SMTT(30) DEF IsInjective
<1>5. ASSUME NEW x \in Range(r) PROVE x \in Range(s) \ {s[i]}
  <2>1. PICK j \in 1 .. Len(s) - 1 : x = r[j]
    BY <1>3, <1>5 DEF Range
  <2>2. PICK k \in 1 .. Len(s) : k # i /\ x = s[k]
    BY <1>1, <1>2, <2>1
  <2> QED BY <1>1, <1>3, <2>2 DEF Range, IsInjective
<1>6. ASSUME NEW x \in Range(s) \ {s[i]} PROVE x \in Range(r)
  <2>1. PICK k \in 1 .. Len(s) : k # i /\ x = s[k]
    BY <1>3, <1>6 DEF Range
  <2>2. PICK j \in 1 .. Len(s) - 1 : x = r[j]
    <3>1. CASE k < i
      BY <1>1, <1>2, <2>1, <3>1
    <3>2. CASE k > i
      <4>1. k - 1 \in 1 .. Len(s) - 1 /\ r[k - 1] = s[k]
        BY <1>1, <1>2, <2>1, <3>2
      <4> QED BY <2>1, <4>1
    <3> QED BY <1>1, <2>1, <3>1, <3>2
  <2> QED BY <1>3, <2>2 DEF Range
<1> QED BY <1>2, <1>4, <1>5, <1>6 DEF r
---------------------------------------------------------------------------------
(* Echo(c) depends on what is about c, and on the loops when they are c's. *)
LEMMA EchoFrame ==
  ASSUME NEW c \in Client, Echo(c), config' = config, up'[c] = up[c], down'[c] = down[c],
         conn'[c] = conn[c], ~Busy(c), ~Busy(c)'
  PROVE  Echo(c)'
  BY DEF Echo, Base, Piece, Busy

LEMMA EchoUnread ==
  ASSUME NEW c \in Client, Echo(c), config' = config, up'[c].read = up[c].read,
         UNCHANGED <<down, server>>,
         Piece(c, up'[c].arrived), Piece(c, up'[c].sent),
         up'[c].sent <= Base(c) + config.size[c]
  PROVE  Echo(c)'
<1>1. Base(c)' = Base(c) /\ (Busy(c)' <=> Busy(c))
  BY DEF Base, Busy, server
<1> QED BY <1>1 DEF Echo, Piece, server

(* The stream of an Intact client continues at Base(c).                    *)
LEMMA EchoOrder ==
  ASSUME Types, Streams, NEW c \in Client, Echo(c)
  PROVE  /\ Base(c) \in Nat /\ Base(c) <= Len(down[c])
         /\ Len(down[c]) <= up[c].read /\ up[c].read <= up[c].arrived
         /\ up[c].arrived <= up[c].sent /\ up[c].sent <= Base(c) + config.size[c]
<1>1. /\ up[c].sent \in Nat /\ up[c].arrived \in Nat /\ up[c].read \in Nat
      /\ Len(down[c]) \in Nat
  BY NodeFacts
<1>2. up[c].read <= up[c].arrived /\ up[c].arrived <= up[c].sent
  BY DEF Streams
<1> QED BY <1>1, <1>2 DEF Echo

LEMMA BeginsPiece ==
  ASSUME Types, NEW c \in Client, Echo(c), NEW k \in Base(c) .. Base(c) + config.size[c],
         Begins(c, k)
  PROVE  Piece(c, k)
<1> DEFINE S == config.size[c]
           l == config.least[c]
           b == Base(c)
<1>1. S \in Nat \ {0} /\ l \in 1 .. S
  BY ConfigFacts
<1>2. b \in Nat /\ b % S = 0 /\ k \in b .. b + S
  BY DEF Echo
<1>3. k % S = 0 \/ k % S >= l
  BY DEF Begins
<1>4. Piece(c, k) <=> k = b \/ k >= b + l
  BY DEF Piece
<1> HIDE DEF S, l, b
<1> QED BY <1>1, <1>2, <1>3, <1>4, ModGap
---------------------------------------------------------------------------------
LEMMA InitInv == ASSUME Init PROVE IInv
<1> USE DEF Init, ServerInit
<1>1. Types
  <2>1. NewNode \in Node /\ 0 \in Ints
    BY ServerAssumption DEF NewNode, Node, NoByte, Ints
  <2>2. config.count \in Ints
    BY ConfigsAssumption DEF Ints
  <2>3. up \in [Client -> [sent : Nat, arrived : Nat, read : Nat]]
    OBVIOUS
  <2> QED BY <2>1, <2>2, <2>3 DEF Types
<1>2. Queues
  BY DEF Queues, IsInjective, Range
<1>3. Streams
  <2> SUFFICES ASSUME NEW c \in Client
               PROVE  /\ up[c].read <= up[c].arrived /\ up[c].arrived <= up[c].sent
                      /\ got[c] <= Len(down[c]) /\ Room(c) >= 0
                      /\ up[c].read = 0 /\ down[c] = <<>> /\ got[c] = up[c].sent
                      /\ up[c].sent <= got[c] + config.size[c]
                      /\ c \notin ended /\ pc[c] \notin {"done", "killed"}
    BY DEF Streams
  <2>1. up[c] = [sent |-> 0, arrived |-> 0, read |-> 0] /\ got[c] = 0 /\ down[c] = <<>>
    OBVIOUS
  <2>2. config.size[c] \in Nat /\ config.room \in Nat
    BY <1>1, ConfigFacts
  <2> QED BY <2>1, <2>2 DEF Room
<1>4. Ready /\ Shared
  BY DEF Ready, Shared
<1>5. Echoes
  <2> SUFFICES ASSUME NEW c \in Client PROVE Echo(c)
    BY DEF Echoes
  <2>1. /\ up[c].sent = 0 /\ up[c].arrived = 0 /\ up[c].read = 0
        /\ down[c] = <<>> /\ Len(down[c]) = 0
        /\ conn[c].count = 0
    BY DEF NewNode
  <2>2. Base(c) = 0
    BY <2>1 DEF Base
  <2>3. config.size[c] \in Nat \ {0} /\ 0 % config.size[c] = 0
    BY <1>1, ConfigFacts, ModOf
  <2> QED BY <2>1, <2>2, <2>3 DEF Echo, Piece, Busy
<1> QED BY <1>1, <1>2, <1>3, <1>4, <1>5 DEF IInv
---------------------------------------------------------------------------------
LEMMA ConnectStep ==
  ASSUME IInv, NEW c \in Client, Connect(c)
  PROVE  IInv'
<1> USE DEF IInv, Connect
<1>1. Types'
  BY SMTT(30) DEF Types, server
<1>2. Range(backlog') = Range(backlog) \cup {c} /\ c \notin Range(backlog)
  <2>1. backlog \in Seq(Client) /\ backlog' = Append(backlog, c)
    BY DEF Types
  <2> QED BY <2>1 DEF Queues, Range
<1>3. Queues'
  <2>1. IsInjective(backlog')
    <3>1. backlog \in Seq(Client) /\ backlog' = Append(backlog, c) /\ IsInjective(backlog)
      BY DEF Types, Queues
    <3>2. \A i \in 1 .. Len(backlog) : backlog[i] # c
      BY <1>2, <3>1 DEF Range
    <3> QED BY <3>1, <3>2 DEF IsInjective
  <2>2. \A d \in Client : pc'[d] = "connect" => d # c /\ pc[d] = "connect"
    BY DEF Types
  <2>3. c \notin Range(list) /\ list' = list
    BY DEF Queues, server
  <2> QED BY <1>2, <2>1, <2>2, <2>3 DEF Queues, server
<1>4. Streams'
  <2> SUFFICES ASSUME NEW d \in Client
               PROVE  /\ pc'[d] = "connect" \/ d \in Range(backlog') => pc[d] = "connect" \/ d \in Range(backlog)
                      /\ pc'[d] \in {"connect", "ping"} => pc[d] \in {"connect", "ping"}
                      /\ pc'[d] \in {"done", "killed"} <=> pc[d] \in {"done", "killed"}
    BY DEF Streams, Room
  <2> QED BY <1>2 DEF Types
<1>5. Ready' /\ Shared'
  BY DEF Ready, Shared, Busy, Waiting, Eof, AllAlike, Prompt, Fits, server
<1>6. Echoes'
  BY DEF Echoes, Intact, Echo, Base, Piece, Busy, AllAlike, Prompt, Fits, server
<1> QED BY <1>1, <1>3, <1>4, <1>5, <1>6

LEMMA PingStep ==
  ASSUME IInv, NEW c \in Client, Ping(c)
  PROVE  IInv'
<1> USE DEF IInv, Ping
<1> DEFINE S == config.size[c]
<1>1. S \in Nat \ {0} /\ S \in SIZE_FIELD .. BUFFER_LEN /\ config.least[c] \in 1 .. S
  BY ConfigFacts
<1>2. /\ up'[c].sent = up[c].sent + S /\ up'[c].arrived = up[c].arrived /\ up'[c].read = up[c].read
      /\ \A d \in Client : d # c => up'[d] = up[d]
      /\ \A d \in Client : up'[d].arrived = up[d].arrived /\ up'[d].read = up[d].read
  BY DEF Types
<1>3. Types'
  <2>1. up' \in [Client -> [sent : Nat, arrived : Nat, read : Nat]]
    <3> DEFINE r == up[c]
    <3>0. r \in [sent : Nat, arrived : Nat, read : Nat]
      BY DEF Types
    <3> HIDE DEF r, S
    <3>1. [r EXCEPT !.sent = @ + S] \in [sent : Nat, arrived : Nat, read : Nat]
      <4>1. r.sent + S \in Nat
        BY <1>1, <3>0
      <4> QED BY <3>0, <4>1
    <3> USE DEF r, S
    <3>2. up' = [up EXCEPT ![c] = [up[c] EXCEPT !.sent = @ + S]]
      BY DEF Types
    <3> QED BY <3>1, <3>2 DEF Types
  <2>2. pc' \in [Client -> {"connect", "ping", "pong", "done", "killed"}]
    BY DEF Types
  <2> QED BY <2>1, <2>2 DEF Types, server
<1>4. Queues'
  BY DEF Queues, Types, server
<1>5. pc'[c] = "pong" /\ \A d \in Client : d # c => pc'[d] = pc[d]
  BY DEF Types
<1>6. c \notin ended
  BY DEF Streams
<1>7. Streams'
  <2> SUFFICES ASSUME NEW d \in Client
               PROVE  /\ up'[d].read <= up'[d].arrived /\ up'[d].arrived <= up'[d].sent
                      /\ pc'[d] = "connect" \/ d \in Range(backlog) => pc[d] = "connect" \/ d \in Range(backlog)
                      /\ pc'[d] \in {"connect", "ping"} => got[d] = up'[d].sent
                      /\ up'[d].sent <= got[d] + config.size[d]
                      /\ d \in ended <=> pc'[d] \in {"done", "killed"}
    BY <1>2 DEF Streams, Room
  <2>1. CASE d # c
    BY <1>2, <1>5, <2>1 DEF Streams
  <2>2. CASE d = c
    <3>1. got[c] = up[c].sent /\ up[c].read <= up[c].arrived /\ up[c].arrived <= up[c].sent
      BY DEF Streams
    <3> QED BY <1>1, <1>2, <1>5, <1>6, <2>2, <3>1, NodeFacts
  <2> QED BY <2>1, <2>2
<1>8. Ready' /\ Shared'
  <2>1. ASSUME NEW d \in todo, Waiting(d) > 0 \/ Eof(d) PROVE Waiting(d)' > 0 \/ Eof(d)'
    <3>1. d \in Client
      BY DEF Types, Range
    <3> QED BY <1>2, <1>6, <2>1, <3>1 DEF Waiting, Eof
  <2> QED BY <2>1 DEF Ready, Shared, Busy, AllAlike, Prompt, Fits, server
<1>9. Echoes'
  <2> SUFFICES ASSUME NEW d \in Client, Intact(d) PROVE Echo(d)'
    BY DEF Echoes, Intact, Prompt, Fits
  <2>1. Echo(d)
    BY DEF Echoes
  <2>2. CASE d # c
    BY <1>2, <2>1, <2>2, EchoUnread DEF Echo
  <2>3. CASE d = c
    <3>1. got[c] = up[c].sent /\ got[c] <= Len(down[c])
      BY DEF Streams
    <3>2. up[c].sent = Len(down[c]) /\ up[c].read = Len(down[c])
      BY <2>1, <2>3, <3>1, EchoOrder, NodeFacts
    <3>3. Base(c) = Len(down[c])
      BY <2>1, <2>3, <3>2, NodeFacts DEF Base, Echo
    <3>4. up'[c].sent = Base(c) + S
      BY <1>2, <3>2, <3>3
    <3>5. Piece(c, up'[c].sent)
      BY <1>1, <3>3, <3>4, NodeFacts DEF Piece
    <3>6. /\ Echo(c) /\ config' = config /\ up'[c].read = up[c].read /\ UNCHANGED <<down, server>>
          /\ Piece(c, up'[c].arrived)
      BY <1>2, <2>1, <2>3 DEF Echo
    <3>7. up'[c].sent <= Base(c) + S
      BY <1>1, <3>3, <3>4, NodeFacts
    <3> QED BY <2>3, <3>5, <3>6, <3>7, EchoUnread
  <2> QED BY <2>2, <2>3
<1> QED BY <1>3, <1>4, <1>7, <1>8, <1>9

LEMMA PongStep ==
  ASSUME IInv, NEW c \in Client, Pong(c)
  PROVE  IInv'
<1> USE DEF IInv
<1>1. /\ pc[c] = "pong" /\ UNCHANGED <<config, up, down, backlog, server>>
      /\ got' \in [Client -> Nat] /\ \A d \in Client : d # c => got'[d] = got[d]
      /\ got'[c] >= got[c] /\ got'[c] <= up[c].sent /\ got'[c] <= Len(down[c])
  <2>1. PICK n \in 1 .. Least(up[c].sent, Len(down[c])) - got[c] : got' = [got EXCEPT ![c] = @ + n]
    BY DEF Pong
  <2>2. n \in Nat /\ got[c] + n <= up[c].sent /\ got[c] + n <= Len(down[c])
    BY <2>1, NodeFacts DEF Least
  <2>3. got \in [Client -> Nat]
    BY DEF Types
  <2>4. got'[c] = got[c] + n /\ got[c] \in Nat
    BY <2>1, <2>3
  <2> QED BY <2>1, <2>2, <2>3, <2>4 DEF Pong
<1>2. \/ got'[c] < up[c].sent /\ pc' = pc /\ ended' = ended
      \/ got'[c] = up[c].sent /\ pc' = [pc EXCEPT ![c] = "ping"] /\ ended' = ended
      \/ got'[c] = up[c].sent /\ pc' = [pc EXCEPT ![c] = "done"] /\ ended' = ended \cup {c}
  <2>1. got'[c] \in Nat /\ up[c].sent \in Nat
    BY <1>1, NodeFacts
  <2> QED BY <1>1, <2>1 DEF Pong
<1>3. Types'
  BY <1>1, <1>2 DEF Types, server
<1>4. /\ \A d \in Client : d # c => pc'[d] = pc[d] /\ (d \in ended' <=> d \in ended)
      /\ pc'[c] \in {"pong", "ping", "done"}
      /\ pc'[c] = "ping" => got'[c] = up[c].sent
      /\ c \in ended' <=> pc'[c] = "done"
  <2>1. pc[c] = "pong" /\ c \notin ended /\ pc \in [Client -> {"connect", "ping", "pong", "done", "killed"}]
    BY <1>1 DEF Types, Streams
  <2> QED BY <1>2, <2>1
<1>5. Queues'
  BY <1>1, <1>4 DEF Queues, server
<1>6. Streams'
  <2> SUFFICES ASSUME NEW d \in Client
               PROVE  /\ got'[d] <= Len(down[d]) /\ config.room - (Len(down[d]) - got'[d]) >= 0
                      /\ pc'[d] = "connect" => pc[d] = "connect"
                      /\ pc'[d] \in {"connect", "ping"} => got'[d] = up[d].sent
                      /\ up[d].sent <= got'[d] + config.size[d]
                      /\ d \in ended' <=> pc'[d] \in {"done", "killed"}
    BY <1>1 DEF Streams, Room
  <2>1. CASE d # c
    BY <1>1, <1>4, <2>1 DEF Streams, Room
  <2>2. CASE d = c
    <3>1. /\ got[c] \in Nat /\ got'[c] \in Nat /\ Len(down[c]) \in Nat /\ up[c].sent \in Nat
          /\ config.room \in Nat /\ config.size[c] \in Nat
      BY <1>1, NodeFacts, ConfigFacts
    <3>2. config.room - (Len(down[c]) - got[c]) >= 0 /\ up[c].sent <= got[c] + config.size[c]
      BY DEF Streams, Room
    <3> QED BY <1>1, <1>4, <2>2, <3>1, <3>2
  <2> QED BY <2>1, <2>2
<1>7. Ready' /\ Shared'
  BY <1>1, <1>2 DEF Ready, Shared, Busy, Waiting, Eof, AllAlike, Prompt, Fits, server
<1>8. Echoes'
  BY <1>1 DEF Echoes, Intact, Echo, Base, Piece, Busy, Prompt, Fits, server
<1> QED BY <1>3, <1>5, <1>6, <1>7, <1>8

(* What arrives, and what of its stream a killed client still sent.        *)
LEMMA ArriveStep ==
  ASSUME IInv, NEW c \in Client, Arrive(c)
  PROVE  IInv'
<1> USE DEF IInv
<1>1. PICK k \in up[c].arrived + 1 .. up[c].sent :
        Begins(c, k) /\ up' = [up EXCEPT ![c].arrived = k]
  BY DEF Arrive
<1>2. /\ UNCHANGED <<config, down, got, ended, backlog, server, pc>>
      /\ UNCHANGED <<list, conn, count, todo, current, at, size>>
  BY DEF Arrive, server
<1>3. k \in Nat /\ up[c].arrived < k /\ k <= up[c].sent
  BY NodeFacts
<1>4. up' \in [Client -> [sent : Nat, arrived : Nat, read : Nat]]
  <2> DEFINE r == up[c]
  <2>1. r \in [sent : Nat, arrived : Nat, read : Nat]
    BY DEF Types
  <2> HIDE DEF r
  <2>2. [r EXCEPT !.arrived = k] \in [sent : Nat, arrived : Nat, read : Nat]
    BY <1>3, <2>1
  <2> USE DEF r
  <2>3. up' = [up EXCEPT ![c] = [up[c] EXCEPT !.arrived = k]]
    BY <1>1 DEF Types
  <2> QED BY <2>2, <2>3 DEF Types
<1>5. /\ up'[c].sent = up[c].sent /\ up'[c].arrived = k /\ up'[c].read = up[c].read
      /\ \A d \in Client : d # c => up'[d] = up[d]
  BY <1>1 DEF Types
<1>6. Types' /\ Queues'
  BY <1>2, <1>4 DEF Types, Queues
<1>7. Streams'
  <2> SUFFICES ASSUME NEW d \in Client
               PROVE  /\ up'[d].read <= up'[d].arrived /\ up'[d].arrived <= up'[d].sent
                      /\ up'[d].read = up[d].read /\ up'[d].sent = up[d].sent
    BY <1>2 DEF Streams, Room
  <2>1. up[d].read <= up[d].arrived /\ up[d].arrived <= up[d].sent
    BY DEF Streams
  <2> QED BY <1>3, <1>5, <2>1, NodeFacts
<1>8. Ready' /\ Shared'
  <2>1. ASSUME NEW d \in todo, Waiting(d) > 0 \/ Eof(d) PROVE Waiting(d)' > 0 \/ Eof(d)'
    <3>1. d \in Client
      BY DEF Types, Range
    <3>2. CASE d = c
      <4>1. Waiting(d) > 0
        BY <1>3, <2>1, <3>2, NodeFacts DEF Eof
      <4> QED BY <1>3, <1>5, <3>2, <4>1, NodeFacts DEF Waiting
    <3> QED BY <1>2, <1>5, <2>1, <3>1, <3>2 DEF Waiting, Eof
  <2> QED BY <1>2, <2>1 DEF Ready, Shared, Busy, AllAlike, Prompt, Fits
<1>9. Echoes'
  <2> SUFFICES ASSUME NEW d \in Client, Intact(d) PROVE Echo(d)'
    BY <1>2 DEF Echoes, Intact, Prompt, Fits
  <2>1. Echo(d)
    BY DEF Echoes
  <2>2. Piece(d, up'[d].arrived)
    <3>1. CASE d # c
      BY <1>5, <2>1, <3>1 DEF Echo
    <3>2. CASE d = c
      <4>1. k \in Base(d) .. Base(d) + config.size[d]
        <5>1. /\ Base(d) \in Nat /\ Base(d) <= Len(down[d]) /\ Len(down[d]) <= up[d].read
              /\ up[d].read <= up[d].arrived /\ up[d].sent <= Base(d) + config.size[d]
          BY <2>1, EchoOrder
        <5>2. /\ config.size[d] \in Nat /\ Len(down[d]) \in Nat /\ up[d].read \in Nat
              /\ up[d].arrived \in Nat /\ up[d].sent \in Nat
          BY NodeFacts, ConfigFacts
        <5> QED BY <1>3, <3>2, <5>1, <5>2, SMTT(30)
      <4> QED BY <1>1, <1>5, <2>1, <3>2, <4>1, BeginsPiece
    <3> QED BY <3>1, <3>2
  <2>3. /\ up'[d].read = up[d].read /\ up'[d].sent = up[d].sent
        /\ Piece(d, up[d].sent) /\ up[d].sent <= Base(d) + config.size[d]
    BY <1>5, <2>1 DEF Echo
  <2> QED BY <1>2, <2>1, <2>2, <2>3, EchoUnread DEF server
<1> QED BY <1>6, <1>7, <1>8, <1>9

LEMMA KillStep ==
  ASSUME IInv, NEW c \in Client, Kill(c)
  PROVE  IInv'
<1> USE DEF IInv
<1>1. PICK k \in up[c].arrived .. up[c].sent :
        Begins(c, k) /\ up' = [up EXCEPT ![c].sent = k]
  BY DEF Kill
<1>2. /\ UNCHANGED <<config, down, got, backlog, server>>
      /\ UNCHANGED <<list, conn, count, todo, current, at, size>>
      /\ pc[c] \in {"ping", "pong"} /\ pc' = [pc EXCEPT ![c] = "killed"] /\ ended' = ended \cup {c}
  BY DEF Kill, server
<1>3. k \in Nat /\ up[c].arrived <= k /\ k <= up[c].sent
  BY NodeFacts
<1>4. up' \in [Client -> [sent : Nat, arrived : Nat, read : Nat]]
  <2> DEFINE r == up[c]
  <2>1. r \in [sent : Nat, arrived : Nat, read : Nat]
    BY DEF Types
  <2> HIDE DEF r
  <2>2. [r EXCEPT !.sent = k] \in [sent : Nat, arrived : Nat, read : Nat]
    BY <1>3, <2>1
  <2> USE DEF r
  <2>3. up' = [up EXCEPT ![c] = [up[c] EXCEPT !.sent = k]]
    BY <1>1 DEF Types
  <2> QED BY <2>2, <2>3 DEF Types
<1>5. /\ up'[c].sent = k /\ up'[c].arrived = up[c].arrived /\ up'[c].read = up[c].read
      /\ \A d \in Client : d # c => up'[d] = up[d]
  BY <1>1 DEF Types
<1>6. /\ pc' \in [Client -> {"connect", "ping", "pong", "done", "killed"}]
      /\ pc'[c] = "killed" /\ \A d \in Client : d # c => pc'[d] = pc[d]
  BY <1>2 DEF Types
<1>7. Types'
  BY <1>2, <1>4, <1>6 DEF Types
<1>8. Queues'
  BY <1>2, <1>6 DEF Queues
<1>9. Streams'
  <2> SUFFICES ASSUME NEW d \in Client
               PROVE  /\ up'[d].read <= up'[d].arrived /\ up'[d].arrived <= up'[d].sent
                      /\ up'[d].read = up[d].read
                      /\ pc'[d] = "connect" => pc[d] = "connect"
                      /\ pc'[d] \in {"connect", "ping"} => got[d] = up'[d].sent
                      /\ up'[d].sent <= got[d] + config.size[d]
                      /\ d \in ended' <=> pc'[d] \in {"done", "killed"}
    BY <1>2 DEF Streams, Room
  <2>1. CASE d # c
    BY <1>2, <1>5, <1>6, <2>1 DEF Streams
  <2>2. CASE d = c
    <3>1. up[c].read <= up[c].arrived /\ up[c].sent <= got[c] + config.size[c]
      BY DEF Streams
    <3> QED BY <1>2, <1>3, <1>5, <1>6, <2>2, <3>1, NodeFacts, ConfigFacts
  <2> QED BY <2>1, <2>2
<1>10. Ready' /\ Shared'
  <2>1. ASSUME NEW d \in todo, Waiting(d) > 0 \/ Eof(d) PROVE Waiting(d)' > 0 \/ Eof(d)'
    <3>1. d \in Client
      BY DEF Types, Range
    <3>2. CASE d = c
      <4>1. c \notin ended
        BY <1>2 DEF Streams
      <4>2. Waiting(d) > 0
        BY <2>1, <3>2, <4>1 DEF Eof
      <4> QED BY <1>5, <3>2, <4>2 DEF Waiting
    <3> QED BY <1>2, <1>5, <2>1, <3>1, <3>2 DEF Waiting, Eof
  <2> QED BY <1>2, <2>1 DEF Ready, Shared, Busy, AllAlike, Prompt, Fits
<1>11. Echoes'
  <2> SUFFICES ASSUME NEW d \in Client, Intact(d) PROVE Echo(d)'
    BY <1>2 DEF Echoes, Intact, Prompt, Fits
  <2>1. Echo(d)
    BY DEF Echoes
  <2>2. Piece(d, up'[d].sent) /\ up'[d].sent <= Base(d) + config.size[d]
    <3>1. CASE d # c
      BY <1>5, <2>1, <3>1 DEF Echo
    <3>2. CASE d = c
      <4>1. k \in Base(d) .. Base(d) + config.size[d]
        <5>1. /\ Base(d) \in Nat /\ Base(d) <= Len(down[d]) /\ Len(down[d]) <= up[d].read
              /\ up[d].read <= up[d].arrived /\ up[d].sent <= Base(d) + config.size[d]
          BY <2>1, EchoOrder
        <5>2. /\ config.size[d] \in Nat /\ Len(down[d]) \in Nat /\ up[d].read \in Nat
              /\ up[d].arrived \in Nat /\ up[d].sent \in Nat
          BY NodeFacts, ConfigFacts
        <5> QED BY <1>3, <3>2, <5>1, <5>2, SMTT(30)
      <4>2. Piece(d, k)
        BY <1>1, <2>1, <3>2, <4>1, BeginsPiece
      <4>3. k <= Base(d) + config.size[d]
        BY <1>3, <2>1, <3>2, EchoOrder, NodeFacts, ConfigFacts
      <4> QED BY <1>5, <3>2, <4>2, <4>3
    <3> QED BY <3>1, <3>2
  <2>3. up'[d].read = up[d].read /\ up'[d].arrived = up[d].arrived /\ Piece(d, up[d].arrived)
    BY <1>5, <2>1 DEF Echo
  <2> QED BY <1>2, <2>1, <2>2, <2>3, EchoUnread DEF server
<1> QED BY <1>7, <1>8, <1>9, <1>10, <1>11
---------------------------------------------------------------------------------
LEMMA TodoFacts ==
  ASSUME Types, Queues, NEW c \in todo
  PROVE  c \in Client /\ c \in Range(list) /\ c \notin Range(backlog) /\ pc[c] # "connect"
<1>1. c \in Range(list) /\ list \in Seq(Client)
  BY DEF Types
<1>2. c \in Client
  BY <1>1 DEF Range
<1> QED BY <1>1, <1>2 DEF Queues

(* A step about the current connection leaves the others as they are.      *)
LEMMA OthersEcho ==
  ASSUME Echoes, NEW c \in Client, config' = config,
         at = "scan" \/ current = c, at' = "scan" \/ current' = c,
         \A d \in Client : d # c => up'[d] = up[d] /\ down'[d] = down[d] /\ conn'[d] = conn[d],
         Intact(c) => Echo(c)'
  PROVE  Echoes'
<1> SUFFICES ASSUME NEW d \in Client, Intact(d) PROVE Echo(d)'
  BY DEF Echoes, Intact, Prompt, Fits
<1>1. CASE d = c
  BY <1>1
<1>2. CASE d # c
  <2>1. Echo(d) /\ ~Busy(d) /\ ~Busy(d)'
    BY <1>2 DEF Echoes, Busy
  <2> QED BY <1>2, <2>1, EchoFrame
<1> QED BY <1>1, <1>2

LEMMA OthersReady ==
  ASSUME Ready, NEW c, at = "scan" \/ current = c, ended' = ended,
         todo' \subseteq todo, c \in todo' => Busy(c)',
         \A d \in todo : d # c => up'[d] = up[d]
  PROVE  Ready'
<1> SUFFICES ASSUME NEW d \in todo', ~Busy(d)' PROVE Waiting(d)' > 0 \/ Eof(d)'
  BY DEF Ready
<1>1. d \in todo /\ d # c /\ ~Busy(d)
  BY DEF Busy
<1>2. (Waiting(d) > 0 \/ Eof(d)) /\ up'[d] = up[d]
  BY <1>1 DEF Ready
<1> QED BY <1>2 DEF Waiting, Eof

LEMMA SharedStays == ASSUME Shared, UNCHANGED <<config, count>> PROVE Shared'
  BY DEF Shared, AllAlike, Prompt, Fits
---------------------------------------------------------------------------------
LEMMA PushOne ==
  ASSUME NEW T, NEW s \in Seq(T), NEW x \in T, IsInjective(s), x \notin Range(s)
  PROVE  /\ <<x>> \o s \in Seq(T) /\ IsInjective(<<x>> \o s)
         /\ Range(<<x>> \o s) = Range(s) \cup {x}
<1> DEFINE r == <<x>> \o s
<1>1. /\ r \in Seq(T) /\ Len(s) \in Nat /\ Len(r) = Len(s) + 1 /\ r[1] = x
      /\ \A i \in 1 .. Len(s) : r[i + 1] = s[i]
  OBVIOUS
<1> HIDE DEF r
<1>2. DOMAIN r = 1 .. Len(s) + 1 /\ DOMAIN s = 1 .. Len(s)
  BY <1>1
<1>3. ASSUME NEW j \in 1 .. Len(s) + 1, j # 1
      PROVE  j - 1 \in 1 .. Len(s) /\ r[j] = s[j - 1]
  <2>1. j - 1 \in 1 .. Len(s) /\ (j - 1) + 1 = j
    BY <1>1, <1>3
  <2> QED BY <1>1, <2>1
<1>4. \A i \in 1 .. Len(s) : s[i] # x
  BY <1>2 DEF Range
<1>5. IsInjective(r)
  <2> SUFFICES ASSUME NEW i \in 1 .. Len(s) + 1, NEW j \in 1 .. Len(s) + 1, r[i] = r[j]
               PROVE  i = j
    BY <1>2 DEF IsInjective
  <2>1. CASE i = 1 \/ j = 1
    BY <1>1, <1>3, <1>4, <2>1
  <2>2. CASE i # 1 /\ j # 1
    <3>1. i - 1 \in 1 .. Len(s) /\ j - 1 \in 1 .. Len(s) /\ s[i - 1] = s[j - 1]
      BY <1>3, <2>2
    <3>2. i - 1 = j - 1
      BY <1>2, <3>1 DEF IsInjective
    <3> QED BY <1>1, <3>2
  <2> QED BY <2>1, <2>2
<1>6. ASSUME NEW y \in Range(r), y # x PROVE y \in Range(s)
  <2>1. PICK j \in 1 .. Len(s) + 1 : y = r[j]
    BY <1>2 DEF Range
  <2>2. j # 1
    BY <1>1, <1>6, <2>1
  <2> QED BY <1>2, <1>3, <2>1, <2>2 DEF Range
<1>7. x \in Range(r)
  BY <1>1, <1>2 DEF Range
<1>8. ASSUME NEW y \in Range(s) PROVE y \in Range(r)
  <2>1. PICK i \in 1 .. Len(s) : y = s[i]
    BY <1>2 DEF Range
  <2>2. i + 1 \in 1 .. Len(s) + 1 /\ r[i + 1] = y
    BY <1>1, <2>1
  <2> QED BY <1>2, <2>2 DEF Range
<1> QED BY <1>1, <1>5, <1>6, <1>7, <1>8 DEF r

LEMMA PopOne ==
  ASSUME NEW T, NEW s \in Seq(T), s # <<>>, IsInjective(s)
  PROVE  /\ Head(s) \in T /\ Head(s) \in Range(s)
         /\ Tail(s) \in Seq(T) /\ IsInjective(Tail(s)) /\ Range(Tail(s)) = Range(s) \ {Head(s)}
<1> DEFINE r == Tail(s)
<1>1. /\ r \in Seq(T) /\ Len(s) \in Nat \ {0} /\ Len(r) = Len(s) - 1 /\ Head(s) = s[1] /\ Head(s) \in T
      /\ \A i \in 1 .. Len(s) - 1 : r[i] = s[i + 1]
  OBVIOUS
<1> HIDE DEF r
<1>2. DOMAIN r = 1 .. Len(s) - 1 /\ DOMAIN s = 1 .. Len(s)
  BY <1>1
<1>3. IsInjective(r)
  BY <1>1, <1>2, SMTT(30) DEF IsInjective
<1>4. ASSUME NEW y \in Range(r) PROVE y \in Range(s) \ {s[1]}
  <2>1. PICK i \in 1 .. Len(s) - 1 : y = s[i + 1]
    BY <1>1, <1>2 DEF Range
  <2>2. i + 1 \in DOMAIN s /\ 1 \in DOMAIN s /\ i + 1 # 1
    BY <1>1, <1>2
  <2> QED BY <2>1, <2>2 DEF Range, IsInjective
<1>5. ASSUME NEW y \in Range(s) \ {s[1]} PROVE y \in Range(r)
  <2>1. PICK j \in 1 .. Len(s) : y = s[j] /\ j # 1
    BY <1>2, <1>5 DEF Range
  <2>2. j - 1 \in 1 .. Len(s) - 1 /\ (j - 1) + 1 = j
    BY <1>1, <2>1
  <2>3. r[j - 1] = y
    BY <1>1, <2>1, <2>2
  <2> QED BY <1>2, <2>2, <2>3 DEF Range
<1>6. s[1] \in Range(s)
  BY <1>1, <1>2 DEF Range
<1> QED BY <1>1, <1>3, <1>4, <1>5, <1>6 DEF r

LEMMA SelectStep ==
  ASSUME IInv, Select, UNCHANGED pc
  PROVE  IInv'
<1> USE DEF IInv
<1>1. /\ at = "scan" /\ todo = {} /\ todo' = {d \in Range(list) : Waiting(d) > 0 \/ Eof(d)}
      /\ UNCHANGED <<config, up, down, got, ended, count, current, at, size>>
  BY DEF Select
<1>2. backlog \in Seq(Client) /\ list \in Seq(Client) /\ IsInjective(backlog) /\ IsInjective(list)
  BY DEF Types, Queues
<1>3. Ready' /\ Shared'
  BY <1>1 DEF Ready, Shared, Busy, Waiting, Eof, AllAlike, Prompt, Fits
<1>4. CASE /\ backlog = <<>> /\ UNCHANGED <<backlog, list, conn>>
  <2>1. Types' /\ Queues' /\ Streams'
    BY <1>1, <1>4 DEF Types, Queues, Streams, Room
  <2>2. Echoes'
    BY <1>1, <1>4 DEF Echoes, Intact, Echo, Base, Piece, Busy, Prompt, Fits
  <2> QED BY <1>3, <2>1, <2>2
<1>5. CASE /\ backlog # <<>>
           /\ list' = <<Head(backlog)>> \o list /\ backlog' = Tail(backlog)
           /\ conn' = [conn EXCEPT ![Head(backlog)] = NewNode]
  <2>0. PICK c \in Client : c = Head(backlog)
    BY <1>2, <1>5, PopOne
  <2>1. /\ c \in Range(backlog) /\ backlog' \in Seq(Client)
        /\ IsInjective(backlog') /\ Range(backlog') = Range(backlog) \ {c}
    BY <1>2, <1>5, <2>0, PopOne
  <2>2. c \notin Range(list)
    BY <2>1 DEF Queues
  <2>3. /\ list' \in Seq(Client) /\ IsInjective(list') /\ Range(list') = Range(list) \cup {c}
    BY <1>2, <1>5, <2>0, <2>2, PushOne
  <2>4. conn' = [conn EXCEPT ![c] = NewNode]
    BY <1>5, <2>0
  <2>5. Types'
    <3>1. NewNode \in Node
      BY ServerAssumption DEF NewNode, Node, NoByte, Ints
    <3>2. conn' \in [Client -> Node]
      BY <2>4, <3>1 DEF Types
    <3> QED BY <1>1, <2>1, <2>3, <3>2 DEF Types
  <2>6. Queues'
    BY <2>1, <2>2, <2>3 DEF Queues
  <2>7. Streams'
    BY <1>1, <2>1 DEF Streams, Room
  <2>8. Echoes'
    <3>1. ASSUME Intact(c) PROVE Echo(c)'
      <4>1. Echo(c) /\ up[c].read = 0 /\ down[c] = <<>>
        BY <2>1, <3>1 DEF Echoes, Streams
      <4>0. Len(down[c]) = 0
        BY <4>1
      <4>2. Base(c) = 0 /\ Base(c)' = 0
        BY <1>1, <4>0 DEF Base
      <4>3. conn'[c].count = 0
        BY <2>4 DEF Types, NewNode
      <4> QED BY <1>1, <4>0, <4>1, <4>2, <4>3 DEF Echo, Piece, Busy
    <3>2. \A d \in Client : d # c => conn'[d] = conn[d]
      BY <2>4 DEF Types
    <3> QED BY <1>1, <3>1, <3>2, OthersEcho
  <2> QED BY <1>3, <2>5, <2>6, <2>7, <2>8
<1> QED BY <1>4, <1>5 DEF Select
---------------------------------------------------------------------------------
LEMMA ReceivedFacts ==
  ASSUME Types, Streams, NEW c \in Client, NEW len \in Int
  PROVE  /\ Received(c, len) \in Int
         /\ Received(c, len) > 0 => Received(c, len) <= Waiting(c)
         /\ Waiting(c) = 0 => Received(c, len) \in {0, -1}
<1>1. Waiting(c) \in Int
  BY NodeFacts DEF Waiting
<1> QED BY <1>1 DEF Received, Least

LEMMA FilledNode ==
  ASSUME Types, NEW c \in Client, NEW i \in Int, NEW n \in Int, NEW x \in Ints
  PROVE  /\ [count |-> x, receivebuffer |-> Filled(c, i, n)] \in Node
         /\ [conn[c] EXCEPT !.receivebuffer = Filled(c, i, n)] \in Node
<1>1. /\ conn[c].count \in Ints /\ conn[c].receivebuffer \in [0 .. BUFFER_LEN - 1 -> Int]
      /\ conn[c] \in Node /\ up[c].read \in Int
  BY NodeFacts DEF Node
<1>2. Filled(c, i, n) \in [0 .. BUFFER_LEN - 1 -> Int]
  <2> SUFFICES ASSUME NEW k \in 0 .. BUFFER_LEN - 1
               PROVE  (IF i <= k /\ k < i + n THEN up[c].read + k - i
                       ELSE conn[c].receivebuffer[k]) \in Int
    BY DEF Filled
  <2>1. k \in Int
    BY ServerAssumption
  <2>2. conn[c].receivebuffer[k] \in Int
    BY <1>1
  <2>3. up[c].read + k - i \in Int
    BY <1>1, <2>1
  <2> QED BY <2>2, <2>3
<1> QED BY <1>1, <1>2 DEF Node

LEMMA SizeInFacts ==
  ASSUME Types, NEW c \in Client, NEW b
  PROVE  SizeIn(c, b) \in {NoSize, config.size[c]}
  BY DEF SizeIn

(* What a recv does to the streams.                                        *)
LEMMA ReadStep ==
  ASSUME Types, Queues, Streams, NEW c \in todo, NEW n \in Int, n > 0 => n <= Waiting(c),
         Read(c, n), UNCHANGED <<config, down, got, ended, backlog, pc>>
  PROVE  /\ up' \in [Client -> [sent : Nat, arrived : Nat, read : Nat]]
         /\ \A d \in Client : d # c => up'[d] = up[d]
         /\ up'[c].sent = up[c].sent /\ up'[c].arrived = up[c].arrived
         /\ up'[c].read = up[c].read + (IF n > 0 THEN n ELSE 0)
         /\ Streams'
<1> DEFINE m == IF n > 0 THEN n ELSE 0
<1>1. /\ c \in Client /\ c \notin Range(backlog) /\ pc[c] # "connect"
  BY TodoFacts
<1>2. up[c].sent \in Nat /\ up[c].arrived \in Nat /\ up[c].read \in Nat /\ up[c].read <= up[c].arrived
  BY <1>1, NodeFacts DEF Streams
<1>3. m \in Nat /\ up[c].read + m \in Nat /\ up[c].read + m <= up[c].arrived
  BY <1>2 DEF Waiting
<1> HIDE DEF m
<1>4. up' = [up EXCEPT ![c] = [up[c] EXCEPT !.read = @ + m]]
  BY <1>1 DEF Types, Read, m
<1>5. [up[c] EXCEPT !.read = @ + m] \in [sent : Nat, arrived : Nat, read : Nat]
  <2> DEFINE r == up[c]
  <2>1. r \in [sent : Nat, arrived : Nat, read : Nat] /\ r.read + m \in Nat
    BY <1>1, <1>3 DEF Types
  <2> HIDE DEF r
  <2>2. [r EXCEPT !.read = @ + m] \in [sent : Nat, arrived : Nat, read : Nat]
    BY <2>1
  <2> QED BY <2>2 DEF r
<1>6. up' \in [Client -> [sent : Nat, arrived : Nat, read : Nat]]
  BY <1>1, <1>4, <1>5 DEF Types
<1>7. /\ \A d \in Client : d # c => up'[d] = up[d]
      /\ up'[c].sent = up[c].sent /\ up'[c].arrived = up[c].arrived /\ up'[c].read = up[c].read + m
  BY <1>1, <1>4 DEF Types
<1>8. Streams'
  <2> SUFFICES ASSUME NEW d \in Client
               PROVE  /\ up'[d].read <= up'[d].arrived /\ up'[d].arrived <= up'[d].sent
                      /\ up'[d].sent = up[d].sent
                      /\ pc[d] = "connect" \/ d \in Range(backlog) => up'[d].read = 0
    BY DEF Streams, Room
  <2>1. CASE d # c
    BY <1>7, <2>1 DEF Streams
  <2>2. CASE d = c
    BY <1>1, <1>3, <1>7, <2>2 DEF Streams
  <2> QED BY <2>1, <2>2
<1> QED BY <1>6, <1>7, <1>8 DEF m

(* The size field of a message in its place is read as its size.           *)
LEMMA SizeRead ==
  ASSUME Types, NEW c \in Client, NEW b, NEW D \in Nat, D % config.size[c] = 0,
         \A k \in 0 .. SIZE_FIELD - 1 : b[k] = D + k
  PROVE  SizeIn(c, b) = config.size[c]
<1>1. config.size[c] \in Nat \ {0} /\ config.size[c] >= SIZE_FIELD /\ SIZE_FIELD \in Nat
  BY ConfigFacts, ServerAssumption
<1>2. ASSUME NEW k \in 0 .. SIZE_FIELD - 1 PROVE b[k] >= 0 /\ b[k] % config.size[c] = k
  <2> DEFINE S == config.size[c]
  <2>1. k \in 0 .. S - 1 /\ D + k >= 0
    BY <1>1
  <2>2. S \in Nat \ {0} /\ D % S = 0
    BY <1>1
  <2> HIDE DEF S
  <2>3. (D + k) % S = k
    BY <2>1, <2>2, ModAdd
  <2> QED BY <2>1, <2>3 DEF S
<1> QED BY <1>2 DEF SizeIn

(* The first recv of an Intact client reads all there is.                  *)
LEMMA RecvIntact ==
  ASSUME IInv, at = "scan", NEW c \in todo, Intact(c)
  PROVE  LET n == Received(c, BUFFER_LEN) IN
         /\ n = Waiting(c) /\ n \in Nat
         /\ Counted(c, n) = up[c].arrived - Len(down[c]) /\ Counted(c, n) \in Nat
         /\ Counted(c, n) <= 0 => c \in ended
         /\ Counted(c, n) > 0 => Counted(c, n) >= SIZE_FIELD
         /\ \A k \in 0 .. Counted(c, n) - 1 : Filled(c, conn[c].count, n)[k] = Len(down[c]) + k
<1> USE DEF IInv
<1> DEFINE n == Received(c, BUFFER_LEN)
           D == Len(down[c])
           S == config.size[c]
           r == up[c].read
           a == up[c].arrived
<1>1. c \in Client /\ Echo(c) /\ ~Busy(c)
  BY TodoFacts DEF Echoes, Busy
<1>2. Base(c) = D /\ D \in Nat
  BY <1>1, NodeFacts DEF Base
<1>3. /\ D <= r /\ r <= a /\ a <= D + S /\ r \in Nat /\ a \in Nat
      /\ S \in Nat /\ S <= BUFFER_LEN /\ BUFFER_LEN \in Nat
  BY <1>1, <1>2, EchoOrder, NodeFacts, ConfigFacts, ServerAssumption, SMTT(30)
<1>4. Waiting(c) > 0 \/ (Waiting(c) = 0 /\ Eof(c))
  <2>1. Waiting(c) > 0 \/ Eof(c)
    BY <1>1 DEF Ready
  <2>2. Waiting(c) \in Nat
    BY <1>3 DEF Waiting
  <2> QED BY <2>1, <2>2 DEF Eof
<1>5. n = a - r /\ n \in Nat /\ n = Waiting(c)
  <2>1. Waiting(c) = a - r /\ a - r <= BUFFER_LEN
    BY <1>3 DEF Waiting
  <2> HIDE DEF a, r
  <2>2. CASE Waiting(c) > 0
    BY <1>3, <2>1, <2>2 DEF Received, Least
  <2>3. CASE Waiting(c) = 0 /\ Eof(c)
    BY <1>3, <2>1, <2>3 DEF Received
  <2> QED BY <1>4, <2>2, <2>3
<1>6. conn[c].count = r - D
  BY <1>1, <1>2 DEF Echo
<1>7. Counted(c, n) = a - D /\ a - D \in Nat
  <2>1. conn[c].count + n = a - D
    BY <1>2, <1>3, <1>5, <1>6
  <2>2. a - D \in Ints /\ a - D \in Nat
    <3>1. /\ D \in Nat /\ a \in Nat /\ D <= a /\ a <= D + S /\ S \in Nat
          /\ S <= INT_MAX /\ INT_MAX \in Nat
      BY <1>2, <1>3, ServerAssumption
    <3> HIDE DEF a, D, S
    <3>2. a - D \in Nat /\ a - D <= INT_MAX
      BY <3>1
    <3> QED BY <3>1, <3>2 DEF Ints
  <2> HIDE DEF n, a, D
  <2> QED BY <2>1, <2>2, WordSame DEF Counted
<1>8. a - D <= 0 => c \in ended
  <2> SUFFICES ASSUME a - D <= 0 PROVE c \in ended
    OBVIOUS
  <2>1. Waiting(c) = 0
    BY <1>2, <1>3 DEF Waiting
  <2> QED BY <1>4, <2>1 DEF Eof
<1>9. a - D > 0 => a - D >= SIZE_FIELD
  <2>1. a = D \/ a >= D + config.least[c]
    BY <1>1, <1>2 DEF Echo, Piece
  <2>2. config.least[c] >= SIZE_FIELD /\ config.least[c] \in Nat /\ SIZE_FIELD \in Nat
    BY <1>1, IntactFacts, ConfigFacts, ServerAssumption
  <2> QED BY <1>2, <1>3, <2>1, <2>2
<1>10. ASSUME NEW k \in 0 .. (a - D) - 1
       PROVE  Filled(c, conn[c].count, n)[k] = D + k
  <2>1. k \in 0 .. BUFFER_LEN - 1 /\ k \in Nat
    BY <1>2, <1>3
  <2>2. Filled(c, conn[c].count, n)[k] =
          IF r - D <= k /\ k < (r - D) + n THEN r + k - (r - D) ELSE conn[c].receivebuffer[k]
    BY <1>6, <2>1 DEF Filled
  <2>3. CASE r - D <= k
    <3>1. k < (r - D) + n
      <4> HIDE DEF n, r, a, D
      <4> QED BY <1>2, <1>3, <1>5, <2>1
    <3>2. r + k - (r - D) = D + k
      <4> HIDE DEF r, D
      <4> QED BY <1>2, <1>3, <2>1
    <3> QED BY <2>2, <2>3, <3>1, <3>2
  <2>4. CASE k < r - D
    <3>1. k \in 0 .. r - D - 1
      BY <1>2, <1>3, <2>1, <2>4
    <3>2. conn[c].receivebuffer[k] = D + k
      BY <1>1, <1>2, <3>1 DEF Echo
    <3> QED BY <1>2, <1>3, <2>1, <2>2, <2>4, <3>2
  <2> QED BY <1>2, <1>3, <2>1, <2>3, <2>4
<1> QED BY <1>5, <1>7, <1>8, <1>9, <1>10
---------------------------------------------------------------------------------
LEMMA DumpStep ==
  ASSUME Types, Queues, NEW c \in todo
  PROVE  /\ dump(c) \in Seq(Client) /\ IsInjective(dump(c))
         /\ Range(dump(c)) = Range(list) \ {c}
<1>1. list \in Seq(Client) /\ IsInjective(list) /\ c \in Range(list)
  BY TodoFacts DEF Types, Queues
<1>2. \E i \in DOMAIN list : list[i] = c
  BY <1>1 DEF Range
<1> DEFINE i == CHOOSE i \in DOMAIN list : list[i] = c
<1>3. i \in DOMAIN list /\ list[i] = c
  BY <1>2
<1>4. dump(c) = RemoveAt(list, i)
  BY DEF dump
<1> HIDE DEF i
<1> QED BY <1>1, <1>3, <1>4, RemoveOne

LEMMA RecvStep ==
  ASSUME IInv, Recv, UNCHANGED pc
  PROVE  IInv'
<1> USE DEF IInv
<1>0. at = "scan" /\ UNCHANGED <<config, down, got, ended, backlog, count, pc>>
  BY DEF Recv
<1>1. PICK c \in todo :
        LET n == Received(c, BUFFER_LEN)
            node == [count |-> Counted(c, n),
                     receivebuffer |-> Filled(c, conn[c].count, n)]
        IN  /\ current' = c /\ Read(c, n) /\ conn' = [conn EXCEPT ![c] = node]
            /\ \/ node.count <= 0 /\ list' = dump(c) /\ Handled(c) /\ UNCHANGED size
               \/ /\ node.count \in 1 .. SIZE_FIELD - 1
                  /\ at' = "size" /\ UNCHANGED <<list, todo, size>>
               \/ /\ node.count >= SIZE_FIELD
                  /\ at' = "rest" /\ size' = SizeIn(c, node.receivebuffer)
                  /\ UNCHANGED <<list, todo>>
  BY DEF Recv
<1>2. PICK n \in Int : n = Received(c, BUFFER_LEN) /\ (n > 0 => n <= Waiting(c))
  BY TodoFacts, ReceivedFacts, ServerAssumption
<1>3. PICK x : x = Counted(c, n)
  OBVIOUS
<1>4. PICK b : b = Filled(c, conn[c].count, n)
  OBVIOUS
<1>5. /\ current' = c /\ Read(c, n)
      /\ conn' = [conn EXCEPT ![c] = [count |-> x, receivebuffer |-> b]]
      /\ \/ x <= 0 /\ list' = dump(c) /\ Handled(c) /\ UNCHANGED size
         \/ x \in 1 .. SIZE_FIELD - 1 /\ at' = "size" /\ UNCHANGED <<list, todo, size>>
         \/ /\ x >= SIZE_FIELD /\ at' = "rest" /\ size' = SizeIn(c, b)
            /\ UNCHANGED <<list, todo>>
  BY <1>1, <1>2, <1>3, <1>4
<1>6. c \in Client
  BY TodoFacts
<1>7. x \in Ints /\ [count |-> x, receivebuffer |-> b] \in Node
  <2>1. conn[c].count + n \in Int /\ conn[c].count \in Int
    BY <1>6, NodeFacts
  <2>2. x \in Ints
    BY <1>3, <2>1, WordInts DEF Counted
  <2> QED BY <1>4, <1>6, <2>1, <2>2, FilledNode
<1>8. conn' \in [Client -> Node] /\ conn'[c] = [count |-> x, receivebuffer |-> b]
      /\ \A d \in Client : d # c => conn'[d] = conn[d]
  BY <1>5, <1>6, <1>7 DEF Types
<1>9. /\ up' \in [Client -> [sent : Nat, arrived : Nat, read : Nat]]
      /\ \A d \in Client : d # c => up'[d] = up[d]
      /\ up'[c].sent = up[c].sent /\ up'[c].arrived = up[c].arrived
      /\ up'[c].read = up[c].read + (IF n > 0 THEN n ELSE 0)
      /\ Streams'
  <2>1. Read(c, n) /\ (n > 0 => n <= Waiting(c)) /\ UNCHANGED <<config, down, got, ended, backlog, pc>>
    BY <1>0, <1>2, <1>5
  <2> QED BY <2>1, ReadStep
<1>10. /\ list' \in Seq(Client) /\ IsInjective(list') /\ Range(list') \subseteq Range(list)
       /\ todo' \subseteq todo /\ todo' \subseteq Range(list')
       /\ at' \in {"scan", "size", "rest"} /\ (at' # "scan" => c \in todo')
       /\ c \in todo' => at' # "scan"
       /\ size' \in {size, NoSize, config.size[c]}
  <2>1. list \in Seq(Client) /\ IsInjective(list) /\ todo \subseteq Range(list)
    BY DEF Types, Queues
  <2>2. CASE x <= 0 /\ list' = dump(c) /\ Handled(c) /\ UNCHANGED size
    BY <2>1, <2>2, DumpStep DEF Handled
  <2>3. CASE x \in 1 .. SIZE_FIELD - 1 /\ at' = "size" /\ UNCHANGED <<list, todo, size>>
    BY <2>1, <2>3
  <2>4. CASE x >= SIZE_FIELD /\ at' = "rest" /\ size' = SizeIn(c, b) /\ UNCHANGED <<list, todo>>
    BY <1>6, <2>1, <2>4, SizeInFacts
  <2> QED BY <1>5, <2>2, <2>3, <2>4
<1>11. Types'
  <2>1. size' \in {0, NoSize} \cup {config'.size[d] : d \in Client}
    BY <1>0, <1>6, <1>10 DEF Types
  <2>2. at' \in {"scan", "size", "rest", "send"} /\ (at' # "scan" => current' \in todo')
    BY <1>5, <1>10
  <2>3. /\ config' \in Configs /\ down' \in [Client -> Seq(Int)] /\ got' \in [Client -> Nat]
        /\ ended' \subseteq Client /\ backlog' \in Seq(Client) /\ count' \in Ints
        /\ pc' \in [Client -> {"connect", "ping", "pong", "done", "killed"}]
    BY <1>0 DEF Types
  <2> QED BY <1>8, <1>9, <1>10, <2>1, <2>2, <2>3 DEF Types
<1>12. Queues'
  BY <1>0, <1>10 DEF Queues
<1>13. Ready'
  <2>1. \A d \in todo : d # c => up'[d] = up[d]
    BY <1>9, TodoFacts
  <2>2. c \in todo' => Busy(c)'
    BY <1>5, <1>10 DEF Busy
  <2> QED BY <1>0, <1>10, <2>1, <2>2, OthersReady
<1>14. Shared'
  BY <1>0, SharedStays
<1>15. ASSUME Intact(c) PROVE Echo(c)'
  <2> DEFINE D == Len(down[c])
             S == config.size[c]
             a == up[c].arrived
  <2>1. /\ n = Waiting(c) /\ n \in Nat /\ x = a - D /\ x \in Nat
        /\ x > 0 => x >= SIZE_FIELD
        /\ \A k \in 0 .. x - 1 : b[k] = D + k
    BY <1>0, <1>2, <1>3, <1>4, <1>15, RecvIntact
  <2>2. Echo(c) /\ Base(c) = D /\ D \in Nat /\ S \in Nat /\ a \in Nat
    <3>1. Echo(c)
      BY <1>6, <1>15 DEF Echoes
    <3> QED BY <1>0, <1>6, <3>1, NodeFacts, ConfigFacts DEF Base
  <2>3. up'[c].read = a
    <3>1. up'[c].read = up[c].read + n /\ n = a - up[c].read /\ up[c].read \in Nat
      BY <1>6, <1>9, <2>1, NodeFacts DEF Waiting
    <3> QED BY <2>2, <3>1
  <2>4. Base(c)' = D
    BY <1>0, <1>10 DEF Base
  <2>5. conn'[c].count = x /\ conn'[c].receivebuffer = b
    BY <1>8
  <2>6. at' # "scan" => at' = "rest" /\ size' = S /\ x >= SIZE_FIELD
    <3> SUFFICES ASSUME at' # "scan" PROVE at' = "rest" /\ size' = S /\ x >= SIZE_FIELD
      OBVIOUS
    <3>1. x >= SIZE_FIELD /\ at' = "rest" /\ size' = SizeIn(c, b)
      BY <1>5, <2>1, ServerAssumption DEF Handled
    <3>2. \A k \in 0 .. SIZE_FIELD - 1 : b[k] = D + k
      <4> HIDE DEF D
      <4>1. \A k \in 0 .. SIZE_FIELD - 1 : k \in 0 .. x - 1
        BY <2>1, <3>1, ServerAssumption
      <4> QED BY <2>1, <4>1
    <3>3. D % config.size[c] = 0
      BY <2>2 DEF Echo
    <3>4. SizeIn(c, b) = config.size[c]
      <4> HIDE DEF D
      <4> QED BY <1>6, <2>2, <3>2, <3>3, SizeRead
    <3> QED BY <3>1, <3>4
  <2>7. /\ D % S = 0 /\ D <= D /\ up'[c].sent <= D + S
        /\ Piece(c, a) /\ Piece(c, up[c].sent)
    BY <1>9, <2>2 DEF Echo
  <2>8. Piece(c, up[c].read)' /\ Piece(c, up[c].arrived)' /\ Piece(c, up[c].sent)'
    BY <1>0, <1>9, <2>2, <2>3, <2>4, <2>7 DEF Piece
  <2>9. \A k \in 1 .. Len(down[c]) : down[c][k] = k - 1
    BY <2>2 DEF Echo
  <2> HIDE DEF D, S, a
  <2>10. /\ conn'[c].count \in Nat /\ conn'[c].count = up'[c].read - D
         /\ \A k \in 0 .. up'[c].read - D - 1 : conn'[c].receivebuffer[k] = D + k
    BY <2>1, <2>3, <2>5
  <2>11. /\ Busy(c)' => at' # "size" /\ size' = S
         /\ Busy(c)' /\ at' = "rest" => conn'[c].count >= SIZE_FIELD
    BY <2>5, <2>6 DEF Busy
  <2> QED BY <1>0, <2>2, <2>4, <2>7, <2>8, <2>9, <2>10, <2>11 DEF Echo, D, S
<1>16. Echoes'
  BY <1>0, <1>5, <1>6, <1>8, <1>9, <1>15, OthersEcho
<1> QED BY <1>9, <1>11, <1>12, <1>13, <1>14, <1>16
---------------------------------------------------------------------------------
(* The size field of an Intact client is there at once.                    *)
LEMMA RecvSizeStep ==
  ASSUME IInv, RecvSize, UNCHANGED pc
  PROVE  IInv'
<1> USE DEF IInv
<1>0. /\ at = "size" /\ current \in todo /\ current \in Client
      /\ UNCHANGED <<config, down, got, ended, backlog, list, count, todo, current, pc>>
  BY TodoFacts DEF RecvSize, Types
<1>1. PICK c \in todo : c = current
  BY <1>0
<1>2. PICK n \in Int : n = Received(c, BUFFER_LEN - conn[c].count) /\ (n > 0 => n <= Waiting(c))
  <2>1. BUFFER_LEN - conn[c].count \in Int /\ c \in Client
    BY TodoFacts, NodeFacts, ServerAssumption
  <2> QED BY <2>1, ReceivedFacts
<1>3. PICK x : x = Counted(c, n)
  OBVIOUS
<1>4. PICK b : b = Filled(c, conn[c].count, n)
  OBVIOUS
<1>5. /\ Read(c, n)
      /\ conn' = [conn EXCEPT ![c] = [count |-> x, receivebuffer |-> b]]
      /\ \/ UNCHANGED <<at, size>>
         \/ at' = "rest" /\ size' = SizeIn(c, b)
  BY <1>1, <1>2, <1>3, <1>4 DEF RecvSize
<1>6. c \in Client
  BY TodoFacts
<1>7. [count |-> x, receivebuffer |-> b] \in Node
  <2>1. conn[c].count + n \in Int /\ conn[c].count \in Int
    BY <1>6, NodeFacts
  <2>2. x \in Ints
    BY <1>3, <2>1, WordInts DEF Counted
  <2> QED BY <1>4, <1>6, <2>1, <2>2, FilledNode
<1>8. conn' \in [Client -> Node] /\ \A d \in Client : d # c => conn'[d] = conn[d]
  BY <1>5, <1>6, <1>7 DEF Types
<1>9. /\ up' \in [Client -> [sent : Nat, arrived : Nat, read : Nat]]
      /\ \A d \in Client : d # c => up'[d] = up[d]
      /\ Streams'
  <2>1. Read(c, n) /\ (n > 0 => n <= Waiting(c)) /\ UNCHANGED <<config, down, got, ended, backlog, pc>>
    BY <1>0, <1>2, <1>5
  <2> QED BY <2>1, ReadStep
<1>10. at' \in {"size", "rest"} /\ size' \in {size, NoSize, config.size[c]}
  BY <1>0, <1>5, <1>6, SizeInFacts
<1>11. Types'
  <2>1. size' \in {0, NoSize} \cup {config'.size[d] : d \in Client}
    BY <1>0, <1>6, <1>10 DEF Types
  <2>2. at' \in {"scan", "size", "rest", "send"} /\ current' \in todo'
    BY <1>0, <1>10
  <2> QED BY <1>0, <1>8, <1>9, <2>1, <2>2 DEF Types
<1>12. Queues' /\ Shared'
  BY <1>0, SharedStays DEF Queues
<1>13. Ready'
  <2>1. \A d \in todo : d # c => up'[d] = up[d]
    BY <1>9, TodoFacts
  <2>2. Busy(c)'
    BY <1>0, <1>1, <1>10 DEF Busy
  <2>3. todo' \subseteq todo /\ ended' = ended /\ current = c
    BY <1>0, <1>1
  <2> QED BY <2>1, <2>2, <2>3, OthersReady
<1>14. ~Intact(c)
  BY <1>0, <1>1, <1>6 DEF Echoes, Echo, Busy
<1>15. Echoes'
  BY <1>0, <1>1, <1>6, <1>8, <1>9, <1>14, OthersEcho
<1> QED BY <1>9, <1>11, <1>12, <1>13, <1>15

(* Of an Intact client the loop for the rest of a message reads nothing.   *)
LEMMA RestReadsNothing ==
  ASSUME IInv, at = "rest", size # count, NEW c \in todo, c = current, Intact(c)
  PROVE  Waiting(c) = 0 /\ ~AllAlike
<1> USE DEF IInv
<1>1. c \in Client /\ Busy(c) /\ Echo(c)
  BY TodoFacts DEF Echoes, Busy
<1>2. size = config.size[c]
  BY <1>1 DEF Echo
<1>3. ~AllAlike
  BY <1>1, <1>2 DEF Shared, AllAlike
<1>4. config.least[c] = config.size[c]
  BY <1>1, <1>3, IntactFacts
<1>5. Base(c) = Len(down[c]) /\ conn[c].count >= SIZE_FIELD
  BY <1>1 DEF Base, Echo
<1>6. up[c].read > Base(c)
  BY <1>1, <1>5, NodeFacts, ServerAssumption DEF Echo
<1>7. up[c].read >= Base(c) + config.size[c]
  BY <1>1, <1>4, <1>6, NodeFacts DEF Echo, Piece
<1>8. up[c].read = up[c].arrived
  BY <1>1, <1>7, EchoOrder, NodeFacts, ConfigFacts
<1> QED BY <1>1, <1>3, <1>8, NodeFacts DEF Waiting

LEMMA RecvRestStep ==
  ASSUME IInv, RecvRest, UNCHANGED pc
  PROVE  IInv'
<1> USE DEF IInv
<1>0. /\ at = "rest" /\ size # count /\ current \in todo /\ current \in Client
      /\ UNCHANGED <<config, down, got, ended, backlog, list, todo, current, at, size, pc>>
  BY TodoFacts DEF RecvRest, Types
<1>1. PICK c \in todo : c = current
  BY <1>0
<1>2. PICK n \in Int : /\ n = Received(c, BUFFER_LEN - count) /\ (n > 0 => n <= Waiting(c))
                       /\ Waiting(c) = 0 => n \in {0, -1}
  <2>1. BUFFER_LEN - count \in Int /\ c \in Client
    BY TodoFacts, ServerAssumption DEF Types, Ints
  <2> QED BY <2>1, ReceivedFacts
<1>3. PICK b : b = Filled(c, count, n)
  OBVIOUS
<1>5. /\ Read(c, n) /\ count' = Word(count + n)
      /\ conn' = [conn EXCEPT ![c].receivebuffer = b]
  BY <1>1, <1>2, <1>3 DEF RecvRest
<1>6. c \in Client /\ count \in Int
  BY TodoFacts, ServerAssumption DEF Types, Ints
<1>7. [conn[c] EXCEPT !.receivebuffer = b] \in Node /\ count' \in Ints
  <2>1. count + n \in Int
    BY <1>6
  <2>2. count' \in Ints
    BY <1>5, <2>1, WordInts
  <2> QED BY <1>3, <1>6, <2>2, FilledNode
<1>8. /\ conn' \in [Client -> Node] /\ \A d \in Client : d # c => conn'[d] = conn[d]
      /\ conn'[c] = [conn[c] EXCEPT !.receivebuffer = b]
  BY <1>5, <1>6, <1>7 DEF Types
<1>9. /\ up' \in [Client -> [sent : Nat, arrived : Nat, read : Nat]]
      /\ \A d \in Client : d # c => up'[d] = up[d]
      /\ up'[c].sent = up[c].sent /\ up'[c].arrived = up[c].arrived
      /\ up'[c].read = up[c].read + (IF n > 0 THEN n ELSE 0)
      /\ Streams'
  <2>1. Read(c, n) /\ (n > 0 => n <= Waiting(c)) /\ UNCHANGED <<config, down, got, ended, backlog, pc>>
    BY <1>0, <1>2, <1>5
  <2> QED BY <2>1, ReadStep
<1>10. Types'
  BY <1>0, <1>7, <1>8, <1>9 DEF Types
<1>11. Queues'
  BY <1>0 DEF Queues
<1>12. Ready'
  <2>1. \A d \in todo : d # c => up'[d] = up[d]
    BY <1>9, TodoFacts
  <2>2. Busy(c)'
    BY <1>0, <1>1 DEF Busy
  <2>3. todo' \subseteq todo /\ ended' = ended /\ current = c
    BY <1>0, <1>1
  <2> QED BY <2>1, <2>2, <2>3, OthersReady
<1>13. ASSUME Intact(c) PROVE Waiting(c) = 0 /\ ~AllAlike
  BY <1>0, <1>1, <1>13, RestReadsNothing
<1>14. Shared'
  <2>1. AllAlike => Intact(c)
    BY DEF AllAlike, Intact
  <2> QED BY <1>0, <1>13, <2>1 DEF Shared, AllAlike, Prompt, Fits
<1>15. ASSUME Intact(c) PROVE Echo(c)'
  <2>1. n <= 0 /\ n \in {0, -1}
    BY <1>2, <1>13, <1>15
  <2>2. up'[c] = up[c]
    <3>1. up'[c].read = up[c].read
      BY <1>6, <1>9, <2>1, NodeFacts
    <3>2. /\ up[c] \in [sent : Nat, arrived : Nat, read : Nat]
          /\ up'[c] \in [sent : Nat, arrived : Nat, read : Nat]
      BY <1>6, <1>9 DEF Types
    <3> QED BY <1>9, <3>1, <3>2
  <2>3. conn'[c].count = conn[c].count /\ conn'[c].receivebuffer = b
    <3>1. conn[c] \in Node
      BY <1>6, NodeFacts
    <3> QED BY <1>8, <3>1 DEF Node
  <2>4. Echo(c) /\ Base(c)' = Base(c)
    BY <1>0, <1>6, <1>15, <2>2, <2>3 DEF Echoes, Base
  <2>5. ASSUME NEW k \in 0 .. up[c].read - Base(c) - 1
        PROVE  b[k] = conn[c].receivebuffer[k]
    <3>1. /\ up[c].read \in Nat /\ Base(c) \in Nat /\ up[c].read <= Base(c) + config.size[c]
          /\ config.size[c] \in Nat /\ config.size[c] <= BUFFER_LEN /\ BUFFER_LEN \in Nat
      <4>1. /\ up[c].read <= up[c].arrived /\ up[c].arrived <= up[c].sent
            /\ up[c].sent <= Base(c) + config.size[c] /\ Base(c) \in Nat
        BY <1>6, <2>4, EchoOrder
      <4>2. /\ up[c].read \in Nat /\ up[c].arrived \in Nat /\ up[c].sent \in Nat
            /\ config.size[c] \in Nat /\ config.size[c] <= BUFFER_LEN /\ BUFFER_LEN \in Nat
        BY <1>6, NodeFacts, ConfigFacts, ServerAssumption
      <4> QED BY <4>1, <4>2
    <3>2. k \in 0 .. BUFFER_LEN - 1 /\ k \in Int
      BY <3>1
    <3>3. ~(count <= k /\ k < count + n)
      BY <1>6, <2>1, <3>2
    <3> QED BY <1>3, <3>2, <3>3 DEF Filled
  <2>6. \A k \in 0 .. up[c].read - Base(c) - 1 : b[k] = Base(c) + k
    BY <2>4, <2>5 DEF Echo
  <2>7. Busy(c)' <=> Busy(c)
    BY <1>0 DEF Busy
  <2> QED BY <1>0, <2>2, <2>3, <2>4, <2>6, <2>7 DEF Echo, Piece
<1>16. Echoes'
  BY <1>0, <1>1, <1>6, <1>8, <1>9, <1>15, OthersEcho
<1> QED BY <1>9, <1>10, <1>11, <1>12, <1>14, <1>16

LEMMA DecideStep ==
  ASSUME IInv, Decide, UNCHANGED pc
  PROVE  IInv'
<1> USE DEF IInv
<1>0. /\ at = "rest" /\ current \in todo
      /\ UNCHANGED <<config, up, down, got, ended, backlog, list, conn, count, current, size, pc>>
      /\ \/ conn[current].count = size /\ at' = "send" /\ todo' = todo
         \/ todo' = todo \ {current} /\ at' = "scan"
  BY DEF Decide, Handled, Types
<1>1. PICK c \in todo : c = current
  BY <1>0
<1>2. c \in Client
  BY TodoFacts
<1>3. Types' /\ Queues' /\ Streams' /\ Shared'
  BY <1>0, SharedStays DEF Types, Queues, Streams, Room
<1>4. Ready'
  <2>1. c \in todo' => Busy(c)'
    BY <1>0, <1>1 DEF Busy
  <2>2. todo' \subseteq todo /\ ended' = ended /\ up' = up
    BY <1>0
  <2> QED BY <1>1, <2>1, <2>2, OthersReady
<1>5. ASSUME Intact(c) PROVE Echo(c)'
  <2>1. Echo(c) /\ Base(c) = Len(down[c]) /\ size = config.size[c]
    BY <1>0, <1>1, <1>2, <1>5 DEF Echoes, Echo, Base, Busy
  <2>2. Base(c)' = Base(c)
    <3>1. CASE at' = "scan"
      BY <1>0, <2>1, <3>1 DEF Base
    <3>2. CASE conn[c].count = size /\ at' = "send"
      <4>1. up[c].read - config.size[c] = Len(down[c])
        BY <1>2, <2>1, <3>2, NodeFacts, ConfigFacts DEF Echo
      <4> QED BY <1>0, <2>1, <4>1 DEF Base
    <3> QED BY <1>0, <1>1, <3>1, <3>2
  <2>3. at' \in {"scan", "send"}
    BY <1>0
  <2> QED BY <1>0, <2>1, <2>2, <2>3 DEF Echo, Piece, Busy
<1>6. Echoes'
  BY <1>0, <1>1, <1>2, <1>5, OthersEcho
<1> QED BY <1>3, <1>4, <1>6

LEMMA SentStep ==
  ASSUME IInv, Sent, UNCHANGED pc
  PROVE  IInv'
<1> USE DEF IInv
<1>0. /\ at = "send" /\ current \in todo /\ conn[current].count = 0
      /\ UNCHANGED <<config, up, down, got, ended, backlog, list, conn, count, current, size, pc>>
      /\ todo' = todo \ {current} /\ at' = "scan"
  BY DEF Sent, Handled, Types
<1>1. PICK c \in todo : c = current
  BY <1>0
<1>2. c \in Client
  BY TodoFacts
<1>3. Types' /\ Queues' /\ Streams' /\ Shared'
  BY <1>0, SharedStays DEF Types, Queues, Streams, Room
<1>4. Ready'
  <2>1. c \notin todo' /\ todo' \subseteq todo /\ ended' = ended /\ up' = up
    BY <1>0, <1>1
  <2> QED BY <1>1, <2>1, OthersReady
<1>5. ASSUME Intact(c) PROVE Echo(c)'
  <2>1. Echo(c) /\ Base(c) = Len(down[c])
    BY <1>0, <1>1, <1>2, <1>5 DEF Echoes, Base
  <2>2. Base(c)' = Base(c)
    BY <1>0, <2>1 DEF Base
  <2> QED BY <1>0, <2>1, <2>2 DEF Echo, Piece, Busy
<1>6. Echoes'
  BY <1>0, <1>1, <1>2, <1>5, OthersEcho
<1> QED BY <1>3, <1>4, <1>6
---------------------------------------------------------------------------------
LEMMA AppendedBytes ==
  ASSUME NEW s \in Seq(Int), NEW n \in Int, n >= -1, NEW e \in [1 .. n -> Int]
  PROVE  /\ s \o e \in Seq(Int) /\ Len(s \o e) = Len(s) + (IF n > 0 THEN n ELSE 0)
         /\ \A j \in 1 .. Len(s) : (s \o e)[j] = s[j]
         /\ \A j \in 1 .. n : (s \o e)[Len(s) + j] = e[j]
<1> DEFINE m == IF n > 0 THEN n ELSE 0
<1>1. m \in Nat /\ 1 .. n = 1 .. m
  OBVIOUS
<1> HIDE DEF m
<1>2. e \in [1 .. m -> Int]
  BY <1>1
<1>3. e \in Seq(Int) /\ Len(e) = m
  BY <1>1, <1>2
<1>4. s \o e \in Seq(Int) /\ Len(s \o e) = Len(s) + m
  BY <1>3
<1>5. \A j \in 1 .. Len(s) : (s \o e)[j] = s[j]
  BY <1>3
<1>6. ASSUME NEW j \in 1 .. m PROVE (s \o e)[Len(s) + j] = e[j]
  BY <1>1, <1>3
<1> QED BY <1>1, <1>4, <1>5, <1>6 DEF m

(* The pong of an Intact client has room, and is sent from where the last  *)
(* call of send has stopped.                                               *)
LEMMA SendIntact ==
  ASSUME IInv, at = "send", NEW c \in todo, c = current, conn[c].count # 0, Intact(c)
  PROVE  /\ size = config.size[c] /\ conn[c].count \in 1 .. config.size[c]
         /\ Base(c) = up[c].read - config.size[c]
         /\ up[c].arrived = up[c].read /\ up[c].sent = up[c].read
         /\ Len(down[c]) = up[c].read - conn[c].count
         /\ Room(c) \in Nat \ {0}
<1> USE DEF IInv
<1> DEFINE S == config.size[c]
           r == up[c].read
           x == conn[c].count
           D == Len(down[c])
<1>1. c \in Client /\ Busy(c) /\ Echo(c)
  BY TodoFacts DEF Echoes, Busy
<1>2. /\ r \in Nat /\ up[c].arrived \in Nat /\ up[c].sent \in Nat /\ D \in Nat /\ got[c] \in Nat
      /\ S \in Nat \ {0} /\ config.room \in Nat
  BY <1>1, NodeFacts, ConfigFacts
<1>3. x \in Nat /\ x > 0 /\ x = r - D /\ size = S
  BY <1>1 DEF Echo
<1>4. Base(c) = r - S
  BY <1>3 DEF Base
<1>5. /\ Base(c) <= D /\ r <= up[c].arrived /\ up[c].arrived <= up[c].sent
      /\ up[c].sent <= Base(c) + S
  BY <1>1, EchoOrder
<1>6. got[c] <= D /\ up[c].sent <= got[c] + S /\ Room(c) = config.room - (D - got[c])
  BY <1>1 DEF Streams, Room
<1>7. S <= config.room
  BY <1>1, IntactFacts DEF Fits
<1>8. up[c].arrived = r /\ up[c].sent = r
  BY <1>2, <1>4, <1>5
<1>9. x \in 1 .. S /\ D = r - x
  BY <1>2, <1>3, <1>4, <1>5
<1>10. Room(c) \in Nat \ {0}
  <2> HIDE DEF S, r, x, D
  <2>1. config.room - (D - got[c]) >= 1
    BY <1>2, <1>3, <1>6, <1>7, <1>8, <1>9
  <2> QED BY <1>2, <1>6, <2>1
<1> QED BY <1>3, <1>4, <1>8, <1>9, <1>10

LEMMA SendStep ==
  ASSUME IInv, Send, UNCHANGED pc
  PROVE  IInv'
<1> USE DEF IInv
<1>0. /\ at = "send" /\ current \in todo /\ conn[current].count # 0
      /\ UNCHANGED <<config, up, got, ended, backlog, list, count, todo, current, at, size, pc>>
  BY DEF Send, Types
<1>1. PICK c \in todo : c = current
  BY <1>0
<1>2. c \in Client /\ conn[c].count # 0
  BY <1>0, <1>1, TodoFacts
<1> DEFINE x == conn[c].count
           D == Len(down[c])
           byte(k) == IF k \in 0 .. BUFFER_LEN - 1 THEN conn[c].receivebuffer[k] ELSE NoByte
<1>3. PICK n : n = IF Room(c) = 0 THEN -1 ELSE IF x < 0 THEN Room(c) ELSE Least(Room(c), x)
  OBVIOUS
<1>4. PICK e : e = [k \in 1 .. n |-> byte(size - x + k - 1)]
  OBVIOUS
<1>5. /\ down' = [down EXCEPT ![c] = @ \o e]
      /\ conn' = [conn EXCEPT ![c].count = Word(@ - n)]
  BY <1>1, <1>3, <1>4 DEF Send
<1>6. /\ x \in Int /\ D \in Nat /\ got[c] \in Nat /\ Room(c) \in Nat /\ down[c] \in Seq(Int)
      /\ size \in Int /\ conn[c].receivebuffer \in [0 .. BUFFER_LEN - 1 -> Int] /\ conn[c] \in Node
  <2>1. /\ x \in Int /\ D \in Nat /\ got[c] \in Nat /\ down[c] \in Seq(Int) /\ conn[c] \in Node
    BY <1>2, NodeFacts
  <2>2. Room(c) \in Nat
    <3>1. config.room \in Nat
      BY <1>2, ConfigFacts
    <3> QED BY <1>2, <2>1, <3>1 DEF Streams, Room
  <2>3. size \in Int
    <3>1. \A d \in Client : config.size[d] \in Int
      BY ConfigFacts
    <3> QED BY <3>1, ServerAssumption DEF Types
  <2> QED BY <2>1, <2>2, <2>3 DEF Node
<1>7. n \in Int /\ n >= -1 /\ n <= Room(c) /\ (x > 0 /\ Room(c) > 0 => n \in 1 .. x)
  BY <1>2, <1>3, <1>6 DEF Least
<1>8. e \in [1 .. n -> Int]
  <2>1. ASSUME NEW k \in Int PROVE byte(k) \in Int
    <3>1. CASE k \in 0 .. BUFFER_LEN - 1
      <4>1. conn[c].receivebuffer[k] \in Int
        BY <1>6, <3>1
      <4> QED BY <3>1, <4>1
    <3>2. CASE k \notin 0 .. BUFFER_LEN - 1
      BY <3>2 DEF NoByte
    <3> QED BY <3>1, <3>2
  <2> HIDE DEF byte
  <2>2. \A k \in 1 .. n : size - x + k - 1 \in Int
    BY <1>6, <1>7
  <2> HIDE DEF x
  <2> QED BY <1>4, <2>1, <2>2
<1>9. /\ down' \in [Client -> Seq(Int)] /\ \A d \in Client : d # c => down'[d] = down[d]
      /\ Len(down'[c]) = D + (IF n > 0 THEN n ELSE 0)
      /\ \A j \in 1 .. D : down'[c][j] = down[c][j]
      /\ \A j \in 1 .. n : down'[c][D + j] = e[j]
  <2>1. down'[c] = down[c] \o e /\ \A d \in Client : d # c => down'[d] = down[d]
    BY <1>2, <1>5 DEF Types
  <2>2. /\ down[c] \o e \in Seq(Int) /\ Len(down[c] \o e) = Len(down[c]) + (IF n > 0 THEN n ELSE 0)
        /\ \A j \in 1 .. Len(down[c]) : (down[c] \o e)[j] = down[c][j]
        /\ \A j \in 1 .. n : (down[c] \o e)[Len(down[c]) + j] = e[j]
    BY <1>6, <1>7, <1>8, AppendedBytes
  <2>3. down' \in [Client -> Seq(Int)]
    BY <1>5, <2>2 DEF Types
  <2> QED BY <2>1, <2>2, <2>3
<1>10. /\ conn' \in [Client -> Node] /\ \A d \in Client : d # c => conn'[d] = conn[d]
       /\ conn'[c].count = Word(x - n) /\ conn'[c].receivebuffer = conn[c].receivebuffer
  <2>1. Word(x - n) \in Ints
    BY <1>6, <1>7, WordInts
  <2>2. conn' = [conn EXCEPT ![c] = [conn[c] EXCEPT !.count = Word(x - n)]]
    BY <1>2, <1>5 DEF Types
  <2> DEFINE r == conn[c]
             w == Word(x - n)
  <2> HIDE DEF r, w
  <2>3. r \in Node /\ w \in Ints
    BY <1>6, <2>1 DEF r, w
  <2>4. /\ [r EXCEPT !.count = w] \in Node
        /\ [r EXCEPT !.count = w].count = w
        /\ [r EXCEPT !.count = w].receivebuffer = r.receivebuffer
    BY <2>3 DEF Node
  <2>5. [conn[c] EXCEPT !.count = Word(x - n)] = [r EXCEPT !.count = w]
    BY DEF r, w
  <2>6. conn'[c] = [r EXCEPT !.count = w]
    BY <1>2, <2>2, <2>5 DEF Types
  <2>7. conn' \in [Client -> Node] /\ \A d \in Client : d # c => conn'[d] = conn[d]
    BY <2>2, <2>4, <2>5 DEF Types
  <2> QED BY <2>4, <2>6, <2>7 DEF r, w
<1>11. Types'
  BY <1>0, <1>9, <1>10 DEF Types
<1>12. Queues' /\ Shared'
  BY <1>0, SharedStays DEF Queues
<1>13. Streams'
  <2> SUFFICES ASSUME NEW d \in Client
               PROVE  /\ got[d] <= Len(down'[d]) /\ config.room - (Len(down'[d]) - got[d]) >= 0
                      /\ pc[d] = "connect" \/ d \in Range(backlog) => down'[d] = <<>>
    BY <1>0 DEF Streams, Room
  <2>1. CASE d # c
    BY <1>9, <2>1 DEF Streams, Room
  <2>2. CASE d = c
    <3>1. c \notin Range(backlog) /\ pc[c] # "connect"
      BY TodoFacts
    <3>2. got[c] <= D /\ Room(c) = config.room - (D - got[c]) /\ config.room \in Nat
      BY <1>2, ConfigFacts DEF Streams, Room
    <3> HIDE DEF D
    <3> QED BY <1>6, <1>7, <1>9, <2>2, <3>1, <3>2, SMTT(30)
  <2> QED BY <2>1, <2>2
<1>14. Ready'
  <2>1. Busy(c)'
    BY <1>0, <1>1 DEF Busy
  <2>2. todo' = todo /\ ended' = ended /\ up' = up
    BY <1>0
  <2> QED BY <1>1, <2>1, <2>2, OthersReady
<1>15. ASSUME Intact(c) PROVE Echo(c)'
  <2> DEFINE S == config.size[c]
             r == up[c].read
             b == r - S
  <2>1. /\ size = S /\ x \in 1 .. S /\ Base(c) = b /\ up[c].arrived = r /\ up[c].sent = r
        /\ D = r - x /\ Room(c) \in Nat \ {0}
    BY <1>0, <1>1, <1>2, <1>15, SendIntact
  <2>2. Echo(c)
    BY <1>2, <1>15 DEF Echoes
  <2>3. /\ r \in Nat /\ S \in Nat \ {0} /\ b \in Nat /\ b % S = 0
        /\ S <= BUFFER_LEN /\ BUFFER_LEN \in Nat
    BY <1>2, <2>1, <2>2, NodeFacts, ConfigFacts, ServerAssumption DEF Echo
  <2>4. n \in 1 .. x
    BY <1>6, <1>7, <2>1
  <2>5. conn'[c].count = x - n
    <3>1. x - n \in Ints
      <4> HIDE DEF x, S
      <4> QED BY <1>7, <2>1, <2>3, <2>4, ServerAssumption DEF Ints
    <3> QED BY <1>10, <3>1, WordSame
  <2>6. Len(down'[c]) = D + n /\ x - n = r - (D + n)
    <3> HIDE DEF x, D, r, S
    <3> QED BY <1>6, <1>9, <2>1, <2>3, <2>4
  <2>7. ASSUME NEW j \in 1 .. n PROVE e[j] = D + j - 1
    <3> DEFINE k == S - x + j - 1
    <3>1. k \in 0 .. r - b - 1 /\ k \in 0 .. BUFFER_LEN - 1 /\ b + k = D + j - 1
      <4> HIDE DEF x, D, S, r
      <4> QED BY <1>6, <2>1, <2>3, <2>4
    <3>2. conn[c].receivebuffer[k] = b + k
      BY <2>1, <2>2, <3>1 DEF Echo
    <3>3. e[j] = byte(k)
      BY <1>4, <2>1
    <3> HIDE DEF k
    <3>4. byte(k) = conn[c].receivebuffer[k]
      BY <3>1
    <3> QED BY <3>1, <3>2, <3>3, <3>4
  <2>8. ASSUME NEW k \in 1 .. Len(down'[c]) PROVE down'[c][k] = k - 1
    <3>1. CASE k <= D
      <4>1. k \in 1 .. D
        BY <1>6, <3>1
      <4>2. down'[c][k] = down[c][k] /\ down[c][k] = k - 1
        BY <1>9, <2>2, <4>1 DEF Echo
      <4> QED BY <4>2
    <3>2. CASE k > D
      <4>1. PICK j \in 1 .. n : k = D + j
        <5> HIDE DEF D
        <5>1. k - D \in 1 .. n /\ D + (k - D) = k
          BY <1>6, <1>7, <2>6, <3>2
        <5> QED BY <5>1
      <4>2. down'[c][k] = e[j] /\ e[j] = D + j - 1
        BY <1>9, <2>7, <4>1
      <4> QED BY <4>1, <4>2
    <3> QED BY <1>6, <2>6, <3>1, <3>2
  <2>9. Base(c)' = IF x - n > 0 THEN b ELSE D + n
    BY <1>0, <1>1, <2>5, <2>6 DEF Base
  <2>10. \/ x - n > 0 /\ Base(c)' = b
         \/ Base(c)' = r /\ D + n = r
    <3> HIDE DEF x, D, S, r, b
    <3> QED BY <1>6, <1>7, <2>1, <2>3, <2>4, <2>6, <2>9
  <2>11. /\ Base(c)' \in Nat /\ Base(c)' % S = 0 /\ Base(c)' <= D + n
         /\ r <= Base(c)' + S
    <3>1. r = b + S /\ r % S = 0
      <4>1. (b + S) % S = 0
        <5> HIDE DEF b, S
        <5> QED BY <2>3, ModNext
      <4> QED BY <2>3, <4>1
    <3>2. b <= D + n
      <4> HIDE DEF x, D, S, r
      <4> QED BY <1>6, <2>1, <2>3, <2>4
    <3>3. CASE Base(c)' = b
      BY <2>3, <3>1, <3>2, <3>3
    <3>4. CASE Base(c)' = r /\ D + n = r
      <4> HIDE DEF D, S, r, b
      <4> QED BY <1>6, <1>7, <2>3, <3>1, <3>4
    <3> QED BY <2>10, <3>3, <3>4
  <2>12. Piece(c, up[c].read)' /\ Piece(c, up[c].arrived)' /\ Piece(c, up[c].sent)'
    <3>1. Piece(c, up[c].read)'
      <4>1. CASE Base(c)' = r
        BY <1>0, <4>1 DEF Piece
      <4>2. CASE Base(c)' = b
        <5>1. r >= b + config.least[c]
          BY <1>2, <2>3, ConfigFacts
        <5> QED BY <1>0, <4>2, <5>1 DEF Piece
      <4> QED BY <2>10, <4>1, <4>2
    <3> QED BY <1>0, <2>1, <3>1
  <2>13. \A k \in 0 .. r - Base(c)' - 1 : conn'[c].receivebuffer[k] = Base(c)' + k
    <3>1. CASE Base(c)' = r
      BY <2>3, <3>1
    <3>2. CASE Base(c)' = b
      BY <1>10, <2>1, <2>2, <3>2 DEF Echo
    <3> QED BY <2>10, <3>1, <3>2
  <2>14. x - n \in Nat
    BY <1>6, <1>7, <2>4
  <2> HIDE DEF b, r, D, x
  <2> QED BY <1>0, <2>1, <2>5, <2>6, <2>8, <2>11, <2>12, <2>13, <2>14 DEF Echo, Busy, r
<1>16. Echoes'
  BY <1>0, <1>1, <1>2, <1>9, <1>10, <1>15, OthersEcho
<1> QED BY <1>11, <1>12, <1>13, <1>14, <1>16
---------------------------------------------------------------------------------
LEMMA StutterStep == ASSUME IInv, UNCHANGED vars PROVE IInv'
<1> USE DEF vars, server
<1>1. Types' /\ Queues' /\ Streams'
  BY DEF IInv, Types, Queues, Streams, Room
<1>2. Ready' /\ Shared'
  BY DEF IInv, Ready, Shared, Busy, Waiting, Eof, AllAlike, Prompt, Fits
<1>3. Echoes'
  BY DEF IInv, Echoes, Intact, Echo, Base, Piece, Busy, Prompt, Fits
<1> QED BY <1>1, <1>2, <1>3 DEF IInv

LEMMA NextStep == ASSUME IInv, [Next]_vars PROVE IInv'
<1>1. CASE ServerNext /\ UNCHANGED pc
  BY <1>1, SelectStep, RecvStep, RecvSizeStep, RecvRestStep, DecideStep, SendStep, SentStep
     DEF ServerNext
<1>2. ASSUME NEW c \in Client, ClientNext(c) PROVE IInv'
  BY <1>2, ConnectStep, PingStep, PongStep DEF ClientNext
<1>3. ASSUME NEW c \in Client, Kill(c) \/ Arrive(c) PROVE IInv'
  BY <1>3, KillStep, ArriveStep
<1>4. CASE UNCHANGED vars
  BY <1>4, StutterStep
<1> QED BY <1>1, <1>2, <1>3, <1>4 DEF Next

(* The inductive invariant holds, whatever clients and server do.          *)
THEOREM Invariance == Spec => []IInv
<1>1. Init => IInv
  BY InitInv
<1>2. IInv /\ [Next]_vars => IInv'
  BY NextStep
<1> QED BY <1>1, <1>2, PTL DEF Spec

(* Counts stay machine integers, the loops of main always have a           *)
(* connection, and the linked list holds each connection once.             *)
THEOREM TypeCorrect == Spec => []TypeOK
<1>1. IInv => TypeOK
  <2> SUFFICES ASSUME IInv PROVE TypeOK
    OBVIOUS
  <2> USE DEF IInv
  <2>1. ASSUME NEW c \in Client
        PROVE  /\ up[c].read <= up[c].arrived /\ up[c].arrived <= up[c].sent
               /\ conn[c].count \in Ints /\ got[c] \in 0 .. Len(down[c])
    <3>1. conn[c].count \in Ints /\ got[c] \in Nat /\ Len(down[c]) \in Nat
      BY NodeFacts DEF Node
    <3> QED BY <3>1 DEF Streams
  <2> QED BY <2>1 DEF TypeOK, Types, Queues
<1> QED BY <1>1, Invariance, PTL

(* What an Intact client gets back is what it sent, from the first byte    *)
(* on, and no more of it than has arrived at the server.                   *)
THEOREM EchoesAlwaysWhole == Spec => []EchoesWhole
<1>1. IInv => EchoesWhole
  <2> SUFFICES ASSUME IInv, NEW c \in Client, Intact(c)
               PROVE  /\ Len(down[c]) <= up[c].arrived
                      /\ \A k \in 1 .. Len(down[c]) : down[c][k] = k - 1
    BY DEF EchoesWhole
  <2>1. Types /\ Streams /\ Echo(c)
    BY DEF IInv, Echoes
  <2>2. Len(down[c]) <= up[c].arrived
    BY <2>1, EchoOrder, NodeFacts
  <2> QED BY <2>1, <2>2 DEF Echo
<1> QED BY <1>1, Invariance, PTL

LEMMA DumpsOnlyEnded ==
  ASSUME IInv, Recv, NEW c \in Range(list) \ Range(list'), Intact(c)
  PROVE  c \in ended
<1> USE DEF IInv
<1>0. at = "scan"
  BY DEF Recv
<1>1. PICK d \in todo :
        LET x == Counted(d, Received(d, BUFFER_LEN))
        IN  (x <= 0 /\ list' = dump(d)) \/ list' = list
  BY DEF Recv
<1>2. d = c /\ Counted(d, Received(d, BUFFER_LEN)) <= 0
  BY <1>1, DumpStep
<1> QED BY <1>0, <1>2, RecvIntact

(* The server closes the connection of an Intact client only after that    *)
(* client has ended.                                                       *)
THEOREM DropsOnlyTheEnded == Spec => DropsOnlyEnded
<1>1. IInv /\ [Next]_vars =>
        [\A c \in Range(list) \ Range(list') : Intact(c) => c \in ended]_vars
  <2> SUFFICES ASSUME IInv, Next, NEW c \in Range(list) \ Range(list'), Intact(c)
               PROVE  c \in ended
    OBVIOUS
  <2>1. CASE Recv
    BY <2>1, DumpsOnlyEnded
  <2>2. CASE Select
    <3>1. \/ list' = list
          \/ /\ backlog # <<>> /\ list' = <<Head(backlog)>> \o list
      BY <2>2 DEF Select
    <3>2. CASE backlog # <<>> /\ list' = <<Head(backlog)>> \o list
      <4>1. /\ backlog \in Seq(Client) /\ list \in Seq(Client)
            /\ IsInjective(backlog) /\ IsInjective(list)
        BY DEF IInv, Types, Queues
      <4>2. Head(backlog) \in Client /\ Head(backlog) \in Range(backlog)
        BY <3>2, <4>1, PopOne
      <4>3. Head(backlog) \notin Range(list)
        BY <4>2 DEF IInv, Queues
      <4>4. Range(list') = Range(list) \cup {Head(backlog)}
        BY <3>2, <4>1, <4>2, <4>3, PushOne
      <4> QED BY <4>4
    <3> QED BY <3>1, <3>2
  <2>3. CASE UNCHANGED list
    BY <2>3
  <2> QED BY <2>1, <2>2, <2>3 DEF Next, ServerNext, RecvSize, RecvRest, Decide, Send, Sent,
             ClientNext, Connect, Ping, Pong, Kill, Arrive, server
<1> QED BY <1>1, Invariance, PTL DEF Spec, DropsOnlyEnded
=================================================================================
