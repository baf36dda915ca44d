------------------------------ MODULE PingServer ------------------------------
(***************************************************************************)
(* The ping-pong server of project1: one thread that selects among its     *)
(* connections, reads pings and writes them back.  A socket is named by    *)
(* the client at its other end.                                            *)
(*                                                                         *)
(* A TCP stream is what was written to it: a client's k-th byte is the     *)
(* number k, and up counts how many of them were written, have reached the *)
(* server's machine, and were read.  The messages of client c have size[c] *)
(* bytes, the first SIZE_FIELD of which say so.  Only these matter of the  *)
(* header, and what the server copies to Receive and sendbuffer is never   *)
(* sent.                                                                   *)
(***************************************************************************)
EXTENDS Integers, Sequences, SequencesExt, Functions

CONSTANTS Client,
          BUFFER_LEN,   \* of every receivebuffer
          SIZE_FIELD,   \* length of the field with a message's size
          NoSize,       \* what other bytes look like in place of that field
          INT_MAX

ASSUME ServerAssumption == /\ BUFFER_LEN \in Nat \ {0} /\ SIZE_FIELD \in 1 .. BUFFER_LEN
                           /\ INT_MAX \in Nat /\ INT_MAX >= BUFFER_LEN
                           /\ NoSize \in 0 .. BUFFER_LEN

VARIABLES
  config,   \* what a run is about: the clients' message sizes and more
  up,       \* the streams to the server: bytes sent, arrived and read
  down,     \* the streams to the clients: all bytes written
  got,      \* how many of those each client has read
  ended,    \* the clients that have closed their sockets
  backlog,  \* connections to accept
  list,     \* the linked list of connections, without its dummy head
  conn,     \* their nodes: count and receivebuffer
  count,    \* the variable of main of that name
  todo,     \* the connections this round has still to handle
  current,  \* the connection it handles
  at,       \* what the server does: "scan" the list, or one of three loops
  size      \* of the message it handles

server == <<list, conn, count, todo, current, at, size>>

NoByte == -1
UncutWord(x) == x                     \* faulty variant: ints without a width
Word(x) == ((x + INT_MAX + 1) % (2 * INT_MAX + 2)) - INT_MAX - 1
Least(x, y) == IF x < y THEN x ELSE y

NewNode == [count |-> 0, receivebuffer |-> [i \in 0 .. BUFFER_LEN - 1 |-> NoByte]]

ServerInit == /\ list = <<>> /\ conn = [c \in Client |-> NewNode]
              /\ count = config.count
              /\ todo = {} /\ current = CHOOSE c \in Client : TRUE
              /\ at = "scan" /\ size = 0
-------------------------------------------------------------------------------
Waiting(c) == up[c].arrived - up[c].read
Eof(c) == c \in ended /\ up[c].arrived = up[c].sent

(* What recv on the non-blocking socket of c returns when it asks for len  *)
(* bytes; a negative len is a very large one.                              *)
Received(c, len) == IF Waiting(c) > 0 THEN IF len < 0 THEN Waiting(c) ELSE Least(Waiting(c), len)
                    ELSE IF Eof(c) THEN 0 ELSE -1

(* The buffer of c when recv has put n bytes at index i.  What falls       *)
(* outside of the buffer is not followed.                                  *)
Filled(c, i, n) ==
  [k \in 0 .. BUFFER_LEN - 1 |->
     IF i <= k /\ k < i + n THEN up[c].read + k - i ELSE conn[c].receivebuffer[k]]

RestartedCount(c, n) == n             \* faulty variant: "=" for "+="
Counted(c, n) == Word(conn[c].count + n)

Read(c, n) == up' = [up EXCEPT ![c].read = @ + (IF n > 0 THEN n ELSE 0)]

(* The size a buffer begins with: if these are the bytes of the field.     *)
SizeIn(c, buffer) ==
  IF \A k \in 0 .. SIZE_FIELD - 1 : buffer[k] >= 0 /\ buffer[k] % config.size[c] = k
  THEN config.size[c] ELSE NoSize

KeepingDump(c) == list                \* faulty variant: the node stays
dump(c) == RemoveAt(list, CHOOSE i \in DOMAIN list : list[i] = c)

(* The first connection of the list that has still to be handled.          *)
IsNext(c) == \E i \in DOMAIN list : list[i] = c /\ \A j \in 1 .. i - 1 : list[j] \notin todo

Handled(c) == todo' = todo \ {c} /\ at' = "scan"
-------------------------------------------------------------------------------
EagerSelect ==                        \* faulty variant: the new socket counts as ready
  /\ at = "scan" /\ todo = {}
  /\ LET ready == {c \in Client : Waiting(c) > 0 \/ Eof(c)}
     IN  \/ /\ backlog # <<>>
            /\ list' = <<Head(backlog)>> \o list
            /\ backlog' = Tail(backlog)
            /\ conn' = [conn EXCEPT ![Head(backlog)] = NewNode]
            /\ todo' = Range(list') \cap (ready \cup {Head(backlog)})
         \/ /\ backlog = <<>>
            /\ todo' = Range(list) \cap ready
            /\ todo' # {}
            /\ UNCHANGED <<backlog, list, conn>>
  /\ UNCHANGED <<config, up, down, got, ended, count, current, at, size>>

(* select returns because something is ready, and a connection that waits  *)
(* is accepted.  Its socket was not among those select has looked at.      *)
Select ==
  /\ at = "scan" /\ todo = {}
  /\ todo' = {c \in Range(list) : Waiting(c) > 0 \/ Eof(c)}
  /\ \/ /\ backlog # <<>>
        /\ list' = <<Head(backlog)>> \o list
        /\ backlog' = Tail(backlog)
        /\ conn' = [conn EXCEPT ![Head(backlog)] = NewNode]
     \/ /\ backlog = <<>> /\ todo' # {}
        /\ UNCHANGED <<backlog, list, conn>>
  /\ UNCHANGED <<config, up, down, got, ended, count, current, at, size>>

(* The first recv, after which the connection is closed, the size field    *)
(* is waited for, or the rest of the message.                              *)
Recv ==
  /\ at = "scan"
  /\ \E c \in todo :
     LET n == Received(c, BUFFER_LEN)
         node == [count |-> Counted(c, n),
                  receivebuffer |-> Filled(c, conn[c].count, n)]
     IN  /\ IsNext(c) /\ current' = c
         /\ Read(c, n)
         /\ conn' = [conn EXCEPT ![c] = node]
         /\ \/ /\ node.count <= 0
               /\ list' = dump(c)
               /\ Handled(c)
               /\ UNCHANGED size
            \/ /\ node.count \in 1 .. SIZE_FIELD - 1
               /\ at' = "size"
               /\ UNCHANGED <<list, todo, size>>
            \/ /\ node.count >= SIZE_FIELD
               /\ at' = "rest" /\ size' = SizeIn(c, node.receivebuffer)
               /\ UNCHANGED <<list, todo>>
  /\ UNCHANGED <<config, down, got, ended, backlog, count>>

(* One turn of the loop "while (current->count < 2)".                      *)
RecvSize ==
  /\ at = "size"
  /\ LET c == current
         n == Received(c, BUFFER_LEN - conn[c].count)
         node == [count |-> Counted(c, n),
                  receivebuffer |-> Filled(c, conn[c].count, n)]
     IN  /\ Read(c, n)
         /\ conn' = [conn EXCEPT ![c] = node]
         /\ \/ node.count < SIZE_FIELD /\ UNCHANGED <<at, size>>
            \/ /\ node.count >= SIZE_FIELD
               /\ at' = "rest" /\ size' = SizeIn(c, node.receivebuffer)
  /\ UNCHANGED <<config, down, got, ended, backlog, list, count, todo, current>>

(* One turn of the loop "while (Receive.size != count)": count is neither  *)
(* set at the start of the program nor for a message, and it is not the    *)
(* count of the connection.                                                *)
RecvRest ==
  /\ at = "rest" /\ size # count
  /\ LET c == current
         n == Received(c, BUFFER_LEN - count)
     IN  /\ Read(c, n)
         /\ conn' = [conn EXCEPT ![c].receivebuffer = Filled(c, count, n)]
         /\ count' = Word(count + n)
  /\ UNCHANGED <<config, down, got, ended, backlog, list, todo, current, at, size>>

(* That loop is over; the message is sent back if it is there as a whole.  *)
EagerDecide ==                        \* faulty variant: whatever is there is sent
  /\ at = "rest" /\ size = count
  /\ at' = "send"
  /\ UNCHANGED <<config, up, down, got, ended, backlog, list, conn, count, todo, current, size>>

Decide ==
  /\ at = "rest" /\ size = count
  /\ \/ conn[current].count = size /\ at' = "send" /\ UNCHANGED todo
     \/ conn[current].count # size /\ Handled(current)
  /\ UNCHANGED <<config, up, down, got, ended, backlog, list, conn, count, current, size>>

(* One turn of the loop "while (current->count != 0)": send takes what the *)
(* stream has room for, or fails with -1.                                  *)
Room(c) == config.room - (Len(down[c]) - got[c])

Send ==
  /\ at = "send" /\ conn[current].count # 0
  /\ LET c == current
         n == IF Room(c) = 0 THEN -1
              ELSE IF conn[c].count < 0 THEN Room(c) ELSE Least(Room(c), conn[c].count)
         from == size - conn[c].count
         byte(k) == IF k \in 0 .. BUFFER_LEN - 1 THEN conn[c].receivebuffer[k] ELSE NoByte
     IN  /\ down' = [down EXCEPT ![c] = @ \o [k \in 1 .. n |-> byte(from + k - 1)]]
         /\ conn' = [conn EXCEPT ![c].count = Word(@ - n)]
  /\ UNCHANGED <<config, up, got, ended, backlog, list, count, todo, current, at, size>>

Sent == /\ at = "send" /\ conn[current].count = 0
        /\ Handled(current)
        /\ UNCHANGED <<config, up, down, got, ended, backlog, list, conn, count, current, size>>

ServerNext == Select \/ Recv \/ RecvSize \/ RecvRest \/ Decide \/ Send \/ Sent
===============================================================================
