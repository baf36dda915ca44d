------------------------------ MODULE StopAndWait ------------------------------
(***************************************************************************)
(* The two programs of project2, sendfile and recvfile, and the UDP        *)
(* network between them.  The network may lose, duplicate, delay and       *)
(* reorder what is in flight and may mangle what it delivers; data and     *)
(* acks are sets because a datagram in flight may arrive any number of     *)
(* times; one that is lost never gets into the set.  A datagram lives      *)
(* until the sender has moved LIFETIME blocks on.                          *)
(*                                                                         *)
(* A block of the file is one value.  A packet carries the sequence number *)
(* byte and the contents of a block; that its CRC is right, and what its   *)
(* length field shows, is said where it arrives.  The field block, the     *)
(* number of the block the datagram is about, is not on the wire: it only  *)
(* dates the datagram.                                                     *)
(***************************************************************************)
EXTENDS Integers, Sequences

CONSTANTS File,        \* the blocks of the file, in order
          NoBlock,     \* the zeroes in a packet without data
          Old,         \* what a file of the output's name held before
          SEQ_SIZE,
          LIFETIME,    \* how many blocks a datagram may lag behind
          SeqErrors,   \* what a mangled packet may show as its sequence number
          LenErrors,   \* what a mangled packet may show as its length
          AckErrors    \* what a mangled acknowledgement may show

Blocks == {File[i] : i \in DOMAIN File}

(* Of a length it matters whether so many bytes of data were received,     *)
(* whether it is beyond them, and whether the short is negative.           *)
Lengths == {"inside", "beyond", "negative"}

ASSUME FileAssumption == File \in Seq(Blocks)
ASSUME SeqSizeAssumption == SEQ_SIZE \in Nat \ {0}
ASSUME LifetimeAssumption == LIFETIME \in Nat \ {0}
ASSUME LenErrorsAssumption == LenErrors \subseteq Lengths

VARIABLES pc,        \* where sendfile is: "open", "send", "wait", "done" or "aborted"
          block,     \* how many blocks were read before the one being sent
          s_seq,     \* sendfile's seq_num
          r_seq,     \* recvfile's seq_num
          rewrite,   \* recvfile has removed the old output
          output,    \* the contents of the output file
          closed,    \* recvfile has left its loop
          crashed,   \* recvfile was killed by a bad access
          data, acks \* datagrams in flight, to recvfile and to sendfile

sender == <<pc, block, s_seq>>
receiver == <<r_seq, rewrite, output, closed, crashed>>
vars == <<sender, receiver, data, acks>>

FIN == -1          \* the sequence number after the last block

Init == /\ pc = "open" /\ block = 0 /\ s_seq = 0
        /\ r_seq = 0 /\ rewrite = FALSE /\ output = Old /\ closed = FALSE
        /\ crashed = FALSE
        /\ data = {} /\ acks = {}
-----------------------------------------------------------------------------
Transmit(m, net, later) == later \in {net, net \cup {m}}
Alive(S, now) == {m \in S : now - m.block < LIFETIME}

(* fread reads the block after the first k: there is none after the last. *)
Read(k, seq) == /\ block' = k
                /\ s_seq' = IF k = Len(File) THEN FIN ELSE seq

Open == /\ pc = "open"
        /\ \/ pc' = "send" /\ Read(0, s_seq)
           \/ pc' = "aborted" /\ UNCHANGED <<block, s_seq>>
        /\ UNCHANGED <<receiver, data, acks>>

Packet == [seq |-> s_seq, block |-> block,
           contents |-> IF block < Len(File) THEN File[block + 1] ELSE NoBlock]

SendPacket == /\ pc = "send"
              /\ pc' = "wait"
              /\ Transmit(Packet, data, data')
              /\ UNCHANGED <<block, s_seq, receiver, acks>>

(* recvfrom returned an ACK that shows v: the next block, or once more. *)
AckArrives(v) ==
  /\ pc = "wait"
  /\ \/ /\ v = s_seq /\ s_seq # FIN
        /\ pc' = "send"
        /\ Read(block + 1, (s_seq + 1) % SEQ_SIZE)
        /\ data' = Alive(data, block + 1) /\ acks' = Alive(acks, block + 1)
     \/ /\ v = s_seq /\ s_seq = FIN
        /\ pc' = "done"
        /\ UNCHANGED <<block, s_seq, data, acks>>
     \/ /\ v # s_seq
        /\ pc' = "send"
        /\ UNCHANGED <<block, s_seq, data, acks>>
  /\ UNCHANGED receiver

RecvAck(a) == AckArrives(a.seq)
RecvMangledAck(a) == \E v \in AckErrors : AckArrives(v)

(* SO_RCVTIMEO expired in sendfile. *)
Timeout == /\ pc = "wait"
           /\ pc' = "send"
           /\ UNCHANGED <<block, s_seq, receiver, data, acks>>
-----------------------------------------------------------------------------
AckOf(p) == [seq |-> p.seq, block |-> p.block]
SendAck(p) == Transmit(AckOf(p), acks, acks')

LooseInOrder(p) == p.seq >= r_seq              \* faulty variant: any later number will do
InOrder(p) == p.seq >= r_seq /\ ~(p.seq > r_seq /\ r_seq + SEQ_SIZE > p.seq)

(* The packet that ends the transfer is obeyed before its CRC is checked. *)
Finish(p) == /\ p.seq = FIN
             /\ closed' = TRUE
             /\ SendAck(p)
             /\ UNCHANGED <<r_seq, rewrite, output, crashed>>

(* As many bytes as the packet says are copied before its CRC is checked.  *)
(* What lies beyond the buffer may or may not be there to be read; a       *)
(* negative short becomes a size no memory has.                            *)
Overrun(p, len) == /\ p.seq # FIN /\ len # "inside"
                   /\ crashed' = TRUE
                   /\ UNCHANGED <<r_seq, rewrite, output, closed, acks>>

AckingDiscard(p, len) ==                       \* faulty variant: a mangled packet is acked
  p.seq # FIN /\ len # "negative" /\ SendAck(p) /\ UNCHANGED receiver

(* A packet whose CRC is wrong, if the copy of its data went well.         *)
Discard(p, len) == p.seq # FIN /\ len # "negative" /\ UNCHANGED <<receiver, acks>>

SilentAckOnly(p) ==                            \* faulty variant: an old packet is not acked
  p.seq # FIN /\ ~InOrder(p) /\ UNCHANGED <<receiver, acks>>

AckOnly(p) == /\ p.seq # FIN /\ ~InOrder(p)
              /\ SendAck(p)
              /\ UNCHANGED receiver

UnwrappedWrite(p) ==                           \* faulty variant: the number does not wrap
  /\ p.seq # FIN /\ InOrder(p)
  /\ r_seq' = r_seq + 1
  /\ rewrite' = TRUE
  /\ output' = Append(IF rewrite THEN output ELSE <<>>, p.contents)
  /\ SendAck(p)
  /\ UNCHANGED <<closed, crashed>>

AppendingWrite(p) ==                           \* faulty variant: the old output is kept
  /\ p.seq # FIN /\ InOrder(p)
  /\ r_seq' = (r_seq + 1) % SEQ_SIZE
  /\ rewrite' = TRUE
  /\ output' = Append(output, p.contents)
  /\ SendAck(p)
  /\ UNCHANGED <<closed, crashed>>

Write(p) == /\ p.seq # FIN /\ InOrder(p)
            /\ r_seq' = (r_seq + 1) % SEQ_SIZE
            /\ rewrite' = TRUE
            /\ output' = Append(IF rewrite THEN output ELSE <<>>, p.contents)
            /\ SendAck(p)
            /\ UNCHANGED <<closed, crashed>>

(* One turn of recvfile's loop, for a packet that shows the length len and *)
(* whose CRC is right or not.                                              *)
PacketArrives(p, len, ok) == /\ ~closed /\ ~crashed
                             /\ \/ Finish(p)
                                \/ Overrun(p, len)
                                \/ ~ok /\ Discard(p, len)
                                \/ ok /\ (AckOnly(p) \/ Write(p))
                             /\ UNCHANGED <<sender, data>>

RecvPacket(p) == PacketArrives(p, "inside", TRUE)
RecvMangledPacket(p) ==
  \E v \in SeqErrors, len \in LenErrors : PacketArrives([p EXCEPT !.seq = v], len, FALSE)

Next == \/ Open \/ SendPacket \/ Timeout
        \/ \E p \in data : RecvPacket(p) \/ RecvMangledPacket(p)
        \/ \E a \in acks : RecvAck(a) \/ RecvMangledAck(a)

(* Sent again and again, a packet and the ACK of it get through at last,   *)
(* and sendfile neither stands still nor waits for ever.                   *)
Fairness ==
  /\ WF_vars(Open) /\ WF_vars(SendPacket) /\ WF_vars(Timeout)
  /\ SF_vars(SendPacket /\ Packet \in data')
  /\ SF_vars(\E p \in data : p.block = block /\ RecvPacket(p) /\ AckOf(p) \in acks')
  /\ SF_vars(\E a \in acks : a.block = block /\ RecvAck(a))

Spec == Init /\ [][Next]_vars
FairSpec == Spec /\ Fairness
-----------------------------------------------------------------------------
SeqNumbers == {FIN} \cup 0 .. SEQ_SIZE - 1

(* The counters stay in their ranges and the datagrams keep their shape. *)
TypeOK ==
  /\ pc \in {"open", "send", "wait", "done", "aborted"}
  /\ block \in 0 .. Len(File)
  /\ s_seq \in SeqNumbers /\ r_seq \in SeqNumbers \ {FIN}
  /\ rewrite \in BOOLEAN /\ closed \in BOOLEAN /\ crashed \in BOOLEAN
  /\ output = Old \/ output \in Seq(Blocks)
  /\ data \subseteq [seq : SeqNumbers, block : 0 .. Len(File), contents : Blocks \cup {NoBlock}]
  /\ acks \subseteq [seq : SeqNumbers, block : 0 .. Len(File)]

(* When recvfile stops, its output file is the file that was sent, with    *)
(* nothing left of what it held before.  (An empty file is the exception:  *)
(* recvfile then never touches the output.)                                *)
CompleteWhenClosed == closed /\ File # <<>> => output = File

(* Every ACK that can still arrive is about a block that is in the output  *)
(* file, or about the end of a transfer recvfile has closed: sendfile may  *)
(* move on whenever an ACK matches.                                        *)
AcksAreTrue ==
  \A a \in acks : IF a.seq = FIN THEN closed
                                ELSE rewrite /\ a.block < Len(output)

(* The programs do what FileTransfer says: no block is lost, repeated or   *)
(* misplaced, although sequence numbers repeat every SEQ_SIZE blocks.      *)
Transfer == INSTANCE FileTransfer WITH
              output <- IF rewrite THEN output ELSE <<>>, confirmed <- block,
              received <- closed, sent <- pc = "done"
TransfersFile == Transfer!Spec

(* Once sendfile has opened the file, recvfile ends up with all of it,     *)
(* unless a mangled length kills it: nothing else that the network or a    *)
(* mangled packet does keeps it from the end.                              *)
Delivers == pc = "send" ~> closed \/ crashed
-----------------------------------------------------------------------------
(* "If it reaches the end of the file, the program stops sending the       *)
(* packet" (README.md): sendfile ends.                                     *)
SenderStops == pc = "send" ~> pc = "done"

(* Under "Delay, Drop, Reorder, Mangle and Duplicate [...] the receiver     *)
(* side can receive the packet correctly" (README.md): recvfile ends up    *)
(* with the file, whatever is mangled.                                     *)
DeliversMangled == pc = "send" ~> closed

(* "If no packet is received within 100 seconds, the receiving end exits   *)
(* the program" (README.md): a receiver nothing arrives at ends.           *)
IdleReceiverExits == <>[](data = {}) => <>closed
===============================================================================
