--------------------------- MODULE StopAndWaitProofs ---------------------------
(***************************************************************************)
(* The safety of the file transfer for every file, every size of the       *)
(* sequence numbers and every network whose datagrams live for fewer       *)
(* blocks than there are sequence numbers, as long as mangling never makes *)
(* the byte FIN of a packet nor a valid byte of an ACK.                    *)
(*                                                                         *)
(* IInv dates everything in flight: the sequence number of a datagram is   *)
(* the one of its block, and no datagram is about a block more than        *)
(* LIFETIME behind.  A number that matches is then about the very block    *)
(* expected (ModUnique), which is what the programs take for granted.      *)
(***************************************************************************)
EXTENDS StopAndWait, TLAPS
---------------------------------------------------------------------------------
(* Facts on remainders that the provers do not find by themselves, because *)
(* they are about products.                                                *)

(* A product with an integer other than 0 is at least as far from 0.       *)
LEMMA MulUp == ASSUME NEW S \in Nat \ {0}, NEW d \in Int, d >= 1
               PROVE  S * d >= S
<1>1. d - 1 >= 0 /\ S * (d - 1) = S * d - S
  OBVIOUS
<1>2. S * (d - 1) >= 0
  BY <1>1
<1> QED BY <1>1, <1>2

LEMMA MulDown == ASSUME NEW S \in Nat \ {0}, NEW d \in Int, d <= -1
                 PROVE  S * d <= -S
<1> DEFINE e == -d
<1>1. S * e >= S
  BY MulUp
<1>2. S * e = -(S * d)
  OBVIOUS
<1> QED BY <1>1, <1>2

(* The remainder is determined by any quotient. *)
LEMMA ModOf == ASSUME NEW S \in Nat \ {0}, NEW i \in Nat, NEW q \in Int,
                      NEW r \in 0 .. S - 1, i = S * q + r
               PROVE  i % S = r
<1> DEFINE p == i \div S
           m == i % S
           d == p - q
<1>1. i = S * p + m /\ m \in 0 .. S - 1 /\ p \in Int
  OBVIOUS
<1> HIDE DEF p, m
<1>2. S * d = r - m /\ d \in Int
  BY <1>1
<1> HIDE DEF d
<1>3. d = 0
  BY <1>1, <1>2, MulUp, MulDown
<1>4. r = m
  BY <1>1, <1>2, <1>3
<1> QED BY <1>4 DEF m

(* Numbers with the same remainder are equal or S apart at least. *)
LEMMA ModUnique == ASSUME NEW S \in Nat \ {0}, NEW i \in Nat, NEW j \in Nat,
                          i <= j, j - i < S, i % S = j % S
                   PROVE  i = j
<1> DEFINE a == i \div S
           b == j \div S
           d == b - a
<1>1. i = S * a + (i % S) /\ a \in Int
  OBVIOUS
<1>2. j = S * b + (j % S) /\ b \in Int
  OBVIOUS
<1> HIDE DEF a, b
<1>3. j - i = S * d /\ d \in Int
  BY <1>1, <1>2
<1> HIDE DEF d
<1>4. d = 0
  BY <1>3, MulUp, MulDown
<1> QED BY <1>3, <1>4

(* Counting modulo S follows counting. *)
LEMMA ModSucc == ASSUME NEW S \in Nat \ {0}, NEW i \in Nat
                 PROVE  ((i % S) + 1) % S = (i + 1) % S
<1> DEFINE q == i \div S
           m == i % S
           k == m + 1
           j == i + 1
<1>1. i = S * q + m /\ q \in Int /\ m \in 0 .. S - 1
  OBVIOUS
<1> HIDE DEF q, m
<1>2. CASE k < S
  <2>1. k = S * 0 + k /\ k \in 0 .. S - 1 /\ k \in Nat
    BY <1>1, <1>2
  <2>2. j = S * q + k /\ j \in Nat
    BY <1>1
  <2> HIDE DEF k, j
  <2>3. k % S = k /\ j % S = k
    BY <1>1, <2>1, <2>2, ModOf
  <2> QED BY <2>3 DEF k, j, m
<1>3. CASE k = S
  <2>1. k = S * 1 + 0 /\ k \in Nat /\ 0 \in 0 .. S - 1
    BY <1>3
  <2> DEFINE p == q + 1
  <2>2. j = S * p + 0 /\ j \in Nat /\ p \in Int
    BY <1>1, <1>3
  <2> HIDE DEF k, j, p
  <2>3. k % S = 0
    BY <2>1, ModOf
  <2>4. j % S = 0
    BY <2>1, <2>2, ModOf
  <2> QED BY <2>3, <2>4 DEF k, j, m
<1>4. k < S \/ k = S
  BY <1>1
<1> QED BY <1>2, <1>3, <1>4
-----------------------------------------------------------------------------
(* What is asked of the network and of the sequence numbers. *)
Tolerable == /\ LIFETIME < SEQ_SIZE
             /\ FIN \notin SeqErrors
             /\ AckErrors \cap SeqNumbers = {}

N == Len(File)
SeqOf(k) == IF k = N THEN FIN ELSE k % SEQ_SIZE
Written == IF rewrite THEN Len(output) ELSE 0

SenderInv ==
  /\ pc \in {"open", "send", "wait", "done", "aborted"}
  /\ block \in 0 .. N
  /\ IF pc \in {"open", "aborted"} THEN block = 0 /\ s_seq = 0 ELSE s_seq = SeqOf(block)
  /\ pc = "done" => closed

ReceiverInv ==
  /\ rewrite \in BOOLEAN /\ closed \in BOOLEAN /\ crashed \in BOOLEAN
  /\ rewrite => output \in Seq(Blocks) /\ \A i \in 1 .. Len(output) : output[i] = File[i]
  /\ ~rewrite => output = Old
  /\ Written \in {block, block + 1} /\ Written <= N
  /\ r_seq = Written % SEQ_SIZE
  /\ closed => block = N

(* The datagram m is about a block the sender has reached, not long ago. *)
Dated(m) == /\ m.block \in 0 .. block
            /\ block - m.block < LIFETIME
            /\ m.seq = SeqOf(m.block)

DataInv == \A p \in data :
  /\ p \in [seq : SeqNumbers, block : 0 .. N, contents : Blocks \cup {NoBlock}]
  /\ Dated(p)
  /\ p.block < N => p.contents = File[p.block + 1]

AckInv == \A a \in acks :
  /\ a \in [seq : SeqNumbers, block : 0 .. N]
  /\ Dated(a)
  /\ IF a.block = N THEN closed ELSE a.block < Written

IInv == SenderInv /\ ReceiverInv /\ DataInv /\ AckInv

LEMMA FileFacts == /\ N \in Nat
                   /\ \A k \in Nat : k < N => File[k + 1] \in Blocks
BY FileAssumption DEF N, Blocks

(* SeqOf names the blocks of a file by sequence numbers, the end by FIN. *)
LEMMA SeqOfType ==
  ASSUME NEW k \in 0 .. N
  PROVE  /\ SeqOf(k) \in SeqNumbers
         /\ SeqOf(k) = FIN <=> k = N
         /\ k # N => SeqOf(k) = k % SEQ_SIZE /\ SeqOf(k) \in 0 .. SEQ_SIZE - 1
<1>1. k \in Nat /\ k % SEQ_SIZE \in 0 .. SEQ_SIZE - 1
  BY SeqSizeAssumption, FileFacts
<1> QED BY <1>1 DEF SeqOf, SeqNumbers, FIN

LEMMA InitIInv == Init => IInv
<1> SUFFICES ASSUME Init PROVE IInv
  OBVIOUS
<1>1. 0 % SEQ_SIZE = 0
  BY SeqSizeAssumption
<1>2. SenderInv
  <2>1. block \in 0 .. N
    BY FileFacts DEF Init
  <2>2. pc = "open" /\ block = 0 /\ s_seq = 0
    BY DEF Init
  <2>3. pc \in {"open", "send", "wait", "done", "aborted"} /\ pc # "done"
    BY <2>2
  <2> QED BY <2>1, <2>2, <2>3 DEF SenderInv
<1>3. Written = 0
  BY DEF Init, Written
<1>4. ReceiverInv
  <2>1. Written \in {block, block + 1} /\ Written <= N
    BY <1>3, FileFacts DEF Init
  <2>2. rewrite = FALSE /\ closed = FALSE /\ crashed = FALSE /\ output = Old /\ r_seq = Written % SEQ_SIZE
    BY <1>1, <1>3 DEF Init
  <2> QED BY <2>1, <2>2 DEF ReceiverInv
<1>5. DataInv /\ AckInv
  BY DEF Init, DataInv, AckInv
<1> QED BY <1>2, <1>4, <1>5 DEF IInv
-----------------------------------------------------------------------------
(* An ACK that matches is about the block being sent, which is written. *)
LEMMA MatchingAck ==
  ASSUME IInv, Tolerable, pc = "wait", NEW a \in acks, a.seq = s_seq
  PROVE  a.block = block /\ IF block = N THEN closed ELSE Written = block + 1
<1>1. /\ block \in 0 .. N /\ s_seq = SeqOf(block)
      /\ a.block \in 0 .. block /\ block - a.block < LIFETIME
      /\ a.seq = SeqOf(a.block)
      /\ IF a.block = N THEN closed ELSE a.block < Written
      /\ Written \in {block, block + 1}
  BY DEF IInv, SenderInv, ReceiverInv, AckInv, Dated
<1>2. a.block \in 0 .. N /\ N \in Nat
  BY <1>1, FileFacts
<1>3. a.block = block
  <2>1. CASE block = N
    BY <1>1, <1>2, <2>1, SeqOfType
  <2>2. CASE block # N
    <3>1. a.block # N
      BY <1>1, <1>2, <2>2
    <3>2. a.block % SEQ_SIZE = block % SEQ_SIZE
      BY <1>1, <1>2, <2>2, <3>1, SeqOfType
    <3>3. /\ a.block \in Nat /\ block \in Nat /\ a.block <= block
          /\ block - a.block < SEQ_SIZE
      BY <1>1, <1>2, SeqSizeAssumption, LifetimeAssumption DEF Tolerable
    <3> QED BY <3>2, <3>3, ModUnique, SeqSizeAssumption
  <2> QED BY <2>1, <2>2
<1> QED BY <1>1, <1>2, <1>3

(* A packet of the file is taken for the next one only if it is, and       *)
(* otherwise it is about a block that is written already.                  *)
LEMMA InOrderPacket ==
  ASSUME IInv, Tolerable, NEW p \in data, p.seq # FIN
  PROVE  /\ p.block < N
         /\ p.seq \in 0 .. SEQ_SIZE - 1
         /\ InOrder(p) => p.block = Written /\ Written = block
         /\ ~InOrder(p) => p.block < Written
<1>1. /\ block \in 0 .. N
      /\ p.block \in 0 .. block /\ block - p.block < LIFETIME
      /\ p.seq = SeqOf(p.block)
      /\ Written \in {block, block + 1}
      /\ r_seq = Written % SEQ_SIZE
  BY DEF IInv, SenderInv, ReceiverInv, DataInv, Dated
<1>2. /\ p.block \in 0 .. N /\ N \in Nat
      /\ p.block \in Nat /\ Written \in Nat /\ block \in Nat
  BY <1>1, FileFacts
<1>3. /\ p.block # N
      /\ p.seq = p.block % SEQ_SIZE /\ p.seq \in 0 .. SEQ_SIZE - 1
  BY <1>1, <1>2, SeqOfType
<1>4. r_seq \in 0 .. SEQ_SIZE - 1
  BY <1>1, <1>2, SeqSizeAssumption
<1>5. InOrder(p) <=> p.seq = r_seq
  BY <1>3, <1>4, SeqSizeAssumption DEF InOrder
<1>6. p.seq = r_seq => p.block = Written
  <2> SUFFICES ASSUME p.seq = r_seq, p.block <= Written PROVE p.block = Written
    BY <1>1, <1>2
  <2>1. Written - p.block < SEQ_SIZE
    BY <1>1, <1>2, SeqSizeAssumption, LifetimeAssumption DEF Tolerable
  <2>2. p.block % SEQ_SIZE = Written % SEQ_SIZE
    BY <1>1, <1>3
  <2> QED BY <1>2, <2>1, <2>2, ModUnique, SeqSizeAssumption
<1>7. p.block = Written => p.seq = r_seq
  BY <1>1, <1>3
<1> QED BY <1>1, <1>2, <1>3, <1>5, <1>6, <1>7
-----------------------------------------------------------------------------
LEMMA OpenIInv == IInv /\ Open => IInv'
<1> SUFFICES ASSUME IInv, Open PROVE IInv'
  OBVIOUS
<1>1. /\ block' \in 0 .. N /\ block' = block
      /\ IF pc' = "send" THEN s_seq' = SeqOf(block') ELSE pc' = "aborted" /\ s_seq' = 0
  <2>1. block = 0 /\ s_seq = 0 /\ 0 % SEQ_SIZE = 0
    BY SeqSizeAssumption DEF IInv, SenderInv, Open
  <2> QED BY <2>1, FileFacts DEF Open, Read, SeqOf, N, IInv, SenderInv
<1>2. UNCHANGED <<receiver, data, acks>>
  BY DEF Open
<1>3. Written' = Written
  BY <1>2 DEF receiver, Written
<1>4. SenderInv'
  <2>1. block = 0
    BY DEF Open, IInv, SenderInv
  <2> QED BY <1>1, <2>1 DEF Open, SenderInv
<1>5. ReceiverInv'
  BY <1>1, <1>2, <1>3 DEF IInv, ReceiverInv, receiver
<1>6. DataInv' /\ AckInv'
  BY <1>1, <1>2, <1>3 DEF IInv, DataInv, AckInv, Dated, receiver
<1> QED BY <1>4, <1>5, <1>6 DEF IInv

LEMMA SendPacketIInv == IInv /\ SendPacket => IInv'
<1> SUFFICES ASSUME IInv, SendPacket PROVE IInv'
  OBVIOUS
<1>1. /\ pc = "send" /\ pc' = "wait" /\ UNCHANGED <<block, s_seq, receiver, acks>>
      /\ data' \subseteq data \cup {Packet}
      /\ block \in 0 .. N /\ s_seq = SeqOf(block)
  BY DEF SendPacket, Transmit, IInv, SenderInv
<1>2. Written' = Written
  BY <1>1 DEF receiver, Written
<1>3. SenderInv'
  BY <1>1 DEF IInv, SenderInv, receiver
<1>4. ReceiverInv'
  BY <1>1, <1>2 DEF IInv, ReceiverInv, receiver
<1>5. /\ Packet \in [seq : SeqNumbers, block : 0 .. N, contents : Blocks \cup {NoBlock}]
      /\ Packet.block = block
      /\ Packet.seq = SeqOf(block)
      /\ block < N => Packet.contents = File[block + 1]
  <2>1. SeqOf(block) \in SeqNumbers
    BY <1>1, SeqOfType
  <2>2. block < N => File[block + 1] \in Blocks
    BY <1>1, FileFacts
  <2> QED BY <1>1, <2>1, <2>2 DEF Packet, N
<1>6. Dated(Packet)
  BY <1>1, <1>5, FileFacts, LifetimeAssumption DEF Dated
<1>7. DataInv'
  BY <1>1, <1>5, <1>6 DEF IInv, DataInv, Dated
<1>8. AckInv'
  BY <1>1, <1>2 DEF IInv, AckInv, Dated, receiver
<1> QED BY <1>3, <1>4, <1>7, <1>8 DEF IInv

LEMMA TimeoutIInv == IInv /\ Timeout => IInv'
<1> SUFFICES ASSUME IInv, Timeout PROVE IInv'
  OBVIOUS
<1>1. pc = "wait" /\ pc' = "send" /\ UNCHANGED <<block, s_seq, receiver, data, acks>>
  BY DEF Timeout
<1>2. Written' = Written
  BY <1>1 DEF receiver, Written
<1>3. SenderInv'
  BY <1>1 DEF IInv, SenderInv, receiver
<1>4. ReceiverInv'
  BY <1>1, <1>2 DEF IInv, ReceiverInv, receiver
<1>5. DataInv' /\ AckInv'
  BY <1>1, <1>2 DEF IInv, DataInv, AckInv, Dated, receiver
<1> QED BY <1>3, <1>4, <1>5 DEF IInv

(* sendfile moves on by the ACK of the block it sends, or sends it again. *)
LEMMA AckArrivesIInv ==
  ASSUME IInv, Tolerable, NEW v, AckArrives(v),
         v = s_seq => \E a \in acks : a.seq = v
  PROVE  IInv'
<1>1. pc = "wait" /\ UNCHANGED receiver /\ block \in 0 .. N /\ s_seq = SeqOf(block)
  BY DEF AckArrives, IInv, SenderInv
<1>2. Written' = Written
  BY <1>1 DEF receiver, Written
<1>3. CASE v = s_seq /\ s_seq # FIN
  <2>1. /\ pc' = "send" /\ Read(block + 1, (s_seq + 1) % SEQ_SIZE)
        /\ data' = Alive(data, block + 1) /\ acks' = Alive(acks, block + 1)
    BY <1>3 DEF AckArrives
  <2>2. block # N /\ s_seq = block % SEQ_SIZE /\ N \in Nat
    BY <1>1, <1>3, SeqOfType, FileFacts
  <2>3. Written = block + 1
    BY <1>1, <1>3, <2>2, MatchingAck
  <2>4. block' = block + 1 /\ block' \in 0 .. N /\ s_seq' = SeqOf(block')
    <3>1. block' = block + 1 /\ block' \in 0 .. N /\ block \in Nat
      BY <1>1, <2>1, <2>2 DEF Read
    <3>2. s_seq' = IF block + 1 = N THEN FIN ELSE (s_seq + 1) % SEQ_SIZE
      BY <2>1 DEF Read, N
    <3>3. ((block % SEQ_SIZE) + 1) % SEQ_SIZE = (block + 1) % SEQ_SIZE
      BY <3>1, ModSucc, SeqSizeAssumption
    <3> QED BY <2>2, <3>1, <3>2, <3>3 DEF SeqOf
  <2>5. SenderInv'
    BY <2>1, <2>4 DEF SenderInv
  <2>6. ReceiverInv'
    BY <1>1, <1>2, <2>2, <2>3, <2>4 DEF IInv, ReceiverInv, receiver
  <2>7. \A k \in 0 .. block : k \in 0 .. block'
    BY <1>1, <2>2, <2>4
  <2>8. DataInv'
    BY <2>1, <2>4, <2>7 DEF IInv, DataInv, Dated, Alive
  <2>9. AckInv'
    BY <1>1, <1>2, <2>1, <2>4, <2>7 DEF IInv, AckInv, Dated, Alive, receiver
  <2> QED BY <2>5, <2>6, <2>8, <2>9 DEF IInv
<1>4. CASE v = s_seq /\ s_seq = FIN
  <2>1. pc' = "done" /\ UNCHANGED <<block, s_seq, data, acks>>
    BY <1>4 DEF AckArrives
  <2>2. block = N /\ closed
    BY <1>1, <1>4, SeqOfType, MatchingAck
  <2>3. SenderInv'
    BY <1>1, <2>1, <2>2 DEF SenderInv, receiver
  <2>4. ReceiverInv'
    BY <1>1, <1>2, <2>1 DEF IInv, ReceiverInv, receiver
  <2>5. DataInv' /\ AckInv'
    BY <1>1, <1>2, <2>1 DEF IInv, DataInv, AckInv, Dated, receiver
  <2> QED BY <2>3, <2>4, <2>5 DEF IInv
<1>5. CASE v # s_seq
  <2>1. pc' = "send" /\ UNCHANGED <<block, s_seq, data, acks>>
    BY <1>5 DEF AckArrives
  <2>2. SenderInv'
    BY <1>1, <2>1 DEF SenderInv
  <2>3. ReceiverInv'
    BY <1>1, <1>2, <2>1 DEF IInv, ReceiverInv, receiver
  <2>4. DataInv' /\ AckInv'
    BY <1>1, <1>2, <2>1 DEF IInv, DataInv, AckInv, Dated, receiver
  <2> QED BY <2>2, <2>3, <2>4 DEF IInv
<1> QED BY <1>3, <1>4, <1>5
-----------------------------------------------------------------------------
(* An ACK for p, a packet of the file that is written, may be sent. *)
LEMMA AckInvKept ==
  ASSUME IInv, NEW p \in data, SendAck(p), block' = block, Written <= Written',
         Written' <= N, closed => closed',
         IF p.block = N THEN closed' ELSE p.block < Written'
  PROVE  AckInv'
<1>1. acks' \subseteq acks \cup {AckOf(p)}
  BY DEF SendAck, Transmit
<1>2. /\ AckOf(p) \in [seq : SeqNumbers, block : 0 .. N]
      /\ AckOf(p).block = p.block /\ AckOf(p).seq = p.seq
  BY DEF AckOf, IInv, DataInv
<1>3. Dated(p)
  BY DEF IInv, DataInv
<1>4. Written \in Nat /\ Written' \in Nat /\ \A k \in 0 .. N : k < Written => k < Written'
  <2>1. Written \in Nat
    BY FileFacts DEF IInv, SenderInv, ReceiverInv
  <2>2. Written' \in Nat
    BY <2>1, FileFacts DEF Written
  <2> QED BY <2>1, <2>2, FileFacts
<1>5. \A a \in acks : a.block \in 0 .. N
  BY DEF IInv, AckInv
<1> QED BY <1>1, <1>2, <1>3, <1>4, <1>5 DEF IInv, AckInv, Dated

LEMMA WrittenNat == IInv => Written \in Nat
BY FileFacts DEF IInv, SenderInv, ReceiverInv

(* recvfile keeps the invariant when a packet of sendfile arrives. *)
LEMMA RecvPacketIInv ==
  ASSUME IInv, Tolerable, NEW p \in data, RecvPacket(p)
  PROVE  IInv'
<1>1. /\ ~closed /\ UNCHANGED <<sender, data>>
      /\ Finish(p) \/ AckOnly(p) \/ Write(p)
  BY DEF RecvPacket, PacketArrives, Overrun
<1>2. block' = block
  BY <1>1 DEF sender
<1>3. DataInv'
  BY <1>1, <1>2 DEF IInv, DataInv, Dated
<1>4. CASE Finish(p)
  <2>1. /\ closed' = TRUE /\ SendAck(p) /\ UNCHANGED <<r_seq, rewrite, output, crashed>>
        /\ p.seq = FIN
    BY <1>4 DEF Finish
  <2>2. Written' = Written
    BY <2>1 DEF Written
  <2>3. p.block \in 0 .. N /\ p.seq = SeqOf(p.block) /\ p.block \in 0 .. block /\ block \in 0 .. N
    BY DEF IInv, SenderInv, DataInv, Dated
  <2>4. p.block = N /\ block = N
    BY <2>1, <2>3, SeqOfType, FileFacts
  <2>5. SenderInv'
    BY <1>1, <2>1 DEF IInv, SenderInv, sender
  <2>6. ReceiverInv'
    BY <1>2, <2>1, <2>2, <2>4 DEF IInv, ReceiverInv
  <2>7. AckInv'
    <3>1. Written <= Written' /\ Written' <= N
      BY <2>2, WrittenNat DEF IInv, ReceiverInv
    <3> QED BY <1>2, <2>1, <2>4, <3>1, AckInvKept
  <2> QED BY <1>3, <2>5, <2>6, <2>7 DEF IInv
<1>5. CASE AckOnly(p)
  <2>1. SendAck(p) /\ UNCHANGED receiver /\ p.seq # FIN /\ ~InOrder(p)
    BY <1>5 DEF AckOnly
  <2>2. Written' = Written /\ closed' = closed
    BY <2>1 DEF Written, receiver
  <2>3. p.block < N /\ p.block < Written
    BY <2>1, InOrderPacket
  <2>4. SenderInv'
    BY <1>1, <2>1 DEF IInv, SenderInv, sender, receiver
  <2>5. ReceiverInv'
    BY <1>2, <2>1, <2>2 DEF IInv, ReceiverInv, receiver
  <2>6. AckInv'
    <3>1. Written <= Written' /\ Written' <= N /\ p.block # N
      BY <2>2, <2>3, WrittenNat, FileFacts DEF IInv, ReceiverInv, DataInv
    <3> QED BY <1>2, <2>1, <2>2, <2>3, <3>1, AckInvKept
  <2> QED BY <1>3, <2>4, <2>5, <2>6 DEF IInv
<1>6. CASE Write(p)
  <2> DEFINE base == IF rewrite THEN output ELSE <<>>
  <2>1. /\ p.seq # FIN /\ InOrder(p)
        /\ r_seq' = (r_seq + 1) % SEQ_SIZE
        /\ rewrite' = TRUE
        /\ output' = Append(base, p.contents)
        /\ SendAck(p) /\ UNCHANGED <<closed, crashed>>
    BY <1>6 DEF Write
  <2>2. p.block < N /\ p.block = Written /\ Written = block
    BY <2>1, InOrderPacket
  <2>3. /\ base \in Seq(Blocks) /\ Len(base) = Written
        /\ \A i \in 1 .. Len(base) : base[i] = File[i]
    BY DEF IInv, ReceiverInv, Written
  <2>4. p.contents = File[Written + 1] /\ p.contents \in Blocks /\ Written \in Nat
    BY <2>2, FileFacts, WrittenNat DEF IInv, DataInv
  <2> HIDE DEF base
  <2>5. /\ output' \in Seq(Blocks) /\ Len(output') = Written + 1
        /\ \A i \in 1 .. Len(output') : output'[i] = File[i]
    BY <2>1, <2>3, <2>4
  <2>6. Written' = Written + 1
    BY <2>1, <2>5 DEF Written
  <2>7. r_seq' = Written' % SEQ_SIZE
    <3>1. r_seq = Written % SEQ_SIZE
      BY DEF IInv, ReceiverInv
    <3> QED BY <2>1, <2>4, <2>6, <3>1, ModSucc, SeqSizeAssumption
  <2>8. Written' <= N /\ Written <= Written' /\ p.block # N /\ p.block < Written'
    BY <2>2, <2>4, <2>6, FileFacts
  <2>9. SenderInv'
    BY <1>1, <2>1 DEF IInv, SenderInv, sender
  <2>10. ReceiverInv'
    <3>1. rewrite' \in BOOLEAN /\ closed' \in BOOLEAN /\ crashed' \in BOOLEAN /\ rewrite'
      BY <2>1 DEF IInv, ReceiverInv
    <3>2. Written' = block' + 1
      BY <1>2, <2>2, <2>6
    <3>3. ~closed'
      BY <1>1, <2>1
    <3> QED BY <2>5, <2>7, <2>8, <3>1, <3>2, <3>3 DEF ReceiverInv
  <2>11. AckInv'
    BY <1>2, <2>1, <2>8, AckInvKept
  <2> QED BY <1>3, <2>9, <2>10, <2>11 DEF IInv
<1> QED BY <1>1, <1>4, <1>5, <1>6

(* A mangled packet is discarded, or kills recvfile. *)
LEMMA MangledPacket ==
  ASSUME IInv, Tolerable, NEW p \in data, RecvMangledPacket(p)
  PROVE  /\ UNCHANGED <<sender, r_seq, rewrite, output, closed, data, acks>>
         /\ crashed' \in BOOLEAN
<1>1. PICK v \in SeqErrors, len \in LenErrors : PacketArrives([p EXCEPT !.seq = v], len, FALSE)
  BY DEF RecvMangledPacket
<1> DEFINE q == [p EXCEPT !.seq = v]
<1>2. q.seq # FIN
  BY DEF Tolerable, IInv, DataInv
<1> HIDE DEF q
<1>3. UNCHANGED <<sender, data>> /\ (Overrun(q, len) \/ Discard(q, len))
  BY <1>1, <1>2 DEF PacketArrives, Finish, q
<1>4. crashed \in BOOLEAN
  BY DEF IInv, ReceiverInv
<1> QED BY <1>3, <1>4 DEF Overrun, Discard, receiver

LEMMA RecvMangledPacketIInv ==
  ASSUME IInv, Tolerable, NEW p \in data, RecvMangledPacket(p)
  PROVE  IInv'
<1>1. /\ UNCHANGED <<sender, r_seq, rewrite, output, closed, data, acks>>
      /\ crashed' \in BOOLEAN
  BY MangledPacket
<1>2. Written' = Written
  BY <1>1 DEF Written
<1>3. SenderInv'
  BY <1>1 DEF IInv, SenderInv, sender
<1>4. ReceiverInv'
  BY <1>1, <1>2 DEF IInv, ReceiverInv, sender
<1>5. DataInv' /\ AckInv'
  BY <1>1, <1>2 DEF IInv, DataInv, AckInv, Dated, sender
<1> QED BY <1>3, <1>4, <1>5 DEF IInv

LEMMA NextIInv == Tolerable /\ IInv /\ [Next]_vars => IInv'
<1> SUFFICES ASSUME Tolerable, IInv, [Next]_vars PROVE IInv'
  OBVIOUS
<1>1. CASE Open
  BY <1>1, OpenIInv
<1>2. CASE SendPacket
  BY <1>2, SendPacketIInv
<1>3. CASE Timeout
  BY <1>3, TimeoutIInv
<1>4. ASSUME NEW p \in data, RecvPacket(p) PROVE IInv'
  BY <1>4, RecvPacketIInv
<1>5. ASSUME NEW p \in data, RecvMangledPacket(p) PROVE IInv'
  BY <1>5, RecvMangledPacketIInv
<1>6. ASSUME NEW a \in acks, RecvAck(a) PROVE IInv'
  BY <1>6, AckArrivesIInv DEF RecvAck
<1>7. ASSUME NEW a \in acks, RecvMangledAck(a) PROVE IInv'
  <2>1. PICK v \in AckErrors : AckArrives(v)
    BY <1>7 DEF RecvMangledAck
  <2>2. v # s_seq
    <3>1. s_seq \in SeqNumbers
      BY <2>1, SeqOfType DEF AckArrives, IInv, SenderInv
    <3> QED BY <3>1 DEF Tolerable
  <2> QED BY <2>1, <2>2, AckArrivesIInv
<1>8. CASE UNCHANGED vars
  <2>1. UNCHANGED <<sender, receiver, data, acks>>
    BY <1>8 DEF vars
  <2>2. Written' = Written
    BY <2>1 DEF receiver, Written
  <2>3. SenderInv'
    BY <2>1 DEF IInv, SenderInv, sender, receiver
  <2>4. ReceiverInv'
    BY <2>1, <2>2 DEF IInv, ReceiverInv, sender, receiver
  <2>5. DataInv' /\ AckInv'
    BY <2>1, <2>2 DEF IInv, DataInv, AckInv, Dated, sender, receiver
  <2> QED BY <2>3, <2>4, <2>5 DEF IInv
<1> QED BY <1>1, <1>2, <1>3, <1>4, <1>5, <1>6, <1>7, <1>8 DEF Next

(* On a tolerable network every reachable state satisfies the invariant. *)
THEOREM Invariance == ASSUME Tolerable PROVE Spec => []IInv
<1>1. IInv /\ [Next]_vars => IInv'
  BY NextIInv
<1> QED BY <1>1, InitIInv, PTL DEF Spec
-----------------------------------------------------------------------------
(* The counters of both programs stay in range and what is in flight keeps *)
(* its shape.                                                              *)
THEOREM TypeCorrect == ASSUME Tolerable PROVE Spec => []TypeOK
<1>1. IInv => TypeOK
  <2> SUFFICES ASSUME IInv PROVE TypeOK
    OBVIOUS
  <2>1. block \in 0 .. Len(File) /\ s_seq \in SeqNumbers
    <3>1. 0 \in SeqNumbers
      BY SeqSizeAssumption DEF SeqNumbers
    <3> QED BY <3>1, SeqOfType DEF IInv, SenderInv, N
  <2>2. r_seq \in SeqNumbers \ {FIN}
    <3>1. Written \in Nat /\ r_seq = Written % SEQ_SIZE
      BY WrittenNat DEF IInv, ReceiverInv
    <3> QED BY <3>1, SeqSizeAssumption DEF SeqNumbers, FIN
  <2>3. output = Old \/ output \in Seq(Blocks)
    BY DEF IInv, ReceiverInv
  <2>4. /\ data \subseteq [seq : SeqNumbers, block : 0 .. Len(File),
                        contents : Blocks \cup {NoBlock}]
        /\ acks \subseteq [seq : SeqNumbers, block : 0 .. Len(File)]
    BY DEF IInv, DataInv, AckInv, N
  <2>5. /\ pc \in {"open", "send", "wait", "done", "aborted"}
        /\ rewrite \in BOOLEAN /\ closed \in BOOLEAN /\ crashed \in BOOLEAN
    BY DEF IInv, SenderInv, ReceiverInv
  <2> QED BY <2>1, <2>2, <2>3, <2>4, <2>5 DEF TypeOK
<1> QED BY <1>1, Invariance, PTL

(* sendfile never moves past a block that recvfile has not written. *)
THEOREM AcksAlwaysTrue == ASSUME Tolerable PROVE Spec => []AcksAreTrue
<1>1. IInv => AcksAreTrue
  <2> SUFFICES ASSUME IInv, NEW a \in acks
               PROVE  IF a.seq = FIN THEN closed ELSE rewrite /\ a.block < Len(output)
    BY DEF AcksAreTrue
  <2>1. /\ a.block \in 0 .. N /\ a.seq = SeqOf(a.block)
        /\ IF a.block = N THEN closed ELSE a.block < Written
    BY DEF IInv, AckInv, Dated
  <2>2. a.seq = FIN <=> a.block = N
    BY <2>1, SeqOfType
  <2>3. a.block < Written => rewrite /\ a.block < Len(output)
    BY <2>1, FileFacts DEF Written
  <2> QED BY <2>1, <2>2, <2>3
<1> QED BY <1>1, Invariance, PTL

(* When recvfile stops, it has written exactly the file that was sent. *)
THEOREM AlwaysCompleteWhenClosed == ASSUME Tolerable PROVE Spec => []CompleteWhenClosed
<1>1. IInv => CompleteWhenClosed
  <2> SUFFICES ASSUME IInv, closed, File # <<>> PROVE output = File
    BY DEF CompleteWhenClosed
  <2>1. Written = N
    <3>1. block = N /\ Written \in {block, block + 1} /\ Written <= N
      BY DEF IInv, ReceiverInv
    <3> QED BY <3>1, FileFacts
  <2>2. N # 0
    BY FileAssumption DEF N
  <2>3. rewrite /\ Len(output) = N
    BY <2>1, <2>2 DEF Written
  <2>4. output \in Seq(Blocks) /\ \A i \in 1 .. Len(output) : output[i] = File[i]
    BY <2>3 DEF IInv, ReceiverInv
  <2> QED BY <2>3, <2>4, FileAssumption DEF N
<1> QED BY <1>1, Invariance, PTL
-----------------------------------------------------------------------------
(* Every step of the two programs and the network is a step of             *)
(* FileTransfer or leaves what it talks about alone.                       *)
LEMMA StepTransfers ==
  Tolerable /\ IInv /\ IInv' /\ [Next]_vars => [Transfer!Next]_(Transfer!vars)
<1> DEFINE out == IF rewrite THEN output ELSE <<>>
           same == out' = out /\ block' = block /\ closed' = closed
<1> SUFFICES ASSUME Tolerable, IInv, IInv', [Next]_vars
             PROVE  Transfer!Next \/ (same /\ (pc' = "done") = (pc = "done"))
  BY DEF Transfer!vars
<1>1. UNCHANGED receiver => out' = out /\ closed' = closed
  BY DEF receiver
<1>2. UNCHANGED sender => block' = block /\ pc' = pc
  BY DEF sender
<1>3. Len(out) = Written
  BY DEF Written
<1>4. CASE Open
  <2>1. block' = block
    BY <1>4, FileFacts DEF Open, Read, IInv, SenderInv
  <2>2. pc # "done" /\ pc' # "done" /\ UNCHANGED receiver
    BY <1>4 DEF Open
  <2> QED BY <1>1, <2>1, <2>2
<1>5. CASE SendPacket
  BY <1>1, <1>5 DEF SendPacket
<1>6. CASE Timeout
  BY <1>1, <1>6 DEF Timeout
<1>7. ASSUME NEW v, AckArrives(v), v = s_seq => \E a \in acks : a.seq = v
      PROVE  Transfer!Next \/ (same /\ (pc' = "done") = (pc = "done"))
  <2>1. pc = "wait" /\ UNCHANGED receiver /\ block \in 0 .. N /\ s_seq = SeqOf(block)
    BY <1>7 DEF AckArrives, IInv, SenderInv
  <2>2. CASE v = s_seq /\ s_seq # FIN
    <3>1. pc' = "send" /\ block' = block + 1
      BY <1>7, <2>2 DEF AckArrives, Read
    <3>2. Written = block + 1
      BY <1>7, <2>1, <2>2, SeqOfType, MatchingAck
    <3>3. Transfer!Confirm
      BY <1>1, <1>3, <2>1, <3>1, <3>2, FileFacts DEF Transfer!Confirm
    <3> QED BY <3>3 DEF Transfer!Next
  <2>3. CASE v = s_seq /\ s_seq = FIN
    <3>1. pc' = "done" /\ block' = block
      BY <1>7, <2>3 DEF AckArrives
    <3>2. closed
      BY <1>7, <2>1, <2>3, SeqOfType, MatchingAck
    <3>3. Transfer!StopSender
      BY <1>1, <2>1, <3>1, <3>2 DEF Transfer!StopSender
    <3> QED BY <3>3 DEF Transfer!Next
  <2>4. CASE v # s_seq
    BY <1>1, <1>7, <2>1, <2>4 DEF AckArrives
  <2> QED BY <2>2, <2>3, <2>4
<1>8. ASSUME NEW a \in acks, RecvAck(a)
      PROVE  Transfer!Next \/ (same /\ (pc' = "done") = (pc = "done"))
  BY <1>7, <1>8 DEF RecvAck
<1>9. ASSUME NEW a \in acks, RecvMangledAck(a)
      PROVE  Transfer!Next \/ (same /\ (pc' = "done") = (pc = "done"))
  <2>1. PICK v \in AckErrors : AckArrives(v)
    BY <1>9 DEF RecvMangledAck
  <2>2. v # s_seq
    <3>1. s_seq \in SeqNumbers
      BY <2>1, SeqOfType DEF AckArrives, IInv, SenderInv
    <3> QED BY <3>1 DEF Tolerable
  <2> QED BY <1>7, <2>1, <2>2
<1>10. ASSUME NEW p \in data, RecvPacket(p)
       PROVE  Transfer!Next \/ (same /\ (pc' = "done") = (pc = "done"))
  <2>1. ~closed /\ UNCHANGED sender /\ (Finish(p) \/ AckOnly(p) \/ Write(p))
    BY <1>10 DEF RecvPacket, PacketArrives, Overrun
  <2>2. CASE Finish(p)
    <3>1. closed' = TRUE /\ out' = out /\ p.seq = FIN
      BY <2>2 DEF Finish
    <3>2. p.block \in 0 .. N /\ p.block \in 0 .. block /\ block \in 0 .. N
          /\ p.seq = SeqOf(p.block)
      BY DEF IInv, SenderInv, DataInv, Dated
    <3>3. block = N
      BY <3>1, <3>2, SeqOfType, FileFacts
    <3>4. Transfer!StopReceiver
      BY <1>2, <2>1, <3>1, <3>3 DEF Transfer!StopReceiver, N
    <3> QED BY <3>4 DEF Transfer!Next
  <2>3. CASE AckOnly(p)
    BY <1>1, <1>2, <2>1, <2>3 DEF AckOnly
  <2>4. CASE Write(p)
    <3>1. out' = Append(out, p.contents) /\ closed' = closed /\ p.seq # FIN /\ InOrder(p)
      BY <2>4 DEF Write
    <3>2. p.block < N /\ p.block = Written /\ Written = block
      BY <3>1, InOrderPacket
    <3>3. p.contents = File[block + 1]
      BY <3>2 DEF IInv, DataInv
    <3>4. Transfer!Write
      BY <1>2, <1>3, <2>1, <3>1, <3>2, <3>3 DEF Transfer!Write, N
    <3> QED BY <3>4 DEF Transfer!Next
  <2> QED BY <2>1, <2>2, <2>3, <2>4
<1>11. ASSUME NEW p \in data, RecvMangledPacket(p)
       PROVE  Transfer!Next \/ (same /\ (pc' = "done") = (pc = "done"))
  <2>1. UNCHANGED <<sender, rewrite, output, closed>>
    BY <1>11, MangledPacket
  <2> QED BY <1>2, <2>1
<1>12. CASE UNCHANGED vars
  BY <1>1, <1>2, <1>12 DEF vars
<1> QED
  BY <1>4, <1>5, <1>6, <1>8, <1>9, <1>10, <1>11, <1>12 DEF Next

(* sendfile, recvfile and a tolerable network implement FileTransfer: no   *)
(* block is lost, repeated or misplaced, and neither program stops early.  *)
THEOREM Implements == ASSUME Tolerable PROVE Spec => TransfersFile
<1>1. Init => Transfer!Init
  BY DEF Init, Transfer!Init
<1>2. IInv /\ IInv' /\ [Next]_vars => [Transfer!Next]_(Transfer!vars)
  BY StepTransfers
<1> QED BY <1>1, <1>2, Invariance, PTL DEF Spec, TransfersFile, Transfer!Spec
===============================================================================
