---------------------------- MODULE OutboundProofs ----------------------------
(***************************************************************************)
(* Proofs about Outbound, for every set of messages and every value of the *)
(* capacities: the buffers of a connection are bounded and the list of     *)
(* retransmissions never exceeds its budget.                               *)
(*                                                                         *)
(* TypeOK, MemoryBounded and RetryListed are inductive only together: the  *)
(* eviction of queue_qos1 needs the bound of the queue to make room, the   *)
(* retry counter stays in its type because of what the retry list says of  *)
(* it, and a flush keeps the batch bounded because the socket is not       *)
(* overfull.  On top of them: the reliable packets are one stream, and     *)
(* Outbound implements ReliableDelivery until a packet id is used twice.   *)
(***************************************************************************)
EXTENDS Outbound, VectorProofs

IInv == TypeOK /\ MemoryBounded /\ RetryListed

----------------------------------------------------------------------------
(* The constants, the packets and the empty window.                        *)

\* The capacities are positive numbers and NoMsg is not a message.
LEMMA Constants ==
  /\ WRITE_QUEUE_CAP \in Nat \ {0} /\ IN_FLIGHT_CAP \in Nat \ {0}
  /\ MAX_PID \in Nat /\ IN_FLIGHT_CAP <= MAX_PID
  /\ BATCH_MAX \in Nat \ {0} /\ SOCK_CAP \in Nat \ {0} /\ QOS1_MAX_RETRIES \in Nat
BY CapAssumption, OutboundAssumption

\* Every packet the broker builds is a packet.
LEMMA PacketTypes ==
  /\ \A qos \in 0..2, pid \in 0..MAX_PID, m \in Msg, dup \in BOOLEAN :
       Packet("PUBLISH", qos, pid, m, dup) \in PacketType
  /\ \A pid \in 0..MAX_PID, dup \in BOOLEAN :
       Packet("PUBREL", 0, pid, NoMsg, dup) \in PacketType
  /\ Pingresp \in PacketType
BY Constants DEF Packet, PacketType, Pingresp

\* The empty window holds nothing.
LEMMA EmptyWindow ==
  /\ [p \in Pid |-> Vacant] \in [Pid -> InFlightType]
  /\ Cardinality(InUse([p \in Pid |-> Vacant], Vacant)) <= IN_FLIGHT_CAP
<1>1. InUse([p \in Pid |-> Vacant], Vacant) = {}
  BY DEF InUse
<1>2. QED
  BY <1>1, Constants, FS_EmptySet DEF InFlightType

\* The queue type of the model is the one of the lemmas.
LEMMA EntryIsQueued == Seq(EntryType) = QueueOf(PacketType)
BY DEF EntryType, QueueOf

\* Init establishes the invariant.
LEMMA InitIInv == Init => IInv
<1>1. SUFFICES ASSUME Init PROVE IInv
  OBVIOUS
<1>2. TypeOK
  <2>1. next_pid \in 0..MAX_PID /\ fwd \in [Msg -> 0..NotYet]
    <3>1. MAX_PID >= 1
      BY Constants
    <3>2. QED
      BY <1>1, <3>1, Constants DEF Init, NotYet
  <2>2. QED
    BY <1>1, <2>1, EmptyWindow, EmptySeq, OutboundAssumption DEF Init, TypeOK, Phase
<1>3. MemoryBounded
  BY <1>1, EmptyWindow, Constants DEF Init, MemoryBounded, Window
<1>4. RetryListed
  BY <1>1 DEF Init, RetryListed
<1>5. QED
  BY <1>2, <1>3, <1>4 DEF IInv

\* Removal of the client, in any phase, keeps the parts of the invariant that
\* speak of the client.
LEMMA NoClientSafe ==
  ASSUME IInv, NoClient, retry' = {} \/ retry' \subseteq retry
  PROVE  /\ connected' \in BOOLEAN
         /\ write_queue' \in Seq(EntryType)
         /\ write_pending' \in Seq(PacketType)
         /\ writable' \in BOOLEAN
         /\ in_flight' \in [Pid -> InFlightType]
         /\ next_pid' \in 0..MAX_PID
         /\ keepalive' \in {"off", "live", "expired"}
         /\ wire' \in Seq(PacketType)
         /\ acks' \in Seq(AckType)
         /\ held' \in SUBSET (0..MAX_PID)
         /\ MemoryBounded'
         /\ RetryListed'
<1>1. 1 \in 0..MAX_PID
  BY Constants
<1>2. MemoryBounded'
  BY EmptyWindow, Constants DEF NoClient, MemoryBounded, Window
<1>3. RetryListed'
  <2>1. \A pkt \in retry' : pkt.pid \in Pid
    BY DEF IInv, RetryListed
  <2>2. \A pkt \in retry' : 0 < QOS1_MAX_RETRIES
    <3>1. SUFFICES ASSUME NEW pkt \in retry' PROVE 0 < QOS1_MAX_RETRIES
      OBVIOUS
    <3>2. pkt \in retry /\ in_flight[pkt.pid].retries < QOS1_MAX_RETRIES
          /\ in_flight[pkt.pid] \in InFlightType
      BY <3>1 DEF IInv, RetryListed, TypeOK
    <3>3. in_flight[pkt.pid].retries \in 0..QOS1_MAX_RETRIES
      BY <3>2, Constants DEF InFlightType, Vacant, Entry
    <3>4. QED
      BY <3>2, <3>3, Constants
  <2>3. \A pkt \in retry' : in_flight'[pkt.pid].retries = 0
    BY <2>1 DEF NoClient, Vacant, Entry
  <2>4. \A a, b \in retry' : a.pid = b.pid => a = b
    BY DEF IInv, RetryListed
  <2>5. QED
    BY <2>1, <2>2, <2>3, <2>4 DEF RetryListed
<1>4. QED
  BY <1>1, <1>2, <1>3, EmptyWindow, EmptySeq DEF NoClient

----------------------------------------------------------------------------
(* Window updates.                                                         *)

\* The updates of an in-flight record keep its type.
LEMMA EntryUpdates ==
  ASSUME NEW e \in InFlightType, e # Vacant
  PROVE  LET w == [e EXCEPT !.await_pubcomp = TRUE, !.retries = 0, !.due = FALSE]
         IN  w \in InFlightType /\ w.retries = 0
<1>1. e \in [msg : Msg, qos2 : BOOLEAN, await_pubcomp : BOOLEAN,
             retries : 0..QOS1_MAX_RETRIES, due : BOOLEAN]
  BY DEF InFlightType
<1>2. 0 \in 0..QOS1_MAX_RETRIES
  BY Constants
<1>3. QED
  BY <1>1, <1>2 DEF InFlightType

\* So does counting a retry, while one is left.
LEMMA EntryRetried ==
  ASSUME NEW e \in InFlightType, e # Vacant, e.retries < QOS1_MAX_RETRIES
  PROVE  [e EXCEPT !.due = FALSE, !.retries = @ + 1] \in InFlightType
<1>1. e \in [msg : Msg, qos2 : BOOLEAN, await_pubcomp : BOOLEAN,
             retries : 0..QOS1_MAX_RETRIES, due : BOOLEAN]
  BY DEF InFlightType
<1>2. e.retries + 1 \in 0..QOS1_MAX_RETRIES
  BY <1>1, Constants
<1>3. QED
  BY <1>1, <1>2 DEF InFlightType

\* So does the timer.
LEMMA EntryDue ==
  ASSUME NEW e \in InFlightType, e # Vacant
  PROVE  LET w == [e EXCEPT !.due = TRUE]
         IN  w \in InFlightType /\ w.retries = e.retries
<1>1. e \in [msg : Msg, qos2 : BOOLEAN, await_pubcomp : BOOLEAN,
             retries : 0..QOS1_MAX_RETRIES, due : BOOLEAN]
  BY DEF InFlightType
<1>2. QED
  BY <1>1 DEF InFlightType

\* Releasing or updating an id in use keeps the bound of the window and the
\* retry list, provided a retry that was left to the id is still left.
LEMMA UpdateSafe ==
  ASSUME IInv, NEW pid, NEW entry \in InFlightType,
         in_flight' = [in_flight EXCEPT ![pid] = entry],
         entry = Vacant \/ in_flight[pid] # Vacant,
         entry.retries = 0 \/ entry.retries = in_flight[pid].retries,
         retry' = retry
  PROVE  /\ in_flight' \in [Pid -> InFlightType]
         /\ Cardinality(Window') <= IN_FLIGHT_CAP
         /\ RetryListed'
<1>1. in_flight \in [Pid -> InFlightType]
  BY DEF IInv, TypeOK
<1>2. in_flight' \in [Pid -> InFlightType]
  BY <1>1
<1>3. Cardinality(Window') <= IN_FLIGHT_CAP
  <2>1. InUse(in_flight', Vacant) \subseteq InUse(in_flight, Vacant)
    BY <1>1 DEF InUse
  <2>2. QED
    BY <2>1, WindowShrinks DEF IInv, MemoryBounded, Window
<1>4. RetryListed'
  <2>1. \A a, b \in retry' : a.pid = b.pid => a = b
    BY DEF IInv, RetryListed
  <2>2. ASSUME NEW pkt \in retry'
        PROVE  pkt.pid \in Pid /\ in_flight'[pkt.pid].retries < QOS1_MAX_RETRIES
    <3>1. pkt.pid \in Pid /\ in_flight[pkt.pid].retries < QOS1_MAX_RETRIES
      BY <2>2 DEF IInv, RetryListed
    <3>2. in_flight[pkt.pid].retries \in 0..QOS1_MAX_RETRIES
      <4>1. in_flight[pkt.pid] \in InFlightType
        BY <1>1, <3>1
      <4>2. QED
        BY <4>1, Constants DEF InFlightType, Vacant, Entry
    <3>3. CASE pkt.pid = pid
      BY <3>1, <3>2, <3>3, <1>1, Constants
    <3>4. CASE pkt.pid # pid
      BY <3>1, <3>4, <1>1
    <3>5. QED
      BY <3>3, <3>4
  <2>3. QED
    BY <2>1, <2>2 DEF RetryListed
<1>5. QED
  BY <1>2, <1>3, <1>4

\* Nothing the retry list or the window bound speaks of changes.
LEMMA WindowUnchanged ==
  ASSUME IInv, UNCHANGED in_flight, retry' \subseteq retry
  PROVE  /\ Cardinality(Window') <= IN_FLIGHT_CAP
         /\ RetryListed'
BY DEF IInv, MemoryBounded, RetryListed, Window, InUse

----------------------------------------------------------------------------
(* deliver_to.                                                             *)

\* queue_qos0 of a packet and queue_qos1 of one that is accepted keep the
\* write queue typed and bounded.
LEMMA QueueSafe ==
  ASSUME IInv, NEW pkt \in PacketType
  PROVE  /\ Queue0(write_queue, pkt) \in Seq(EntryType)
         /\ Len(Queue0(write_queue, pkt)) <= WRITE_QUEUE_CAP
         /\ Accepts1(write_queue) =>
              /\ Queue1(write_queue, pkt) \in Seq(EntryType)
              /\ Len(Queue1(write_queue, pkt)) <= WRITE_QUEUE_CAP
<1>1. write_queue \in QueueOf(PacketType) /\ Len(write_queue) <= WRITE_QUEUE_CAP
  BY EntryIsQueued DEF IInv, TypeOK, MemoryBounded
<1>2. QED
  BY <1>1, EntryIsQueued, Queue0Bounded, Queue1Bounded

\* A forwarded QoS0 message.
LEMMA DeliverQos0Safe ==
  ASSUME IInv, NEW m \in Msg, DeliverQos0(m)
  PROVE  IInv'
<1>1. Publish(0, 0, m) \in PacketType
  BY Constants DEF Publish, Packet, PacketType
<1>2. /\ write_queue' \in Seq(EntryType)
      /\ Len(write_queue') <= WRITE_QUEUE_CAP
  BY <1>1, QueueSafe DEF DeliverQos0
<1>3. fwd' \in [Msg -> 0..NotYet]
  BY DEF IInv, TypeOK, DeliverQos0, NotYet
<1>4. TypeOK'
  BY <1>2, <1>3 DEF IInv, TypeOK, DeliverQos0, loop, subscriber
<1>5. Cardinality(Window') <= IN_FLIGHT_CAP /\ RetryListed'
  BY WindowUnchanged DEF DeliverQos0, loop
<1>6. MemoryBounded'
  BY <1>2, <1>5 DEF IInv, MemoryBounded, DeliverQos0
<1>7. QED
  BY <1>4, <1>5, <1>6 DEF IInv

\* A forwarded QoS1 or QoS2 message: it takes an id that was free, so no
\* retransmission on the list is of that id unless it is stale, and then the
\* new entry has all its retries left.
LEMMA DeliverReliableSafe ==
  ASSUME IInv, NEW m \in Msg, NEW qos \in {1, 2}, DeliverReliable(m, qos)
  PROVE  IInv'
<1>1. PICK pid \in Pid :
        /\ IsNextPid(in_flight, Vacant, next_pid, pid)
        /\ next_pid' = AfterPid(pid)
        /\ write_queue' = Queue1(write_queue, Publish(qos, pid, m))
        /\ in_flight' = [in_flight EXCEPT ![pid] = Entry(m, qos = 2)]
  BY DEF DeliverReliable
<1>2. pid \in 0..MAX_PID
  BY Constants DEF Pid
<1>3. /\ write_queue' \in Seq(EntryType)
      /\ Len(write_queue') <= WRITE_QUEUE_CAP
  <2>1. Publish(qos, pid, m) \in PacketType
    BY <1>2, Constants DEF Publish, Packet, PacketType
  <2>2. QED
    BY <1>1, <2>1, QueueSafe DEF DeliverReliable
<1>4. Entry(m, qos = 2) \in InFlightType /\ Entry(m, qos = 2).retries = 0
  BY Constants DEF Entry, InFlightType
<1>5. in_flight \in [Pid -> InFlightType]
  BY DEF IInv, TypeOK
<1>6. next_pid' \in 0..MAX_PID
  BY <1>1, <1>2, Constants DEF AfterPid
<1>7. fwd' \in [Msg -> 0..NotYet]
  BY DEF IInv, TypeOK, DeliverReliable, NotYet
<1>8. TypeOK'
  BY <1>1, <1>3, <1>4, <1>5, <1>6, <1>7
     DEF IInv, TypeOK, DeliverReliable, loop, subscriber
<1>9. Cardinality(Window') <= IN_FLIGHT_CAP
  BY <1>1, <1>5, WindowGrows DEF DeliverReliable, Window
<1>10. MemoryBounded'
  BY <1>3, <1>9 DEF IInv, MemoryBounded, DeliverReliable
<1>11. RetryListed'
  <2>1. retry' = retry
    BY DEF DeliverReliable, loop
  <2>2. ASSUME NEW pkt \in retry'
        PROVE  pkt.pid \in Pid /\ in_flight'[pkt.pid].retries < QOS1_MAX_RETRIES
    <3>1. pkt.pid \in Pid /\ in_flight[pkt.pid].retries < QOS1_MAX_RETRIES
      BY <2>1, <2>2 DEF IInv, RetryListed
    <3>2. in_flight[pkt.pid].retries \in 0..QOS1_MAX_RETRIES
      <4>1. in_flight[pkt.pid] \in InFlightType
        BY <1>5, <3>1
      <4>2. QED
        BY <4>1, Constants DEF InFlightType, Vacant, Entry
    <3>3. CASE pkt.pid = pid
      BY <3>1, <3>2, <3>3, <1>1, <1>4, <1>5, Constants
    <3>4. CASE pkt.pid # pid
      BY <3>1, <3>4, <1>1, <1>5
    <3>5. QED
      BY <3>3, <3>4
  <2>3. QED
    BY <2>1, <2>2 DEF IInv, RetryListed
<1>12. QED
  BY <1>8, <1>10, <1>11 DEF IInv

\* Removal in the middle of any phase.
LEMMA DropSafe ==
  ASSUME IInv, NoClient, UNCHANGED <<loop, got, twice, fwd>>
  PROVE  IInv'
<1>1. retry' \subseteq retry
  BY DEF loop
<1>2. TypeOK'
  BY <1>1, NoClientSafe DEF IInv, TypeOK, loop
<1>3. QED
  BY <1>1, <1>2, NoClientSafe DEF IInv

----------------------------------------------------------------------------
(* handle_packets.                                                         *)

\* What reading a packet does besides its own effect on the queue and the
\* window.
LEMMA ReadPacketSafe ==
  ASSUME IInv, NEW type, ReadPacket(type),
         write_queue' \in Seq(EntryType), Len(write_queue') <= WRITE_QUEUE_CAP,
         in_flight' \in [Pid -> InFlightType],
         Cardinality(Window') <= IN_FLIGHT_CAP, RetryListed'
  PROVE  IInv'
<1>1. acks' \in Seq(AckType)
  <2>1. acks \in Seq(AckType) /\ acks # <<>>
    BY DEF IInv, TypeOK, ReadPacket, Reading
  <2>2. QED
    BY <2>1, HeadTailProperties DEF ReadPacket
<1>2. TypeOK'
  BY <1>1 DEF IInv, TypeOK, ReadPacket, loop, subscriber
<1>3. MemoryBounded'
  BY DEF IInv, MemoryBounded, ReadPacket
<1>4. QED
  BY <1>2, <1>3 DEF IInv

\* PUBACK, PUBREC, PUBCOMP and PINGREQ.
LEMMA HandlePacketSafe ==
  ASSUME IInv, HandlePacket
  PROVE  IInv'
<1>1. write_queue \in Seq(EntryType) /\ Len(write_queue) <= WRITE_QUEUE_CAP
  BY DEF IInv, TypeOK, MemoryBounded
<1>2. in_flight \in [Pid -> InFlightType]
  BY DEF IInv, TypeOK
<1>3. Vacant \in InFlightType /\ Vacant.retries = 0
  BY DEF InFlightType, Vacant, Entry
<1>4. ASSUME NEW type, ReadPacket(type)
      PROVE  retry' = retry
  BY <1>4 DEF ReadPacket, loop
<1>5. Head(acks).pid \in 0..MAX_PID \/ ~HandlePacket
  <2>1. acks # <<>> => Head(acks) \in AckType
    BY HeadTailProperties DEF IInv, TypeOK
  <2>2. acks # <<>>
    BY DEF HandlePacket, HandlePuback, HandlePubrec, HandlePubcomp, HandlePingreq,
           ReadPacket, Reading
  <2>3. QED
    BY <2>1, <2>2 DEF AckType
<1>6. CASE HandlePuback
  <2>1. /\ in_flight' \in [Pid -> InFlightType]
        /\ Cardinality(Window') <= IN_FLIGHT_CAP
        /\ RetryListed'
    BY <1>3, <1>4, <1>6, UpdateSafe DEF HandlePuback
  <2>2. QED
    BY <1>1, <1>6, <2>1, ReadPacketSafe DEF HandlePuback
<1>7. CASE HandlePubcomp
  <2>1. /\ in_flight' \in [Pid -> InFlightType]
        /\ Cardinality(Window') <= IN_FLIGHT_CAP
        /\ RetryListed'
    BY <1>3, <1>4, <1>7, UpdateSafe DEF HandlePubcomp
  <2>2. QED
    BY <1>1, <1>7, <2>1, ReadPacketSafe DEF HandlePubcomp
<1>8. CASE HandlePingreq
  <2>1. Cardinality(Window') <= IN_FLIGHT_CAP /\ RetryListed'
    BY <1>4, <1>8, WindowUnchanged DEF HandlePingreq
  <2>2. Pingresp \in PacketType
    BY PacketTypes
  <2>3. /\ write_queue' \in Seq(EntryType)
        /\ Len(write_queue') <= WRITE_QUEUE_CAP
    BY <1>8, <2>2, QueueSafe DEF HandlePingreq
  <2>4. QED
    BY <1>2, <1>8, <2>1, <2>3, ReadPacketSafe DEF HandlePingreq
<1>9. CASE HandlePubrec
  <2> DEFINE pid == Head(acks).pid
             entry == in_flight[pid]
             waiting == [entry EXCEPT !.await_pubcomp = TRUE, !.retries = 0, !.due = FALSE]
             answers == entry # Vacant /\ entry.qos2 /\ ~entry.await_pubcomp
  <2>1. CASE ~answers
    <3>1. UNCHANGED <<in_flight, write_queue>>
      BY <1>9, <2>1 DEF HandlePubrec
    <3>2. Cardinality(Window') <= IN_FLIGHT_CAP /\ RetryListed'
      BY <1>4, <1>9, <3>1, WindowUnchanged DEF HandlePubrec
    <3>3. QED
      BY <1>1, <1>2, <1>9, <3>1, <3>2, ReadPacketSafe DEF HandlePubrec
  <2>2. CASE answers /\ pid \in Pid
    <3>1. /\ in_flight' = [in_flight EXCEPT ![pid] = waiting]
          /\ write_queue' = Queue0(write_queue, Pubrel(pid))
      BY <1>9, <2>2 DEF HandlePubrec
    <3>2. waiting \in InFlightType /\ waiting.retries = 0
      <4>1. entry \in InFlightType /\ entry # Vacant
        BY <1>2, <2>2
      <4>2. QED
        BY <4>1, EntryUpdates
    <3>3. /\ in_flight' \in [Pid -> InFlightType]
          /\ Cardinality(Window') <= IN_FLIGHT_CAP
          /\ RetryListed'
      <4>1. in_flight[pid] # Vacant /\ retry' = retry
        BY <1>4, <1>9, <2>2 DEF HandlePubrec
      <4> HIDE DEF waiting
      <4>2. QED
        BY <3>1, <3>2, <4>1, UpdateSafe
    <3>4. /\ write_queue' \in Seq(EntryType)
          /\ Len(write_queue') <= WRITE_QUEUE_CAP
      <4>1. Pubrel(pid) \in PacketType
        BY <1>5, <1>9 DEF Pubrel, Packet, PacketType, HandlePacket
      <4>2. QED
        BY <3>1, <4>1, QueueSafe
    <3>5. QED
      BY <1>9, <3>3, <3>4, ReadPacketSafe DEF HandlePubrec
  \* pid 0 (a packet id no window entry can have)
  <2>3. CASE answers /\ pid \notin Pid
    <3>1. /\ in_flight' = [in_flight EXCEPT ![pid] = waiting]
          /\ write_queue' = Queue0(write_queue, Pubrel(pid))
      BY <1>9, <2>3 DEF HandlePubrec
    <3>2. in_flight' = in_flight
      <4> HIDE DEF waiting
      <4> QED
        BY <1>2, <2>3, <3>1
    <3>3. Cardinality(Window') <= IN_FLIGHT_CAP /\ RetryListed'
      BY <1>4, <1>9, <3>2, WindowUnchanged DEF HandlePubrec
    <3>4. /\ write_queue' \in Seq(EntryType)
          /\ Len(write_queue') <= WRITE_QUEUE_CAP
      <4>1. Pubrel(pid) \in PacketType
        BY <1>5, <1>9 DEF Pubrel, Packet, PacketType, HandlePacket
      <4>2. QED
        BY <3>1, <4>1, QueueSafe
    <3>5. QED
      BY <1>2, <1>9, <3>2, <3>3, <3>4, ReadPacketSafe DEF HandlePubrec
  <2>4. QED
    BY <2>1, <2>2, <2>3
<1>10. QED
  BY <1>6, <1>7, <1>8, <1>9 DEF HandlePacket

----------------------------------------------------------------------------
(* flush_writes.                                                           *)

\* The end of the batch a write stopped in is at most a batch away.
LEMMA BatchEnd ==
  ASSUME NEW n \in Nat, NEW old \in Nat, old <= BATCH_MAX
  PROVE  LET filled == IF n < old THEN old
                       ELSE old + ((n - old) \div BATCH_MAX + 1) * BATCH_MAX
         IN  filled \in Nat /\ n <= filled /\ old <= filled /\ filled - n <= BATCH_MAX
<1>1. CASE n < old
  BY <1>1, Constants
<1>2. CASE n >= old
  <2> DEFINE x == n - old
             k == x \div BATCH_MAX
             b == k * BATCH_MAX
  <2>1. x \in Nat /\ BATCH_MAX \in Nat \ {0}
    BY <1>2, Constants
  <2> HIDE DEF x
  <2>2. k \in Nat /\ b <= x /\ x < b + BATCH_MAX
    BY <2>1
  <2> HIDE DEF k
  <2>3. b \in Nat /\ (k + 1) * BATCH_MAX = b + BATCH_MAX
    BY <2>1, <2>2
  <2> HIDE DEF b
  <2>4. QED
    BY <1>2, <2>1, <2>2, <2>3, Constants DEF x, k
<1>3. QED
  BY <1>1, <1>2

\* A piece of a sequence.
LEMMA PieceType ==
  ASSUME NEW S, NEW s \in Seq(S), NEW m \in Nat \ {0}, NEW n \in Nat, n <= Len(s)
  PROVE  /\ SubSeq(s, m, n) \in Seq(S)
         /\ Len(SubSeq(s, m, n)) = IF m <= n THEN n - m + 1 ELSE 0
<1>1. Len(s) \in Nat
  BY LenProperties
<1>2. \A i \in m .. n : s[i] \in S
  BY <1>1, ElementOfSeq
<1>3. QED
  BY <1>2, SubSeqProperties

\* The packets of the queue, as the sequence flush_writes concatenates.
LEMMA QueuedPackets ==
  ASSUME NEW q \in Seq(EntryType)
  PROVE  /\ PacketsOf(q) \in Seq(PacketType) /\ Len(PacketsOf(q)) = Len(q)
         /\ \A i \in 1 .. Len(q) : PacketsOf(q)[i] = q[i].pkt
<1>1. Len(q) \in Nat /\ DOMAIN q = 1..Len(q)
  BY LenProperties
<1>2. \A e \in EntryType : e.pkt \in PacketType
  BY DEF EntryType
<1>3. \A i \in 1..Len(q) : q[i].pkt \in PacketType
  BY <1>2, ElementOfSeq
<1>4. QED
  BY <1>1, <1>3 DEF PacketsOf

\* A flush writes the first n of all packets, which the socket has room for, and
\* leaves in the batch those up to position end, at most a batch.
FlushedTo(n, end) ==
  LET old == Len(write_pending)
      all == write_pending \o PacketsOf(write_queue)
  IN  /\ all \in Seq(PacketType) /\ Len(all) = old + Len(write_queue)
      /\ n <= end /\ old <= end /\ end <= Len(all)
      /\ n <= SOCK_CAP - Len(wire) /\ end - n <= BATCH_MAX
      /\ wire' = wire \o SubSeq(all, 1, n)
      /\ write_pending' = SubSeq(all, n + 1, end)
      /\ write_queue' = SubSeq(write_queue, end - old + 1, Len(write_queue))

LEMMA FlushParts ==
  ASSUME IInv, Flush
  PROVE  \E n, end \in Nat : FlushedTo(n, end)
<1> DEFINE old == Len(write_pending)
           all == write_pending \o PacketsOf(write_queue)
           room == SOCK_CAP - Len(wire)
           n == IF Len(all) <= room THEN Len(all) ELSE room
           filled == IF n < old THEN old ELSE old + ((n - old) \div BATCH_MAX + 1) * BATCH_MAX
           end == IF filled <= Len(all) THEN filled ELSE Len(all)
<1>1. /\ wire' = wire \o SubSeq(all, 1, n)
      /\ write_pending' = SubSeq(all, n + 1, end)
      /\ write_queue' = SubSeq(write_queue, end - old + 1, Len(write_queue))
  BY DEF Flush
<1>2. /\ write_queue \in Seq(EntryType)
      /\ write_pending \in Seq(PacketType) /\ old <= BATCH_MAX
      /\ wire \in Seq(PacketType) /\ Len(wire) <= SOCK_CAP
  BY DEF IInv, TypeOK, MemoryBounded
<1>3. Len(write_queue) \in Nat /\ old \in Nat /\ Len(wire) \in Nat
  BY <1>2, LenProperties
<1>4. PacketsOf(write_queue) \in Seq(PacketType) /\ Len(PacketsOf(write_queue)) = Len(write_queue)
  BY <1>2, QueuedPackets
<1>5. all \in Seq(PacketType) /\ Len(all) = old + Len(write_queue)
  <2>1. all \in Seq(PacketType) /\ Len(all) = old + Len(PacketsOf(write_queue))
    BY <1>2, <1>4, ConcatProperties
  <2>2. QED
    BY <1>4, <2>1
<1> HIDE DEF all, old
<1>6. room \in Nat
  BY <1>2, <1>3, Constants
<1>7. n \in Nat /\ n <= Len(all) /\ n <= room
  BY <1>3, <1>5, <1>6
<1> HIDE DEF n
<1>8. filled \in Nat /\ n <= filled /\ old <= filled /\ filled - n <= BATCH_MAX
  BY <1>2, <1>3, <1>7, BatchEnd
<1> HIDE DEF filled
<1>9. end \in Nat /\ n <= end /\ old <= end /\ end <= Len(all) /\ end - n <= BATCH_MAX
  BY <1>3, <1>5, <1>7, <1>8, Constants
<1> HIDE DEF end
<1>10. FlushedTo(n, end)
  BY <1>1, <1>5, <1>7, <1>9 DEF FlushedTo, all, old
<1>11. QED
  BY <1>7, <1>9, <1>10

\* A flush moves a piece to the wire, which has room for it, and leaves at
\* most a batch behind.
LEMMA FlushSafe ==
  ASSUME IInv, Flush
  PROVE  /\ write_queue' \in Seq(EntryType) /\ Len(write_queue') <= WRITE_QUEUE_CAP
         /\ write_pending' \in Seq(PacketType) /\ Len(write_pending') <= BATCH_MAX
         /\ writable' \in BOOLEAN
         /\ wire' \in Seq(PacketType) /\ Len(wire') <= SOCK_CAP
<1>1. PICK n, end \in Nat : FlushedTo(n, end)
  BY FlushParts
<1> DEFINE old == Len(write_pending)
           all == write_pending \o PacketsOf(write_queue)
<1>2. /\ write_queue \in Seq(EntryType) /\ Len(write_queue) <= WRITE_QUEUE_CAP
      /\ write_pending \in Seq(PacketType)
      /\ wire \in Seq(PacketType) /\ Len(wire) <= SOCK_CAP
  BY DEF IInv, TypeOK, MemoryBounded
<1>3. Len(write_queue) \in Nat /\ old \in Nat /\ Len(wire) \in Nat
  BY <1>2, LenProperties
<1>4. /\ all \in Seq(PacketType) /\ Len(all) = old + Len(write_queue)
      /\ n <= end /\ old <= end /\ end <= Len(all)
      /\ n <= SOCK_CAP - Len(wire) /\ end - n <= BATCH_MAX
      /\ wire' = wire \o SubSeq(all, 1, n)
      /\ write_pending' = SubSeq(all, n + 1, end)
      /\ write_queue' = SubSeq(write_queue, end - old + 1, Len(write_queue))
  BY <1>1 DEF FlushedTo
<1> HIDE DEF all, old
<1>5. wire' \in Seq(PacketType) /\ Len(wire') <= SOCK_CAP
  <2> DEFINE w == SubSeq(all, 1, n)
  <2>1. n <= Len(all)
    BY <1>3, <1>4
  <2>2. w \in Seq(PacketType) /\ Len(w) = n
    BY <1>4, <2>1, PieceType
  <2>3. wire' = wire \o w
    BY <1>4
  <2> HIDE DEF w
  <2>4. wire \o w \in Seq(PacketType) /\ Len(wire \o w) = Len(wire) + Len(w)
    BY <1>2, <2>2, ConcatProperties
  <2>5. QED
    BY <1>3, <1>4, <2>2, <2>3, <2>4, Constants
<1>6. write_pending' \in Seq(PacketType) /\ Len(write_pending') <= BATCH_MAX
  <2> DEFINE w == SubSeq(all, n + 1, end)
  <2>1. w \in Seq(PacketType) /\ Len(w) = IF n + 1 <= end THEN end - (n + 1) + 1 ELSE 0
    BY <1>4, PieceType
  <2>2. write_pending' = w
    BY <1>4
  <2> HIDE DEF w
  <2>3. QED
    BY <1>4, <2>1, <2>2, Constants
<1>7. write_queue' \in Seq(EntryType) /\ Len(write_queue') <= WRITE_QUEUE_CAP
  <2> DEFINE m == end - old + 1
             w == SubSeq(write_queue, m, Len(write_queue))
  <2>1. m \in Nat \ {0}
    BY <1>3, <1>4
  <2>2. write_queue' = w
    BY <1>4
  <2> HIDE DEF m
  <2>3. w \in Seq(EntryType)
        /\ Len(w) = IF m <= Len(write_queue) THEN Len(write_queue) - m + 1 ELSE 0
    BY <1>2, <1>3, <2>1, PieceType
  <2> HIDE DEF w
  <2>4. QED
    BY <1>2, <1>3, <2>1, <2>2, <2>3, Constants
<1>8. writable' \in BOOLEAN
  BY DEF Flush
<1>9. QED
  BY <1>5, <1>6, <1>7, <1>8

\* Whatever else a step does to the loop's locals, one that flushes or leaves
\* the client alone keeps the invariant.
LEMMA FlushOrNotSafe ==
  ASSUME IInv,
         Flush \/ UNCHANGED <<write_queue, write_pending, writable, wire>>
               \/ (writable' = FALSE /\ UNCHANGED <<write_queue, write_pending, wire>>),
         UNCHANGED <<connected, in_flight, next_pid, keepalive, subscriber, acks, fwd>>,
         pc' \in Phase, pending' \in BOOLEAN, dead' \in BOOLEAN,
         retry' = retry, give_up' \in SUBSET Pid
  PROVE  IInv'
<1>1. /\ write_queue' \in Seq(EntryType) /\ Len(write_queue') <= WRITE_QUEUE_CAP
      /\ write_pending' \in Seq(PacketType) /\ Len(write_pending') <= BATCH_MAX
      /\ writable' \in BOOLEAN
      /\ wire' \in Seq(PacketType) /\ Len(wire') <= SOCK_CAP
  <2>1. CASE Flush
    BY <2>1, FlushSafe
  <2>2. CASE ~Flush
    BY <2>2 DEF IInv, TypeOK, MemoryBounded
  <2>3. QED
    BY <2>1, <2>2
<1>2. Cardinality(Window') <= IN_FLIGHT_CAP /\ RetryListed'
  BY WindowUnchanged
<1>3. TypeOK'
  BY <1>1 DEF IInv, TypeOK, subscriber
<1>4. MemoryBounded'
  BY <1>1, <1>2 DEF MemoryBounded
<1>5. QED
  BY <1>2, <1>3, <1>4 DEF IInv

----------------------------------------------------------------------------
(* The turn of the main loop.                                              *)

\* The scan lists at most one packet per id, and only ids with a retry left.
LEMMA ScanSafe ==
  ASSUME IInv, Scan
  PROVE  IInv'
<1> DEFINE Retried == {p \in Due : MayRetry(p)}
<1>1. Retried \subseteq Pid /\ Due \subseteq Pid
  BY DEF Due, Window, InUse
<1>2. \A p \in Pid : Retransmission(p).pid = p
  BY DEF Retransmission, Packet
<1>3. \A p \in Due : Retransmission(p) \in PacketType
  <2>1. SUFFICES ASSUME NEW p \in Due PROVE Retransmission(p) \in PacketType
    OBVIOUS
  <2>2. p \in 0..MAX_PID
    BY <1>1, Constants DEF Pid
  <2>3. in_flight[p] \in InFlightType /\ in_flight[p] # Vacant
    BY <1>1 DEF IInv, TypeOK, Due, Window, InUse
  <2>4. in_flight[p].msg \in Msg
    BY <2>3 DEF InFlightType
  <2>5. QED
    BY <2>2, <2>4 DEF Retransmission, Packet, PacketType
<1>4. retry' = {Retransmission(p) : p \in Retried}
  BY DEF Scan
<1>5. TypeOK'
  <2>1. retry' \in SUBSET PacketType
    BY <1>3, <1>4
  <2>2. give_up' \in SUBSET Pid
    BY <1>1 DEF Scan
  <2>3. /\ pc' \in Phase /\ pending' \in BOOLEAN /\ dead' \in BOOLEAN
    BY DEF IInv, TypeOK, Scan, Phase
  <2>4. QED
    BY <2>1, <2>2, <2>3 DEF IInv, TypeOK, Scan, client, subscriber
<1>6. MemoryBounded'
  BY DEF IInv, MemoryBounded, Scan, client, Window, InUse
<1>7. RetryListed'
  <2>1. ASSUME NEW pkt \in retry'
        PROVE  pkt.pid \in Pid /\ in_flight'[pkt.pid].retries < QOS1_MAX_RETRIES
    <3>1. PICK p \in Retried : pkt = Retransmission(p)
      BY <1>4
    <3>2. pkt.pid = p /\ p \in Pid
      BY <1>1, <1>2, <3>1
    <3>3. QED
      BY <3>1, <3>2 DEF MayRetry, Scan, client
  <2>2. \A a, b \in retry' : a.pid = b.pid => a = b
    BY <1>1, <1>2, <1>4
  <2>3. QED
    BY <2>1, <2>2 DEF RetryListed
<1>8. QED
  BY <1>5, <1>6, <1>7 DEF IInv

\* Retransmitting one packet spends a retry of its entry and takes the packet
\* off the list.
LEMMA RetrySafe ==
  ASSUME IInv, NEW pkt \in retry, Retry(pkt)
  PROVE  IInv'
<1>1. retry' = retry \ {pkt} /\ retry' \subseteq retry
  BY DEF Retry
<1>2. pkt.pid \in Pid /\ in_flight[pkt.pid].retries < QOS1_MAX_RETRIES
  BY DEF IInv, RetryListed
<1>3. CASE ~Accepts1(write_queue)
  <2>1. NoClient
    BY <1>3 DEF Retry
  <2>2. TypeOK'
    BY <1>1, <2>1, NoClientSafe DEF IInv, TypeOK, Retry
  <2>3. QED
    BY <1>1, <2>1, <2>2, NoClientSafe DEF IInv
<1>4. CASE Accepts1(write_queue)
  <2>1. /\ write_queue' \in Seq(EntryType)
        /\ Len(write_queue') <= WRITE_QUEUE_CAP
    <3>1. pkt \in PacketType
      BY DEF IInv, TypeOK
    <3>2. QED
      BY <1>4, <3>1, QueueSafe DEF Retry
  <2>2. in_flight \in [Pid -> InFlightType]
    BY DEF IInv, TypeOK
  <2>3. /\ in_flight' \in [Pid -> InFlightType]
        /\ InUse(in_flight', Vacant) \subseteq InUse(in_flight, Vacant)
        /\ \A p \in Pid : p # pkt.pid => in_flight'[p] = in_flight[p]
    <3>1. CASE in_flight[pkt.pid] = Vacant
      BY <1>4, <2>2, <3>1 DEF Retry, InUse
    <3>2. CASE in_flight[pkt.pid] # Vacant
      <4> DEFINE e == in_flight[pkt.pid]
                 w == [e EXCEPT !.due = FALSE, !.retries = @ + 1]
      <4>1. in_flight' = [in_flight EXCEPT ![pkt.pid] = w]
        BY <1>2, <1>4, <2>2, <3>2 DEF Retry
      <4>2. w \in InFlightType
        <5>1. e \in InFlightType /\ e # Vacant /\ e.retries < QOS1_MAX_RETRIES
          BY <1>2, <2>2, <3>2
        <5>2. QED
          BY <5>1, EntryRetried
      <4> HIDE DEF w
      <4>3. QED
        BY <1>2, <2>2, <3>2, <4>1, <4>2 DEF InUse
    <3>3. QED
      BY <3>1, <3>2
  <2>4. Cardinality(Window') <= IN_FLIGHT_CAP
    BY <2>3, WindowShrinks DEF IInv, MemoryBounded, Window
  <2>5. RetryListed'
    <3>1. \A a \in retry' : a.pid # pkt.pid
      BY <1>1 DEF IInv, RetryListed
    <3>2. QED
      BY <1>1, <2>3, <3>1 DEF IInv, RetryListed
  <2>6. TypeOK'
    BY <1>1, <1>4, <2>1, <2>3 DEF IInv, TypeOK, Retry
  <2>7. MemoryBounded'
    BY <1>4, <2>1, <2>4 DEF IInv, MemoryBounded, Retry
  <2>8. QED
    BY <2>5, <2>6, <2>7 DEF IInv
<1>5. QED
  BY <1>3, <1>4

\* One turn of the loop.
LEMMA TurnSafe ==
  ASSUME IInv, Turn
  PROVE  IInv'
<1>1. TypeOK
  BY DEF IInv
<1>2. CASE Scan
  BY <1>2, ScanSafe
<1>3. CASE FlushPending
  BY <1>1, <1>3, FlushOrNotSafe DEF FlushPending, TypeOK, Phase
<1>4. CASE SweepDone
  BY <1>1, <1>4, FlushOrNotSafe DEF SweepDone, TypeOK, Phase, client
<1>5. CASE FlushPending2
  BY <1>1, <1>5, FlushOrNotSafe DEF FlushPending2, TypeOK, Phase
<1>6. CASE RemoveDead
  <2>1. CASE dead /\ connected
    <3>1. NoClient /\ retry' \subseteq retry
      BY <1>6, <2>1 DEF RemoveDead
    <3>2. TypeOK'
      BY <1>1, <1>6, <3>1, NoClientSafe DEF RemoveDead, TypeOK, Phase
    <3>3. QED
      BY <3>1, <3>2, NoClientSafe DEF IInv
  <2>2. CASE ~(dead /\ connected)
    BY <1>1, <1>6, <2>2, FlushOrNotSafe DEF RemoveDead, TypeOK, Phase, client, subscriber
  <2>3. QED
    BY <2>1, <2>2
<1>7. CASE \E pkt \in retry : Retry(pkt)
  BY <1>7, RetrySafe
<1>8. CASE RetryDone
  <2>1. retry' \subseteq retry
    BY <1>8 DEF RetryDone
  <2>2. Cardinality(Window') <= IN_FLIGHT_CAP /\ RetryListed'
    BY <1>8, <2>1, WindowUnchanged DEF RetryDone, client
  <2>3. TypeOK'
    BY <1>1, <1>8 DEF RetryDone, TypeOK, Phase, client, subscriber
  <2>4. MemoryBounded'
    BY <1>8, <2>2 DEF IInv, MemoryBounded, RetryDone, client
  <2>5. QED
    BY <2>2, <2>3, <2>4 DEF IInv
<1>9. CASE GiveUp
  <2>1. CASE give_up # {} /\ connected
    <3>1. NoClient /\ retry' \subseteq retry
      BY <1>9, <2>1 DEF GiveUp
    <3>2. TypeOK'
      BY <1>1, <1>9, <3>1, NoClientSafe DEF GiveUp, TypeOK, Phase
    <3>3. QED
      BY <3>1, <3>2, NoClientSafe DEF IInv
  <2>2. CASE ~(give_up # {} /\ connected)
    BY <1>1, <1>9, <2>2, FlushOrNotSafe DEF GiveUp, TypeOK, Phase, client, subscriber
  <2>3. QED
    BY <2>1, <2>2
<1>10. QED
  BY <1>2, <1>3, <1>4, <1>5, <1>6, <1>7, <1>8, <1>9 DEF Turn

----------------------------------------------------------------------------
(* Time and the subscriber.                                                *)

\* The retransmission timer of one entry.
LEMMA RetryElapseSafe ==
  ASSUME IInv, NEW p \in Pid, RetryElapse(p)
  PROVE  IInv'
<1> DEFINE w == [in_flight[p] EXCEPT !.due = TRUE]
<1>1. in_flight \in [Pid -> InFlightType] /\ in_flight[p] # Vacant
  BY DEF IInv, TypeOK, RetryElapse
<1>2. in_flight' = [in_flight EXCEPT ![p] = w]
  BY <1>1 DEF RetryElapse
<1>3. w \in InFlightType /\ w.retries = in_flight[p].retries
  <2>1. in_flight[p] \in InFlightType
    BY <1>1
  <2>2. QED
    BY <1>1, <2>1, EntryDue
<1> HIDE DEF w
<1>4. /\ in_flight' \in [Pid -> InFlightType]
      /\ Cardinality(Window') <= IN_FLIGHT_CAP
      /\ RetryListed'
  BY <1>1, <1>2, <1>3, UpdateSafe DEF RetryElapse, loop
<1>5. TypeOK'
  BY <1>4 DEF IInv, TypeOK, RetryElapse, loop, subscriber
<1>6. MemoryBounded'
  BY <1>4 DEF IInv, MemoryBounded, RetryElapse
<1>7. QED
  BY <1>4, <1>5, <1>6 DEF IInv

\* The keepalive timer, the subscriber's reads and its pings.
LEMMA EnvironmentSafe ==
  ASSUME IInv, KeepaliveElapse \/ SubscriberRead \/ SubscriberPing
  PROVE  IInv'
<1>1. Cardinality(Window') <= IN_FLIGHT_CAP /\ RetryListed'
  BY WindowUnchanged DEF KeepaliveElapse, SubscriberRead, SubscriberPing, client, loop
<1>2. CASE KeepaliveElapse
  <2>1. TypeOK'
    BY <1>2 DEF IInv, TypeOK, KeepaliveElapse, loop, subscriber
  <2>2. MemoryBounded'
    BY <1>1, <1>2 DEF IInv, MemoryBounded, KeepaliveElapse
  <2>3. QED
    BY <1>1, <2>1, <2>2 DEF IInv
<1>3. CASE SubscriberRead
  <2> DEFINE pkt == Head(wire)
  <2>1. /\ wire \in Seq(PacketType) /\ wire # <<>> /\ Len(wire) <= SOCK_CAP
        /\ acks \in Seq(AckType)
    BY <1>3 DEF IInv, TypeOK, MemoryBounded, SubscriberRead
  <2>2. /\ pkt \in PacketType /\ Tail(wire) \in Seq(PacketType)
        /\ Len(Tail(wire)) = Len(wire) - 1
    BY <2>1, HeadTailProperties
  <2>3. Len(wire') <= SOCK_CAP /\ wire' \in Seq(PacketType)
    <3>1. Len(wire) \in Nat
      BY <2>1, LenProperties
    <3>2. wire' = Tail(wire)
      BY <1>3 DEF SubscriberRead
    <3>3. Len(wire') = Len(wire) - 1
      BY <2>2, <3>2
    <3>4. QED
      BY <2>1, <2>2, <3>1, <3>2, <3>3, Constants
  <2>4. /\ pkt.pid \in 0..MAX_PID
        /\ pkt.type = "PUBLISH" => pkt.msg \in Msg /\ pkt.qos \in 0..2
    BY <2>2 DEF PacketType
  <2>5. \A t \in {"PUBACK", "PUBREC", "PUBCOMP"} :
           Append(acks, Ack(t, pkt.pid)) \in Seq(AckType)
    <3>1. \A t \in {"PUBACK", "PUBREC", "PUBCOMP"} : Ack(t, pkt.pid) \in AckType
      BY <2>4 DEF Ack, AckType
    <3>2. QED
      BY <2>1, <3>1, AppendProperties
  <2>6. /\ held' \in SUBSET (0..MAX_PID) /\ got' \in SUBSET Msg /\ twice' \in SUBSET Msg
        /\ acks' \in Seq(AckType)
    <3>1. held \in SUBSET (0..MAX_PID) /\ got \in SUBSET Msg /\ twice \in SUBSET Msg
      BY DEF IInv, TypeOK
    <3> HIDE DEF pkt
    <3>2. CASE ReadPublish(pkt)
      BY <2>1, <2>4, <2>5, <3>1, <3>2 DEF ReadPublish
    <3>3. CASE ReadPubrel(pkt)
      BY <2>5, <3>1, <3>3 DEF ReadPubrel
    <3>4. CASE ReadPingresp(pkt)
      BY <2>1, <3>1, <3>4 DEF ReadPingresp
    <3>5. QED
      BY <1>3, <3>2, <3>3, <3>4 DEF SubscriberRead, pkt
  <2>7. TypeOK'
    BY <1>3, <2>3, <2>6 DEF IInv, TypeOK, SubscriberRead, client, loop
  <2>8. MemoryBounded'
    BY <1>1, <1>3, <2>3 DEF IInv, MemoryBounded, SubscriberRead, client
  <2>9. QED
    BY <1>1, <2>7, <2>8 DEF IInv
<1>4. CASE SubscriberPing
  <2>1. acks' \in Seq(AckType)
    <3>1. Ack("PINGREQ", 0) \in AckType /\ acks \in Seq(AckType)
      BY Constants DEF Ack, AckType, IInv, TypeOK
    <3>2. QED
      BY <1>4, <3>1, AppendProperties DEF SubscriberPing
  <2>2. TypeOK'
    BY <1>4, <2>1 DEF IInv, TypeOK, SubscriberPing, client, loop, subscriber
  <2>3. MemoryBounded'
    BY <1>1, <1>4 DEF IInv, MemoryBounded, SubscriberPing, client
  <2>4. QED
    BY <1>1, <2>2, <2>3 DEF IInv
<1>5. QED
  BY <1>2, <1>3, <1>4

----------------------------------------------------------------------------
(* The theorems.                                                           *)

\* Every step of the connection keeps the invariant.
LEMMA StepSafe == IInv /\ [Next]_vars => IInv'
<1>1. SUFFICES ASSUME IInv, [Next]_vars PROVE IInv'
  OBVIOUS
<1>2. CASE \E m \in Msg : DeliverTo(m)
  <2>1. PICK m \in Msg : DeliverTo(m)
    BY <1>2
  <2>2. CASE DeliverQos0(m)
    BY <1>1, <2>2, DeliverQos0Safe
  <2>3. CASE \E qos \in FWD_QOS \cap {1, 2} : DeliverReliable(m, qos)
    BY <1>1, <2>3, DeliverReliableSafe
  <2>4. CASE DeliverOverflow(m)
    BY <1>1, <2>4, DropSafe DEF DeliverOverflow
  <2>5. QED
    BY <2>1, <2>2, <2>3, <2>4 DEF DeliverTo
<1>3. CASE HandlePacket
  BY <1>1, <1>3, HandlePacketSafe
<1>4. CASE Disconnect
  BY <1>1, <1>4, DropSafe DEF Disconnect
<1>5. CASE WritableEvent
  BY <1>1, <1>5, FlushOrNotSafe DEF WritableEvent, IInv, TypeOK, loop
<1>6. CASE Turn
  BY <1>1, <1>6, TurnSafe
<1>7. CASE \E p \in Pid : RetryElapse(p)
  BY <1>1, <1>7, RetryElapseSafe
<1>8. CASE KeepaliveElapse \/ SubscriberRead \/ SubscriberPing
  BY <1>1, <1>8, EnvironmentSafe
<1>9. CASE UNCHANGED vars
  BY <1>1, <1>9 DEF IInv, TypeOK, MemoryBounded, RetryListed, Window, InUse,
                    vars, client, loop, subscriber
<1>10. QED
  BY <1>1, <1>2, <1>3, <1>4, <1>5, <1>6, <1>7, <1>8, <1>9 DEF Next

\* The inductive invariant holds in every reachable state.
THEOREM Inductive == Spec => []IInv
<1>1. QED
  BY InitIInv, StepSafe, PTL DEF Spec

\* Type correctness.
THEOREM TypeCorrect == Spec => []TypeOK
<1>1. IInv => TypeOK
  BY DEF IInv
<1>2. QED
  BY <1>1, Inductive, PTL

\* The write queue, the in-flight window, the batch and the socket stay within
\* their capacities, whatever the subscriber does and however retransmissions,
\* handshakes and forwards interleave.
THEOREM BuffersBounded == Spec => []MemoryBounded
<1>1. IInv => MemoryBounded
  BY DEF IInv
<1>2. QED
  BY <1>1, Inductive, PTL

\* No retransmission on the list ever exceeds its budget, although the list
\* is worked off after acknowledgements and new messages have changed the
\* window it was taken from.
THEOREM RetriesBounded == Spec => []RetryListed
<1>1. IInv => RetryListed
  BY DEF IInv
<1>2. QED
  BY <1>1, Inductive, PTL

----------------------------------------------------------------------------
(* One stream of reliable packets.                                         *)

\* Entries that eviction may take hold no reliable packet.
FlaggedEntry == {e \in EntryType : ~e.rel => e.pkt \notin Reliable}
FlagOK == write_queue \in Seq(FlaggedEntry)

\* The reliable packets of a sequence of packets, and those of a queue.
Rel(s) == Only(s, Reliable)
Carried(q) == Rel(PacketsOf(q))

\* The packets of a concatenation.
LEMMA PacketsConcat ==
  ASSUME NEW q \in Seq(EntryType), NEW r \in Seq(EntryType)
  PROVE  PacketsOf(q \o r) = PacketsOf(q) \o PacketsOf(r)
<1> DEFINE w == q \o r
           a == PacketsOf(q)
           b == PacketsOf(r)
<1>1. Len(q) \in Nat /\ Len(r) \in Nat
  BY LenProperties
<1>2. /\ w \in Seq(EntryType) /\ Len(w) = Len(q) + Len(r)
      /\ \A i \in 1 .. Len(q) + Len(r) : w[i] = IF i <= Len(q) THEN q[i] ELSE r[i - Len(q)]
  BY ConcatProperties
<1>3. /\ a \in Seq(PacketType) /\ Len(a) = Len(q) /\ \A i \in 1 .. Len(q) : a[i] = q[i].pkt
      /\ b \in Seq(PacketType) /\ Len(b) = Len(r) /\ \A i \in 1 .. Len(r) : b[i] = r[i].pkt
  BY QueuedPackets
<1> HIDE DEF w
<1>4. /\ PacketsOf(w) \in Seq(PacketType) /\ Len(PacketsOf(w)) = Len(w)
      /\ \A i \in 1 .. Len(w) : PacketsOf(w)[i] = w[i].pkt
  BY <1>2, QueuedPackets
<1> HIDE DEF a, b
<1>5. /\ a \o b \in Seq(PacketType) /\ Len(a \o b) = Len(a) + Len(b)
      /\ \A i \in 1 .. Len(a) + Len(b) : (a \o b)[i] = IF i <= Len(a) THEN a[i] ELSE b[i - Len(a)]
  <2>1. a \in Seq(PacketType) /\ b \in Seq(PacketType)
    BY <1>3
  <2>2. QED
    BY <2>1, ConcatProperties
<1>6. ASSUME NEW i \in 1 .. Len(w) PROVE PacketsOf(w)[i] = (a \o b)[i]
  <2>1. CASE i <= Len(q)
    BY <1>1, <1>2, <1>3, <1>4, <1>5, <2>1
  <2>2. CASE i > Len(q)
    <3>1. i - Len(q) \in 1 .. Len(r)
      BY <1>1, <1>2, <2>2
    <3>2. (a \o b)[i] = b[i - Len(q)]
      BY <1>1, <1>2, <1>3, <1>5, <2>2
    <3>3. w[i] = r[i - Len(q)]
      BY <1>1, <1>2, <2>2
    <3>4. QED
      BY <1>3, <1>4, <3>1, <3>2, <3>3
  <2>3. QED
    <3>1. i <= Len(q) \/ i > Len(q)
      BY <1>1, <1>2
    <3>2. QED
      BY <2>1, <2>2, <3>1
<1>7. PacketsOf(w) = a \o b
  BY <1>2, <1>3, <1>4, <1>5, <1>6, SeqEqual
<1>8. QED
  BY <1>7 DEF w, a, b

\* Reliable packets of any part are packets.
LEMMA RelType ==
  ASSUME NEW s \in Seq(PacketType)
  PROVE  Rel(s) \in Seq(PacketType)
<1>1. Rel(s) \in Seq(PacketType \cap Reliable)
  BY OnlyType DEF Rel
<1>2. QED
  BY <1>1, SeqMonotonic

\* Three runs of packets, however bracketed.
LEMMA ThreeParts ==
  ASSUME NEW x \in Seq(PacketType), NEW y \in Seq(PacketType), NEW z \in Seq(PacketType)
  PROVE  (x \o y) \o z = x \o (y \o z)
BY ConcatAssociative

\* The reliable packets of a concatenation.
LEMMA RelConcat ==
  ASSUME NEW s \in Seq(PacketType), NEW t \in Seq(PacketType)
  PROVE  Rel(s \o t) = Rel(s) \o Rel(t)
BY OnlyConcat DEF Rel

\* What a concatenation of queues carries.
LEMMA CarriedConcat ==
  ASSUME NEW q \in Seq(EntryType), NEW r \in Seq(EntryType)
  PROVE  /\ Carried(q \o r) = Carried(q) \o Carried(r)
         /\ Carried(q) \in Seq(PacketType)
<1>1. PacketsOf(q) \in Seq(PacketType) /\ PacketsOf(r) \in Seq(PacketType)
  BY QueuedPackets
<1>2. PacketsOf(q \o r) = PacketsOf(q) \o PacketsOf(r)
  BY PacketsConcat
<1>3. Rel(PacketsOf(q) \o PacketsOf(r)) = Rel(PacketsOf(q)) \o Rel(PacketsOf(r))
  BY <1>1, OnlyConcat DEF Rel
<1>4. QED
  BY <1>1, <1>2, <1>3, RelType DEF Carried

\* What a single entry carries.
LEMMA CarriedSingle ==
  ASSUME NEW e \in EntryType
  PROVE  Carried(<<e>>) = IF e.pkt \in Reliable THEN <<e.pkt>> ELSE <<>>
<1>1. PacketsOf(<<e>>) = <<e.pkt>>
  <2> DEFINE q == <<e>>
  <2>1. q \in Seq(EntryType) /\ Len(q) = 1 /\ q[1] = e
    OBVIOUS
  <2> HIDE DEF q
  <2>2. DOMAIN q = 1 .. 1
    BY <2>1, LenProperties
  <2>3. PacketsOf(q) = [i \in 1 .. 1 |-> q[i].pkt]
    BY <2>2 DEF PacketsOf
  <2>4. [i \in 1 .. 1 |-> q[i].pkt] = <<e.pkt>>
    BY <2>1
  <2>5. QED
    BY <2>3, <2>4 DEF q
<1>2. QED
  BY <1>1, OnlySingle DEF Carried, Rel

\* What a queue carries with one entry more.
LEMMA CarriedAppend ==
  ASSUME NEW q \in Seq(EntryType), NEW e \in EntryType
  PROVE  Carried(Append(q, e)) =
           IF e.pkt \in Reliable THEN Append(Carried(q), e.pkt) ELSE Carried(q)
<1> DEFINE t == <<e>>
<1>1. t \in Seq(EntryType) /\ Append(q, e) = q \o t
  BY AppendIsConcat
<1>2. Carried(t) = IF e.pkt \in Reliable THEN <<e.pkt>> ELSE <<>>
  BY CarriedSingle
<1> HIDE DEF t
<1>3. Carried(q \o t) = Carried(q) \o Carried(t) /\ Carried(q) \in Seq(PacketType)
  BY <1>1, CarriedConcat
<1>4. e.pkt \in PacketType
  BY DEF EntryType
<1>5. Carried(q) \o <<e.pkt>> = Append(Carried(q), e.pkt) /\ Carried(q) \o <<>> = Carried(q)
  BY <1>3, <1>4, AppendIsConcat, ConcatEmptySeq
<1>6. QED
  BY <1>1, <1>2, <1>3, <1>5

\* A queue of flagged entries is a queue.
LEMMA FlaggedIsQueue == \A q \in Seq(FlaggedEntry) : q \in Seq(EntryType)
<1>1. FlaggedEntry \subseteq EntryType
  BY DEF FlaggedEntry
<1>2. QED
  BY <1>1, SeqMonotonic

\* Eviction takes nothing that is reliable.
LEMMA EvictSpares ==
  ASSUME NEW q \in Seq(FlaggedEntry), Accepts1(q)
  PROVE  Evict(q) \in Seq(FlaggedEntry) /\ Carried(Evict(q)) = Carried(q)
<1>1. q \in Seq(EntryType) /\ q \in QueueOf(PacketType)
  BY FlaggedIsQueue, EntryIsQueued
<1>2. CASE Accepts0(q)
  BY <1>2 DEF Evict
<1>3. CASE ~Accepts0(q)
  <2> DEFINE k == FirstQos0(q)
             e == <<q[k]>>
             a == SubSeq(q, 1, k - 1)
             b == SubSeq(q, k + 1, Len(q))
  <2>1. k \in 1 .. Len(q) /\ ~q[k].rel
    BY <1>1, <1>3, FirstQos0Found DEF Accepts1
  <2> HIDE DEF k
  <2>2. q[k] \in FlaggedEntry /\ Len(q) \in Nat
    BY <2>1, ElementOfSeq, LenProperties
  <2>3. e \in Seq(EntryType) /\ Carried(e) = <<>>
    <3>1. q[k] \in EntryType /\ q[k].pkt \notin Reliable
      BY <2>1, <2>2 DEF FlaggedEntry
    <3> DEFINE x == q[k]
    <3>2. x \in EntryType /\ x.pkt \notin Reliable
      BY <3>1
    <3>3. e = <<x>>
      OBVIOUS
    <3> HIDE DEF x, e
    <3>4. Carried(<<x>>) = <<>>
      BY <3>2, CarriedSingle
    <3>5. <<x>> \in Seq(EntryType)
      BY <3>2
    <3>6. QED
      BY <3>3, <3>4, <3>5
  <2>4. a \in Seq(EntryType) /\ b \in Seq(EntryType)
    <3>1. \A i \in 1 .. Len(q) : q[i] \in EntryType
      BY <1>1, ElementOfSeq
    <3>2. (\A i \in 1 .. k - 1 : q[i] \in EntryType) /\ (\A i \in k + 1 .. Len(q) : q[i] \in EntryType)
      BY <2>1, <2>2, <3>1
    <3>3. QED
      BY <2>1, <2>2, <3>2, SubSeqProperties
  <2>5. q = a \o (e \o b)
    <3>1. 1 \in 1 .. Len(q) + 1 /\ k - 1 \in 1 - 1 .. Len(q) /\ Len(q) \in k - 1 .. Len(q)
          /\ (k - 1) + 1 = k /\ Len(q) \in k .. Len(q)
      BY <2>1, <2>2
    <3>2. a \o SubSeq(q, (k - 1) + 1, Len(q)) = SubSeq(q, 1, Len(q))
      BY <1>1, <3>1, ConcatAdjacentSubSeq
    <3>3. SubSeq(q, k, Len(q)) = e \o b
      BY <1>1, <2>1, <3>1, SubSeqRecursiveFirst
    <3>4. SubSeq(q, 1, Len(q)) = q
      BY SubSeqFull
    <3>5. QED
      BY <3>1, <3>2, <3>3, <3>4
  <2>6. Evict(q) = a \o b
    BY <1>3 DEF Evict, DropAt, k
  <2>7. Evict(q) \in Seq(FlaggedEntry)
    BY <1>3, <2>1, DropAtShorter DEF Evict, k
  <2> HIDE DEF a, b, e
  <2>8. e \o b \in Seq(EntryType)
    BY <2>3, <2>4, ConcatProperties
  <2>9. Carried(q) = Carried(a) \o (Carried(e) \o Carried(b))
    <3>1. Carried(a \o (e \o b)) = Carried(a) \o Carried(e \o b)
      BY <2>4, <2>8, CarriedConcat
    <3>2. Carried(e \o b) = Carried(e) \o Carried(b)
      BY <2>3, <2>4, CarriedConcat
    <3>3. QED
      BY <2>5, <3>1, <3>2
  <2>10. Carried(a \o b) = Carried(a) \o Carried(b) /\ Carried(b) \in Seq(PacketType)
    BY <2>4, CarriedConcat
  <2>11. <<>> \o Carried(b) = Carried(b)
    BY <2>10, ConcatEmptySeq
  <2>12. QED
    BY <2>3, <2>6, <2>7, <2>9, <2>10, <2>11
<1>4. QED
  BY <1>2, <1>3

\* queue_qos0 of an unreliable packet, and queue_qos1.
LEMMA QueueCarries ==
  ASSUME NEW q \in Seq(FlaggedEntry), NEW pkt \in PacketType
  PROVE  /\ pkt \notin Reliable =>
              Queue0(q, pkt) \in Seq(FlaggedEntry) /\ Carried(Queue0(q, pkt)) = Carried(q)
         /\ Accepts1(q) =>
              /\ Queue1(q, pkt) \in Seq(FlaggedEntry)
              /\ Carried(Queue1(q, pkt)) =
                   IF pkt \in Reliable THEN Append(Carried(q), pkt) ELSE Carried(q)
<1>1. /\ Queued(TRUE, pkt) \in FlaggedEntry /\ Queued(TRUE, pkt).pkt = pkt
      /\ Queued(FALSE, pkt) \in EntryType /\ Queued(FALSE, pkt).pkt = pkt
      /\ pkt \notin Reliable => Queued(FALSE, pkt) \in FlaggedEntry
      /\ Queued(TRUE, pkt) \in EntryType
  BY DEF Queued, FlaggedEntry, EntryType
<1>2. ASSUME pkt \notin Reliable
      PROVE  Queue0(q, pkt) \in Seq(FlaggedEntry) /\ Carried(Queue0(q, pkt)) = Carried(q)
  <2> DEFINE e == Queued(FALSE, pkt)
  <2>1. e \in EntryType /\ e \in FlaggedEntry /\ e.pkt = pkt /\ q \in Seq(EntryType)
    BY <1>1, <1>2, FlaggedIsQueue
  <2> HIDE DEF e
  <2>2. Append(q, e) \in Seq(FlaggedEntry)
    BY <2>1, AppendProperties
  <2>3. Carried(Append(q, e)) = Carried(q)
    BY <1>2, <2>1, CarriedAppend
  <2>4. QED
    BY <2>2, <2>3 DEF Queue0, e
<1>3. ASSUME Accepts1(q)
      PROVE  /\ Queue1(q, pkt) \in Seq(FlaggedEntry)
             /\ Carried(Queue1(q, pkt)) =
                  IF pkt \in Reliable THEN Append(Carried(q), pkt) ELSE Carried(q)
  <2> DEFINE e == Queued(TRUE, pkt)
             r == Evict(q)
  <2>1. e \in EntryType /\ e \in FlaggedEntry /\ e.pkt = pkt
    BY <1>1
  <2>2. r \in Seq(FlaggedEntry) /\ Carried(r) = Carried(q)
    BY <1>3, EvictSpares
  <2>3. Queue1(q, pkt) = Append(r, e)
    BY DEF Queue1
  <2> HIDE DEF e, r
  <2>4. Append(r, e) \in Seq(FlaggedEntry)
    BY <2>1, <2>2, AppendProperties
  <2>5. r \in Seq(EntryType)
    BY <2>2, FlaggedIsQueue
  <2>6. Carried(Append(r, e)) = IF pkt \in Reliable THEN Append(Carried(q), pkt) ELSE Carried(q)
    BY <2>1, <2>2, <2>5, CarriedAppend
  <2>7. QED
    BY <2>3, <2>4, <2>6
<1>4. QED
  BY <1>2, <1>3

\* The stream, as a value: wire, batch and queue one behind the other.
StreamOf(w, p, q) == Only(w \o p \o PacketsOf(q), Reliable)

LEMMA StreamParts ==
  ASSUME NEW w \in Seq(PacketType), NEW p \in Seq(PacketType), NEW q \in Seq(EntryType)
  PROVE  /\ StreamOf(w, p, q) = Rel(w \o p) \o Carried(q)
         /\ Rel(w \o p) \in Seq(PacketType) /\ Carried(q) \in Seq(PacketType)
         /\ StreamOf(w, p, q) \in Seq(PacketType)
<1>1. w \o p \in Seq(PacketType) /\ PacketsOf(q) \in Seq(PacketType)
  BY ConcatProperties, QueuedPackets
<1>2. Rel(w \o p) \in Seq(PacketType) /\ Carried(q) \in Seq(PacketType)
  BY <1>1, RelType DEF Carried
<1>3. StreamOf(w, p, q) = Rel(w \o p) \o Carried(q)
  <2> DEFINE u == w \o p
             v == PacketsOf(q)
  <2>1. u \in Seq(PacketType) /\ v \in Seq(PacketType)
    BY <1>1
  <2> HIDE DEF u, v
  <2>2. Only(u \o v, Reliable) = Only(u, Reliable) \o Only(v, Reliable)
    BY <2>1, OnlyConcat, SMTT(30)
  <2>3. QED
    BY <2>2 DEF StreamOf, Rel, Carried, u, v
<1>4. QED
  BY <1>2, <1>3, ConcatProperties

\* A stream is a prefix of itself, and of itself with a packet more.
LEMMA PrefixOf ==
  ASSUME NEW s \in Seq(PacketType)
  PROVE  IsPrefix(s, s) /\ \A e \in PacketType : IsPrefix(s, Append(s, e))
<1>1. Len(s) \in Nat /\ \A i \in 1 .. Len(s) : s[i] \in PacketType
  BY LenProperties, ElementOfSeq
<1>2. IsPrefix(s, s)
  BY <1>1 DEF IsPrefix
<1>3. ASSUME NEW e \in PacketType PROVE IsPrefix(s, Append(s, e))
  <2> DEFINE r == Append(s, e)
  <2>1. r \in Seq(PacketType) /\ Len(r) = Len(s) + 1 /\ \A i \in 1 .. Len(s) : r[i] = s[i]
    BY AppendProperties
  <2> HIDE DEF r
  <2>2. /\ SubSeq(s, 1, Len(s)) = s
        /\ SubSeq(r, 1, Len(s)) \in Seq(PacketType) /\ Len(SubSeq(r, 1, Len(s))) = Len(s)
        /\ \A i \in 1 .. Len(s) : SubSeq(r, 1, Len(s))[i] = r[i]
    <3>1. \A i \in 1 .. Len(s) : r[i] \in PacketType
      BY <1>1, <2>1
    <3>2. /\ SubSeq(r, 1, Len(s)) \in Seq(PacketType)
          /\ Len(SubSeq(r, 1, Len(s))) = IF 1 <= Len(s) THEN Len(s) - 1 + 1 ELSE 0
          /\ \A i \in 1 .. Len(s) - 1 + 1 : SubSeq(r, 1, Len(s))[i] = r[1 + i - 1]
      BY <1>1, <3>1, SubSeqProperties
    <3>3. \A i \in 1 .. Len(s) : i \in 1 .. Len(s) - 1 + 1 /\ 1 + i - 1 = i
      BY <1>1
    <3>4. \A i \in 1 .. Len(s) : SubSeq(r, 1, Len(s))[i] = r[i]
      BY <3>2, <3>3
    <3>5. QED
      BY <1>1, <3>2, <3>4, SubSeqFull
  <2>3. SubSeq(r, 1, Len(s)) = s
    BY <2>1, <2>2, SeqEqual
  <2>4. Len(s) <= Len(r)
    BY <1>1, <2>1
  <2>5. QED
    BY <2>2, <2>3, <2>4 DEF IsPrefix, r
<1>4. QED
  BY <1>2, <1>3

\* What a step may do to the stream.
Orderly ==
  connected' => \/ IsPrefix(Stream, Stream')
                \/ Stream # <<>> /\ Stream' = Tail(Stream)

\* The stream before and after a step.
LEMMA Streams ==
  /\ Stream = StreamOf(wire, write_pending, write_queue)
  /\ Stream' = StreamOf(wire', write_pending', write_queue')
BY DEF Stream, StreamOf, InTransit, PacketsOf

LEMMA Typed ==
  ASSUME IInv, FlagOK
  PROVE  /\ wire \in Seq(PacketType) /\ write_pending \in Seq(PacketType)
         /\ write_queue \in Seq(EntryType) /\ write_queue \in Seq(FlaggedEntry)
         /\ Stream \in Seq(PacketType)
<1>1. /\ wire \in Seq(PacketType) /\ write_pending \in Seq(PacketType)
      /\ write_queue \in Seq(EntryType) /\ write_queue \in Seq(FlaggedEntry)
  BY DEF IInv, TypeOK, FlagOK
<1>2. QED
  BY <1>1, Streams, StreamParts

\* A step that queues nothing and writes nothing.
LEMMA QuietOrderly ==
  ASSUME IInv, FlagOK, UNCHANGED <<wire, write_pending, write_queue>>
  PROVE  FlagOK' /\ Orderly
<1>1. Stream' = Stream /\ Stream \in Seq(PacketType)
  BY Streams, Typed
<1>2. IsPrefix(Stream, Stream')
  BY <1>1, PrefixOf
<1>3. QED
  BY <1>2 DEF Orderly, FlagOK

\* The client is gone.
LEMMA GoneOrderly ==
  ASSUME NoClient
  PROVE  FlagOK' /\ Orderly
<1>1. write_queue' = <<>> /\ connected' = FALSE
  BY DEF NoClient
<1>2. QED
  BY <1>1, EmptySeq DEF Orderly, FlagOK

\* A step that queues a packet: an unreliable one leaves the stream alone, a
\* reliable one comes to its end.
LEMMA QueueOrderly ==
  ASSUME IInv, FlagOK, UNCHANGED <<wire, write_pending>>, NEW pkt \in PacketType,
         \/ pkt \notin Reliable /\ write_queue' = Queue0(write_queue, pkt)
         \/ Accepts1(write_queue) /\ write_queue' = Queue1(write_queue, pkt)
  PROVE  FlagOK' /\ Orderly
<1>1. /\ wire \in Seq(PacketType) /\ write_pending \in Seq(PacketType)
      /\ write_queue \in Seq(EntryType) /\ write_queue \in Seq(FlaggedEntry)
      /\ Stream \in Seq(PacketType)
  BY Typed
<1>2. /\ write_queue' \in Seq(FlaggedEntry)
      /\ Carried(write_queue') \in {Carried(write_queue), Append(Carried(write_queue), pkt)}
  BY <1>1, QueueCarries
<1>3. write_queue' \in Seq(EntryType)
  BY <1>2, FlaggedIsQueue
<1> DEFINE a == Rel(wire \o write_pending)
           c == Carried(write_queue)
<1>4. a \in Seq(PacketType) /\ c \in Seq(PacketType) /\ Stream = a \o c
  BY <1>1, Streams, StreamParts
<1>5. Stream' = a \o Carried(write_queue')
  BY <1>1, <1>3, Streams, StreamParts
<1> HIDE DEF a, c
<1>6. a \o Append(c, pkt) = Append(a \o c, pkt)
  <2> DEFINE e == <<pkt>>
  <2>1. Append(c, pkt) = c \o e /\ e \in Seq(PacketType) /\ a \o c \in Seq(PacketType)
    BY <1>4, AppendIsConcat, ConcatProperties
  <2>2. Append(a \o c, pkt) = (a \o c) \o e
    BY <2>1, AppendIsConcat
  <2> HIDE DEF e
  <2>3. (a \o c) \o e = a \o (c \o e)
    BY <1>4, <2>1, ThreeParts, SMTT(30)
  <2>4. QED
    BY <2>1, <2>2, <2>3
<1>7. Stream' \in {Stream, Append(Stream, pkt)}
  BY <1>2, <1>4, <1>5, <1>6 DEF c
<1>8. IsPrefix(Stream, Stream')
  BY <1>1, <1>7, PrefixOf
<1>9. QED
  BY <1>2, <1>8 DEF Orderly, FlagOK

\* A flush only moves the borders between wire, batch and queue.
LEMMA FlushOrderly ==
  ASSUME IInv, FlagOK, Flush
  PROVE  FlagOK' /\ Orderly
<1>1. PICK n, end \in Nat : FlushedTo(n, end)
  BY FlushParts
<1> DEFINE old == Len(write_pending)
           pkts == PacketsOf(write_queue)
           all == write_pending \o pkts
           a == SubSeq(all, 1, n)
           b == SubSeq(all, n + 1, end)
           c == SubSeq(all, end + 1, Len(all))
           m == end - old + 1
           rest == SubSeq(write_queue, m, Len(write_queue))
<1>2. /\ wire \in Seq(PacketType) /\ write_pending \in Seq(PacketType)
      /\ write_queue \in Seq(EntryType) /\ write_queue \in Seq(FlaggedEntry)
      /\ Stream \in Seq(PacketType)
  BY Typed
<1>3. /\ all \in Seq(PacketType) /\ Len(all) = old + Len(write_queue)
      /\ n <= end /\ old <= end /\ end <= Len(all)
      /\ wire' = wire \o a /\ write_pending' = b /\ write_queue' = rest
  BY <1>1 DEF FlushedTo
<1>4. Len(write_queue) \in Nat /\ old \in Nat
  BY <1>2, LenProperties
<1>5. /\ pkts \in Seq(PacketType) /\ Len(pkts) = Len(write_queue)
      /\ \A i \in 1 .. Len(write_queue) : pkts[i] = write_queue[i].pkt
  BY <1>2, QueuedPackets
<1>6. \A i \in 1 .. Len(write_queue) : old + i \in 1 .. Len(all) /\ all[old + i] = pkts[i]
  <2> HIDE DEF pkts
  <2>1. \A j \in 1 .. Len(write_pending) + Len(pkts) :
          (write_pending \o pkts)[j] = IF j <= Len(write_pending) THEN write_pending[j]
                                       ELSE pkts[j - Len(write_pending)]
    BY <1>2, <1>5, ConcatProperties
  <2>2. ASSUME NEW i \in 1 .. Len(write_queue)
        PROVE  old + i \in 1 .. Len(all) /\ all[old + i] = pkts[i]
    <3>1. /\ old + i \in 1 .. Len(write_pending) + Len(pkts)
          /\ ~(old + i <= Len(write_pending)) /\ old + i - Len(write_pending) = i
      BY <1>4, <1>5
    <3>2. (write_pending \o pkts)[old + i] = pkts[i]
      BY <2>1, <3>1
    <3>3. QED
      BY <1>3, <1>5, <3>1, <3>2
  <2>3. QED
    BY <2>2
<1> HIDE DEF all, old
<1>7. /\ m \in Nat \ {0}
      /\ rest \in Seq(FlaggedEntry)
      /\ Len(rest) = Len(write_queue) - m + 1
      /\ \A i \in 1 .. Len(rest) : rest[i] = write_queue[m + i - 1]
  <2>1. m \in Nat \ {0} /\ m <= Len(write_queue) + 1
    BY <1>3, <1>4
  <2>2. \A i \in m .. Len(write_queue) : write_queue[i] \in FlaggedEntry
    BY <1>2, <1>4, <2>1, ElementOfSeq
  <2> HIDE DEF m
  <2>3. /\ rest \in Seq(FlaggedEntry)
        /\ Len(rest) = IF m <= Len(write_queue) THEN Len(write_queue) - m + 1 ELSE 0
        /\ \A i \in 1 .. Len(write_queue) - m + 1 : rest[i] = write_queue[m + i - 1]
    BY <1>4, <2>1, <2>2, SubSeqProperties
  <2>4. QED
    BY <1>4, <2>1, <2>3
<1>8. rest \in Seq(EntryType)
  BY <1>7, FlaggedIsQueue
<1>9. \A i \in 1 .. Len(all) : all[i] \in PacketType
  BY <1>3, ElementOfSeq
<1>10. /\ a \in Seq(PacketType) /\ b \in Seq(PacketType) /\ c \in Seq(PacketType)
       /\ Len(c) = Len(all) - end
       /\ \A i \in 1 .. Len(all) - end : c[i] = all[end + i]
  <2>1. Len(all) \in Nat
    BY <1>3, <1>4
  <2>2. /\ \A i \in 1 .. n : all[i] \in PacketType
        /\ \A i \in n + 1 .. end : all[i] \in PacketType
        /\ \A i \in end + 1 .. Len(all) : all[i] \in PacketType
    BY <1>3, <1>9, <2>1
  <2>3. a \in Seq(PacketType) /\ b \in Seq(PacketType)
    BY <2>2, SubSeqProperties
  <2>4. /\ c \in Seq(PacketType)
        /\ Len(c) = IF end + 1 <= Len(all) THEN Len(all) - (end + 1) + 1 ELSE 0
        /\ \A i \in 1 .. Len(all) - (end + 1) + 1 : c[i] = all[end + 1 + i - 1]
    BY <2>1, <2>2, SubSeqProperties
  <2>5. \A i \in 1 .. Len(all) - end :
          i \in 1 .. Len(all) - (end + 1) + 1 /\ end + 1 + i - 1 = end + i
    BY <2>1
  <2> HIDE DEF c
  <2>6. \A i \in 1 .. Len(all) - end : c[i] = all[end + i]
    BY <2>4, <2>5
  <2>7. QED
    BY <1>3, <2>1, <2>3, <2>4, <2>6
<1>11. PacketsOf(rest) = c
  <2> DEFINE r == PacketsOf(rest)
  <2>1. /\ r \in Seq(PacketType) /\ Len(r) = Len(rest)
        /\ \A i \in 1 .. Len(rest) : r[i] = rest[i].pkt
    BY <1>8, QueuedPackets
  <2>2. Len(rest) = Len(all) - end
    BY <1>3, <1>4, <1>7
  <2> HIDE DEF r, rest, c
  <2>3. ASSUME NEW i \in 1 .. Len(rest) PROVE r[i] = c[i]
    <3>1. rest[i] = write_queue[m + i - 1]
      BY <1>7
    <3> DEFINE k == m + i - 1
    <3>2. k \in 1 .. Len(write_queue) /\ old + k = end + i /\ i \in 1 .. Len(all) - end
      BY <1>3, <1>4, <1>7, <2>2
    <3> HIDE DEF k
    <3>3. c[i] = all[old + k]
      BY <1>10, <3>2
    <3>4. all[old + k] = write_queue[k].pkt
      BY <1>5, <1>6, <3>2
    <3>5. QED
      BY <2>1, <3>1, <3>3, <3>4 DEF k
  <2>4. Len(r) = Len(c)
    BY <1>10, <2>1, <2>2
  <2>5. QED
    BY <1>10, <2>1, <2>3, <2>4, SeqEqual DEF r
<1>12. all = a \o (b \o c)
  <2>1. /\ 1 \in 1 .. Len(all) + 1 /\ n \in 1 - 1 .. Len(all) /\ end \in n .. Len(all)
        /\ end \in 1 - 1 .. Len(all) /\ Len(all) \in end .. Len(all)
    BY <1>3, <1>4
  <2>2. a \o b = SubSeq(all, 1, end)
    BY <1>3, <2>1, ConcatAdjacentSubSeq
  <2>3. SubSeq(all, 1, end) \o c = SubSeq(all, 1, Len(all))
    BY <1>3, <2>1, ConcatAdjacentSubSeq
  <2>4. SubSeq(all, 1, Len(all)) = all
    BY <1>3, SubSeqFull
  <2> HIDE DEF a, b, c
  <2>5. (a \o b) \o c = a \o (b \o c)
    BY <1>10, ThreeParts
  <2>6. QED
    BY <2>2, <2>3, <2>4, <2>5
<1> HIDE DEF a, b, c, pkts, rest
<1>13. InTransit = wire \o all
  <2>1. (wire \o write_pending) \o pkts = wire \o (write_pending \o pkts)
    BY <1>2, <1>5, ThreeParts, SMTT(30)
  <2>2. QED
    BY <2>1 DEF InTransit, pkts, all
<1>14. InTransit' = ((wire \o a) \o b) \o c
  <2>1. InTransit' = wire' \o write_pending' \o PacketsOf(write_queue')
    BY DEF InTransit, PacketsOf
  <2>2. QED
    BY <1>3, <1>11, <2>1
<1>15. ((wire \o a) \o b) \o c = wire \o (a \o (b \o c))
  <2> DEFINE d == b \o c
             w == wire \o a
  <2>1. w \in Seq(PacketType) /\ d \in Seq(PacketType)
    BY <1>2, <1>10, ConcatProperties
  <2> HIDE DEF d, w
  <2>2. (w \o b) \o c = w \o (b \o c)
    BY <1>10, <2>1, ThreeParts, SMTT(30)
  <2>3. wire \in Seq(PacketType) /\ a \in Seq(PacketType) /\ d \in Seq(PacketType)
    BY <1>2, <1>10, <2>1
  <2>5. (wire \o a) \o d = wire \o (a \o d)
    BY <2>3, ThreeParts
  <2>4. QED
    BY <2>2, <2>5 DEF d, w
<1>16. Stream' = Stream
  <2>1. InTransit' = InTransit
    BY <1>12, <1>13, <1>14, <1>15
  <2>2. QED
    BY <2>1 DEF Stream
<1>17. IsPrefix(Stream, Stream')
  BY <1>2, <1>16, PrefixOf
<1>18. QED
  BY <1>3, <1>7, <1>17 DEF Orderly, FlagOK

\* The subscriber reads the head of the wire, which is the head of the stream if
\* it is reliable.
LEMMA ReadOrderly ==
  ASSUME IInv, FlagOK, SubscriberRead
  PROVE  FlagOK' /\ Orderly
<1> DEFINE p == write_pending \o PacketsOf(write_queue)
<1>1. /\ wire \in Seq(PacketType) /\ write_pending \in Seq(PacketType)
      /\ write_queue \in Seq(EntryType) /\ Stream \in Seq(PacketType)
  BY Typed
<1>2. wire # <<>> /\ wire' = Tail(wire) /\ UNCHANGED <<write_pending, write_queue>>
  BY DEF SubscriberRead, client
<1>3. Tail(wire) \in Seq(PacketType)
  BY <1>1, <1>2, HeadTailProperties
<1>4. PacketsOf(write_queue) \in Seq(PacketType)
  BY <1>1, QueuedPackets
<1>5. p \in Seq(PacketType)
  BY <1>1, <1>4, ConcatProperties
<1>6. Stream = Rel(wire) \o Rel(p) /\ Stream' = Rel(Tail(wire)) \o Rel(p)
  <2> DEFINE w == Tail(wire)
             q == PacketsOf(write_queue)
  <2>1. (wire \o write_pending) \o q = wire \o (write_pending \o q)
    BY <1>1, <1>4, ThreeParts, SMTT(30)
  <2>2. w \in Seq(PacketType)
    BY <1>3
  <2> HIDE DEF w
  <2>3. q \in Seq(PacketType)
    BY <1>4
  <2> HIDE DEF q
  <2>4. (w \o write_pending) \o q = w \o (write_pending \o q)
    BY <1>1, <2>2, <2>3, ThreeParts, SMTT(30)
  <2>5. Stream = Rel(wire \o p) /\ Stream' = Rel(w \o p)
    BY <1>2, <2>1, <2>4, Streams DEF StreamOf, Rel, w, q
  <2> HIDE DEF p
  <2>6. Rel(wire \o p) = Rel(wire) \o Rel(p) /\ Rel(w \o p) = Rel(w) \o Rel(p)
    BY <1>1, <1>5, <2>2, RelConcat
  <2>7. QED
    BY <2>5, <2>6 DEF w
<1> HIDE DEF p
<1>7. Rel(wire) \in Seq(PacketType) /\ Rel(p) \in Seq(PacketType)
  BY <1>1, <1>5, RelType
<1>8. \/ Rel(Tail(wire)) = Rel(wire)
      \/ Rel(wire) # <<>> /\ Rel(Tail(wire)) = Tail(Rel(wire))
  BY <1>1, <1>2, OnlyTail DEF Rel
<1>9. CASE Rel(Tail(wire)) = Rel(wire)
  <2>1. IsPrefix(Stream, Stream')
    BY <1>1, <1>6, <1>9, PrefixOf
  <2>2. QED
    BY <1>2, <2>1 DEF Orderly, FlagOK
<1>10. CASE Rel(wire) # <<>> /\ Rel(Tail(wire)) = Tail(Rel(wire))
  <2> DEFINE r == Rel(wire)
             s == Rel(p)
             u == r \o s
  <2>1. r \in Seq(PacketType) /\ s \in Seq(PacketType) /\ r # <<>>
    BY <1>7, <1>10
  <2> HIDE DEF r, s
  <2>2. /\ u \in Seq(PacketType) /\ Len(u) = Len(r) + Len(s)
        /\ \A i \in 1 .. Len(r) + Len(s) : u[i] = IF i <= Len(r) THEN r[i] ELSE s[i - Len(r)]
    BY <2>1, ConcatProperties
  <2>3. Len(r) \in Nat \ {0} /\ Len(s) \in Nat
    BY <2>1, EmptySeq, LenProperties
  <2> HIDE DEF u
  <2>4. u # <<>>
    BY <2>2, <2>3, EmptySeq
  <2> DEFINE t == Tail(r)
             v == t \o s
  <2>5. t \in Seq(PacketType) /\ Len(t) = Len(r) - 1 /\ \A i \in 1 .. Len(t) : t[i] = r[i + 1]
    BY <2>1, HeadTailProperties
  <2> HIDE DEF t
  <2>6. /\ v \in Seq(PacketType) /\ Len(v) = Len(t) + Len(s)
        /\ \A i \in 1 .. Len(t) + Len(s) : v[i] = IF i <= Len(t) THEN t[i] ELSE s[i - Len(t)]
    BY <2>1, <2>5, ConcatProperties
  <2> HIDE DEF v
  <2>7. /\ Tail(u) \in Seq(PacketType) /\ Len(Tail(u)) = Len(u) - 1
        /\ \A i \in 1 .. Len(Tail(u)) : Tail(u)[i] = u[i + 1]
    BY <2>2, <2>4, HeadTailProperties
  <2>8. ASSUME NEW i \in 1 .. Len(v) PROVE Tail(u)[i] = v[i]
    <3>1. i + 1 \in 1 .. Len(r) + Len(s) /\ i \in 1 .. Len(Tail(u)) /\ i \in 1 .. Len(t) + Len(s)
      BY <2>2, <2>3, <2>5, <2>6, <2>7
    <3>2. Tail(u)[i] = IF i + 1 <= Len(r) THEN r[i + 1] ELSE s[i + 1 - Len(r)]
      BY <2>2, <2>7, <3>1
    <3>3. v[i] = IF i <= Len(t) THEN t[i] ELSE s[i - Len(t)]
      BY <2>6, <3>1
    <3>4. (i + 1 <= Len(r) <=> i <= Len(t)) /\ i + 1 - Len(r) = i - Len(t)
      BY <2>3, <2>5
    <3>5. i <= Len(t) => t[i] = r[i + 1]
      BY <2>3, <2>5
    <3>6. QED
      BY <3>2, <3>3, <3>4, <3>5
  <2>9. v = Tail(u)
    <3>1. Len(v) = Len(Tail(u))
      BY <2>2, <2>3, <2>5, <2>6, <2>7
    <3>2. QED
      BY <2>6, <2>7, <2>8, <3>1, SeqEqual
  <2>10. Stream = u /\ Stream' = v
    BY <1>6, <1>10 DEF u, v, t, r, s
  <2>11. QED
    BY <1>2, <2>4, <2>9, <2>10 DEF Orderly, FlagOK
<1>11. QED
  BY <1>8, <1>9, <1>10

\* Replies and forwards at QoS0 are not reliable.
LEMMA Unreliable ==
  /\ Pingresp \in PacketType \ Reliable
  /\ \A pid \in 0 .. MAX_PID : Pubrel(pid) \in PacketType \ Reliable
  /\ \A m \in Msg : Publish(0, 0, m) \in PacketType \ Reliable
BY Constants DEF Pingresp, Pubrel, Publish, Packet, PacketType, Reliable

\* Every step leaves the stream in order.
LEMMA StepOrderly == IInv /\ FlagOK /\ [Next]_vars => FlagOK' /\ Orderly
<1>1. SUFFICES ASSUME IInv, FlagOK, [Next]_vars PROVE FlagOK' /\ Orderly
  OBVIOUS
<1>2. CASE \E m \in Msg : DeliverTo(m)
  <2>1. PICK m \in Msg : DeliverTo(m)
    BY <1>2
  <2>2. CASE DeliverQos0(m)
    BY <1>1, <2>2, Unreliable, QueueOrderly DEF DeliverQos0
  <2>3. ASSUME NEW qos \in FWD_QOS \cap {1, 2}, DeliverReliable(m, qos) PROVE FlagOK' /\ Orderly
    <3>1. PICK pid \in Pid : write_queue' = Queue1(write_queue, Publish(qos, pid, m))
      BY <2>3 DEF DeliverReliable
    <3>2. Publish(qos, pid, m) \in PacketType
      BY <3>1, Constants DEF Publish, Packet, PacketType, Pid
    <3>3. Accepts1(write_queue) /\ UNCHANGED <<wire, write_pending>>
      BY <2>3 DEF DeliverReliable
    <3>4. QED
      BY <1>1, <3>1, <3>2, <3>3, QueueOrderly
  <2>4. CASE DeliverOverflow(m)
    BY <2>4, GoneOrderly DEF DeliverOverflow
  <2>5. QED
    BY <2>1, <2>2, <2>3, <2>4 DEF DeliverTo
<1>3. CASE HandlePacket
  <2>1. UNCHANGED <<wire, write_pending>>
    BY <1>3 DEF HandlePacket, HandlePuback, HandlePubrec, HandlePubcomp, HandlePingreq, ReadPacket
  <2>2. CASE write_queue' = write_queue
    BY <1>1, <2>1, <2>2, QuietOrderly
  <2>3. CASE HandlePubrec /\ write_queue' # write_queue
    <3>1. write_queue' = Queue0(write_queue, Pubrel(Head(acks).pid)) /\ acks # <<>>
      BY <2>3 DEF HandlePubrec, ReadPacket, Reading
    <3>2. Head(acks) \in AckType
      <4>1. acks \in Seq(AckType)
        BY <1>1 DEF IInv, TypeOK
      <4>2. QED
        BY <3>1, <4>1, HeadTailProperties
    <3>3. Head(acks).pid \in 0 .. MAX_PID
      BY <3>2 DEF AckType
    <3>4. QED
      BY <1>1, <2>1, <3>1, <3>3, Unreliable, QueueOrderly
  <2>4. CASE HandlePingreq
    BY <1>1, <2>1, <2>4, Unreliable, QueueOrderly DEF HandlePingreq
  <2>5. QED
    BY <1>3, <2>2, <2>3, <2>4 DEF HandlePacket, HandlePuback, HandlePubcomp
<1>4. CASE Disconnect
  BY <1>4, GoneOrderly DEF Disconnect
<1>5. CASE WritableEvent
  BY <1>1, <1>5, FlushOrderly, QuietOrderly DEF WritableEvent
<1>6. CASE Turn
  <2>1. CASE Scan \/ SweepDone \/ RetryDone
    BY <1>1, <2>1, QuietOrderly DEF Scan, SweepDone, RetryDone, client
  <2>2. CASE FlushPending \/ FlushPending2
    BY <1>1, <2>2, FlushOrderly, QuietOrderly DEF FlushPending, FlushPending2
  <2>3. CASE RemoveDead \/ GiveUp
    BY <1>1, <2>3, GoneOrderly, QuietOrderly DEF RemoveDead, GiveUp, client
  <2>4. ASSUME NEW pkt \in retry, Retry(pkt) PROVE FlagOK' /\ Orderly
    <3>1. pkt \in PacketType
      BY <1>1 DEF IInv, TypeOK
    <3>2. CASE Accepts1(write_queue)
      BY <1>1, <2>4, <3>1, <3>2, QueueOrderly DEF Retry
    <3>3. CASE ~Accepts1(write_queue)
      BY <2>4, <3>3, GoneOrderly DEF Retry
    <3>4. QED
      BY <3>2, <3>3
  <2>5. QED
    BY <1>6, <2>1, <2>2, <2>3, <2>4 DEF Turn
<1>7. CASE \E p \in Pid : RetryElapse(p)
  BY <1>1, <1>7, QuietOrderly DEF RetryElapse
<1>8. CASE SubscriberRead
  BY <1>1, <1>8, ReadOrderly
<1>9. CASE KeepaliveElapse \/ SubscriberPing \/ UNCHANGED vars
  BY <1>1, <1>9, QuietOrderly DEF KeepaliveElapse, SubscriberPing, vars, client
<1>10. QED
  BY <1>1, <1>2, <1>3, <1>4, <1>5, <1>6, <1>7, <1>8, <1>9 DEF Next

\* While the client lives, its reliable packets are one stream that grows at the
\* end and is consumed at the head: no eviction, batch, short write or
\* retransmission loses one, repeats one or lets one overtake another.
THEOREM ReliableStream == Spec => StreamInOrder
<1>1. Init => FlagOK
  BY EmptySeq DEF Init, FlagOK
<1>2. Spec => []FlagOK
  BY <1>1, StepOrderly, Inductive, PTL DEF Spec
<1>3. QED
  BY <1>2, StepOrderly, Inductive, PTL DEF Spec, StreamInOrder, Orderly

----------------------------------------------------------------------------
(* The promise of ReliableDelivery, as Outbound understands it.            *)

\* While the connection lasts, a message that was accepted and not received
\* is still tracked: NothingForgotten is inductive as it stands, because only
\* Confirm shrinks the window and it takes out a received message.
THEOREM PromiseKept == Promise!Spec => []Promise!NothingForgotten
<1>1. Promise!Init => Promise!NothingForgotten
  BY DEF Promise!Init, Promise!NothingForgotten
<1>2. Promise!NothingForgotten /\ [Promise!Next]_(Promise!vars) => Promise!NothingForgotten'
  <2>1. SUFFICES ASSUME Promise!NothingForgotten, [Promise!Next]_(Promise!vars)
                 PROVE  Promise!NothingForgotten'
    OBVIOUS
  <2>2. CASE Promise!Close
    BY <2>1, <2>2 DEF Promise!Close, Promise!NothingForgotten
  <2>3. ASSUME NEW m \in Msg, Promise!Accept(m) PROVE Promise!NothingForgotten'
    BY <2>1, <2>3 DEF Promise!Accept, Promise!NothingForgotten
  <2>4. ASSUME NEW m \in Msg, Promise!Receive(m) PROVE Promise!NothingForgotten'
    BY <2>1, <2>4 DEF Promise!Receive, Promise!NothingForgotten
  <2>5. ASSUME NEW m \in Msg, Promise!Confirm(m) PROVE Promise!NothingForgotten'
    BY <2>1, <2>5 DEF Promise!Confirm, Promise!NothingForgotten
  <2>6. CASE UNCHANGED Promise!vars
    BY <2>1, <2>6 DEF Promise!vars, Promise!NothingForgotten
  <2>7. QED
    BY <2>1, <2>2, <2>3, <2>4, <2>5, <2>6 DEF Promise!Next
<1>3. QED
  BY <1>1, <1>2, PTL DEF Promise!Spec


----------------------------------------------------------------------------
(* The first use of every packet id.                                       *)
(*                                                                         *)
(* Until MAX_PID messages have been accepted on a connection, no id is     *)
(* used twice, and every message has an id of its own.  `own` gives that   *)
(* id; the state does not hold it once the window has forgotten a message, *)
(* but what is still in transit, listed, acknowledged or held refers to    *)
(* it.  The invariant says that such an assignment exists and that every   *)
(* packet and every answer under an id is one of the message the id        *)
(* belongs to.                                                             *)

\* The messages taken on at QoS1 and QoS2, no more of them than packet ids.
Accepted == {m \in Msg : fwd[m] \in {1, 2}}
FirstUse == Cardinality(Accepted) <= MAX_PID

\* The ids given to messages, and the ids given out so far: the counter shows
\* 0 after the last one.
Owner == [Msg -> 0 .. MAX_PID]
UsedPids == IF next_pid = 0 THEN Pid ELSE 1 .. next_pid - 1

\* A message that was handed to the application has the id.
Handed(own, pid) == \E m \in Accepted \cap got : own[m] = pid

\* Packets and answers that speak of the message their id belongs to: a PUBREL
\* and an acknowledgement only after that message was handed over.
LegitPublish(own, pkt) ==
  /\ pkt.type = "PUBLISH" /\ fwd[pkt.msg] = pkt.qos
  /\ pkt.qos # 0 => own[pkt.msg] = pkt.pid
Legit(own) ==
  {pkt \in PacketType : \/ LegitPublish(own, pkt)
                        \/ pkt.type = "PUBREL" /\ Handed(own, pkt.pid)
                        \/ pkt.type = "PINGRESP"}
LegitAck(own) == {a \in AckType : a.type = "PINGREQ" \/ Handed(own, a.pid)}

\* Ids are given to one message each, in order; the window holds a message under
\* its id, and waits for PUBCOMP only if it was handed over.
OwnsPids(own) ==
  /\ \A m \in Accepted : own[m] \in UsedPids
  /\ \A m, n \in Accepted : own[m] = own[n] => m = n
  /\ Cardinality(Accepted) = IF next_pid = 0 THEN MAX_PID ELSE next_pid - 1
OwnEntry(own, p) ==
  LET entry == in_flight[p]
  IN  /\ entry.msg \in Accepted /\ own[entry.msg] = p
      /\ fwd[entry.msg] = IF entry.qos2 THEN 2 ELSE 1
      /\ entry.await_pubcomp => entry.msg \in got
OwnsWindow(own) == \A p \in Window : OwnEntry(own, p)
\* What is in transit, on the retry list, on its way back, and at the subscriber.
OwnsPackets(own) ==
  /\ wire \in Seq(Legit(own)) /\ write_pending \in Seq(Legit(own))
  /\ write_queue \in QueueOf(Legit(own))
  /\ retry \subseteq Legit(own)
OwnsAnswers(own) ==
  /\ acks \in Seq(LegitAck(own))
  /\ \A p \in held : Handed(own, p)
  /\ \A m \in got : fwd[m] # NotYet
Owned(own) == OwnsPids(own) /\ OwnsWindow(own) /\ OwnsPackets(own) /\ OwnsAnswers(own)

\* A closed connection has nothing in transit.
Ledger ==
  /\ IsFiniteSet(Accepted)
  /\ ~connected => wire = <<>> /\ write_pending = <<>> /\ write_queue = <<>>
OwnInv == Ledger /\ (connected /\ FirstUse => \E own \in Owner : Owned(own))

----------------------------------------------------------------------------
\* What a step may do to the history of the connection.
Stable ==
  /\ \A m \in Msg : fwd[m] # NotYet => fwd'[m] = fwd[m]
  /\ got \subseteq got'

\* A message is forwarded once, and what was handed over stays so.
LEMMA StepStable == IInv /\ [Next]_vars => Stable /\ (connected' => connected)
<1>1. SUFFICES ASSUME IInv, [Next]_vars PROVE Stable /\ (connected' => connected)
  OBVIOUS
<1>2. fwd \in [Msg -> 0 .. NotYet] /\ connected \in BOOLEAN
  BY <1>1 DEF IInv, TypeOK
<1>3. CASE \E m \in Msg : DeliverTo(m)
  BY <1>2, <1>3 DEF DeliverTo, DeliverQos0, DeliverReliable, DeliverOverflow, NoClient, Stable,
                    subscriber
<1>4. CASE HandlePacket
  BY <1>4 DEF HandlePacket, HandlePuback, HandlePubrec, HandlePubcomp, HandlePingreq, ReadPacket,
              Stable, subscriber
<1>5. CASE Disconnect \/ WritableEvent
  BY <1>5 DEF Disconnect, WritableEvent, NoClient, Stable, subscriber
<1>6. CASE Turn
  BY <1>6 DEF Turn, Scan, FlushPending, SweepDone, FlushPending2, RemoveDead, Retry, RetryDone,
              GiveUp, NoClient, client, Stable, subscriber
<1>7. CASE SubscriberRead
  BY <1>7 DEF SubscriberRead, ReadPublish, ReadPubrel, ReadPingresp, client, Stable
<1>8. CASE (\E p \in Pid : RetryElapse(p)) \/ KeepaliveElapse \/ SubscriberPing \/ UNCHANGED vars
  BY <1>8 DEF RetryElapse, KeepaliveElapse, SubscriberPing, vars, client, Stable, subscriber
<1>9. QED
  BY <1>1, <1>3, <1>4, <1>5, <1>6, <1>7, <1>8 DEF Next

\* What is legitimate stays so.
LEMMA LegitGrows ==
  ASSUME IInv, Stable, NEW own \in Owner, NEW own2 \in Owner,
         \A m \in Accepted : own2[m] = own[m]
  PROVE  /\ Accepted \subseteq Accepted'
         /\ \A p : Handed(own, p) => Handed(own2, p)'
         /\ Legit(own) \subseteq Legit(own2)'
         /\ LegitAck(own) \subseteq LegitAck(own2)'
<1>1. Accepted \subseteq Accepted'
  BY DEF Accepted, Stable, NotYet
<1>2. \A p : Handed(own, p) => Handed(own2, p)'
  <2>1. SUFFICES ASSUME NEW p, Handed(own, p) PROVE Handed(own2, p)'
    OBVIOUS
  <2>2. PICK m \in Accepted \cap got : own[m] = p
    BY <2>1 DEF Handed
  <2>3. m \in Accepted' \cap got' /\ own2[m] = p
    BY <1>1, <2>2 DEF Stable
  <2>4. QED
    BY <2>3 DEF Handed
<1>3. Legit(own) \subseteq Legit(own2)'
  <2>1. SUFFICES ASSUME NEW pkt \in Legit(own) PROVE pkt \in Legit(own2)'
    OBVIOUS
  <2>2. pkt \in PacketType
    BY <2>1 DEF Legit
  <2>3. CASE LegitPublish(own, pkt)
    <3>1. pkt.msg \in Msg /\ pkt.qos \in 0 .. 2
      BY <2>2, <2>3 DEF PacketType, LegitPublish
    <3>2. fwd'[pkt.msg] = pkt.qos
      BY <2>3, <3>1 DEF LegitPublish, Stable, NotYet
    <3>3. pkt.qos # 0 => pkt.msg \in Accepted
      BY <2>3, <3>1 DEF LegitPublish, Accepted
    <3>4. LegitPublish(own2, pkt)'
      BY <2>3, <3>2, <3>3 DEF LegitPublish
    <3>5. QED
      BY <2>2, <3>4 DEF Legit
  <2>4. CASE pkt.type = "PUBREL" /\ Handed(own, pkt.pid)
    BY <1>2, <2>2, <2>4 DEF Legit
  <2>5. CASE pkt.type = "PINGRESP"
    BY <2>2, <2>5 DEF Legit
  <2>6. QED
    BY <2>1, <2>3, <2>4, <2>5 DEF Legit
<1>4. LegitAck(own) \subseteq LegitAck(own2)'
  BY <1>2 DEF LegitAck
<1>5. QED
  BY <1>1, <1>2, <1>3, <1>4

\* The packets and answers of this state, seen from the next one.
StillOwned(own) ==
  /\ wire \in Seq(Legit(own)') /\ write_pending \in Seq(Legit(own)')
  /\ write_queue \in QueueOf(Legit(own)')
  /\ retry \subseteq Legit(own)'
  /\ acks \in Seq(LegitAck(own)')
  /\ \A p \in held : Handed(own, p)'
  /\ \A m \in got : fwd'[m] # NotYet

\* A queue of packets of one set is one of any larger set.
LEMMA QueueMonotonic ==
  ASSUME NEW P, NEW Q, P \subseteq Q, NEW q \in QueueOf(P)
  PROVE  q \in QueueOf(Q)
<1> DEFINE A == [rel : BOOLEAN, pkt : P]
           B == [rel : BOOLEAN, pkt : Q]
<1>1. A \subseteq B /\ q \in Seq(A)
  BY DEF QueueOf
<1> HIDE DEF A, B
<1>2. q \in Seq(B)
  BY <1>1, SeqMonotonic
<1>3. QED
  BY <1>2 DEF QueueOf, B

\* Nothing that was legitimate is lost by a step.
LEMMA StillLegit ==
  ASSUME IInv, Stable, NEW own \in Owner, Owned(own), NEW own2 \in Owner,
         \A m \in Accepted : own2[m] = own[m]
  PROVE  StillOwned(own2)
<1> DEFINE L == Legit(own)
           M == Legit(own2)'
           K == LegitAck(own)
           N == LegitAck(own2)'
<1>1. L \subseteq M /\ K \subseteq N /\ \A p : Handed(own, p) => Handed(own2, p)'
  BY LegitGrows
<1>2. /\ wire \in Seq(L) /\ write_pending \in Seq(L) /\ write_queue \in QueueOf(L)
      /\ retry \subseteq L /\ acks \in Seq(K) /\ \A p \in held : Handed(own, p)
  BY DEF Owned, OwnsPackets, OwnsAnswers
<1> HIDE DEF L, M, K, N
<1>3. wire \in Seq(M) /\ write_pending \in Seq(M) /\ acks \in Seq(N)
  BY <1>1, <1>2, SeqMonotonic
<1>4. write_queue \in QueueOf(M)
  BY <1>1, <1>2, QueueMonotonic
<1>5. retry \subseteq M /\ \A p \in held : Handed(own2, p)'
  BY <1>1, <1>2
<1>6. \A m \in got : fwd'[m] # NotYet
  BY DEF Owned, OwnsAnswers, IInv, TypeOK, Stable
<1>7. QED
  BY <1>3, <1>4, <1>5, <1>6 DEF StillOwned, M, N

\* The parts of what is owned, one by one, for a step that allocates no id.
LEMMA PidsKept ==
  ASSUME NEW own \in Owner, OwnsPids(own), UNCHANGED <<fwd, next_pid>>
  PROVE  OwnsPids(own)'
BY DEF OwnsPids, UsedPids, Accepted

\* The window, when entries leave or keep their message and their level, and
\* wait for PUBCOMP only once the message was handed over.
LEMMA WindowKept ==
  ASSUME NEW own \in Owner, OwnsWindow(own), fwd' = fwd, got \subseteq got',
         \A p \in Window' :
           /\ p \in Window
           /\ in_flight'[p].msg = in_flight[p].msg /\ in_flight'[p].qos2 = in_flight[p].qos2
           /\ in_flight'[p].await_pubcomp =>
                in_flight[p].await_pubcomp \/ in_flight[p].msg \in got'
  PROVE  OwnsWindow(own)'
<1>1. SUFFICES ASSUME NEW p \in Window' PROVE OwnEntry(own, p)'
  BY DEF OwnsWindow
<1>2. OwnEntry(own, p)
  BY <1>1 DEF OwnsWindow
<1>3. Accepted' = Accepted
  BY DEF Accepted
<1>4. QED
  BY <1>1, <1>2, <1>3 DEF OwnEntry

\* An id in use belongs to one message, so if one with that id was handed over
\* it is the one in the window.
LEMMA HandedEntry ==
  ASSUME NEW own \in Owner, Owned(own), NEW p \in Window, Handed(own, p)
  PROVE  in_flight[p].msg \in got
BY DEF Owned, OwnsPids, OwnsWindow, OwnEntry, Handed

\* The window, when nothing of it changes.
LEMMA WindowQuiet ==
  ASSUME NEW own \in Owner, OwnsWindow(own), fwd' = fwd, got \subseteq got',
         in_flight' = in_flight
  PROVE  OwnsWindow(own)'
<1>1. Window' = Window
  BY DEF Window, InUse
<1>2. QED
  BY <1>1, WindowKept

\* A packet more at the end of the queue.
LEMMA QueueLegit ==
  ASSUME IInv, NEW P, write_queue \in QueueOf(P), NEW pkt \in P
  PROVE  /\ Queue0(write_queue, pkt) \in QueueOf(P)
         /\ Accepts1(write_queue) => Queue1(write_queue, pkt) \in QueueOf(P)
<1>1. Len(write_queue) <= WRITE_QUEUE_CAP
  BY DEF IInv, MemoryBounded
<1>2. QED
  BY <1>1, Queue0Bounded, Queue1Bounded

\* The packets of a queue are those it is made of.
LEMMA QueuedIn ==
  ASSUME NEW P, NEW q \in QueueOf(P)
  PROVE  PacketsOf(q) \in Seq(P)
<1> DEFINE E == [rel : BOOLEAN, pkt : P]
<1>1. q \in Seq(E)
  BY DEF QueueOf
<1>2. \A e \in E : e.pkt \in P
  OBVIOUS
<1> HIDE DEF E
<1>3. Len(q) \in Nat /\ DOMAIN q = 1 .. Len(q)
  BY <1>1, LenProperties
<1>4. \A i \in 1 .. Len(q) : q[i].pkt \in P
  BY <1>1, <1>2, ElementOfSeq
<1>5. QED
  BY <1>3, <1>4 DEF PacketsOf

\* A flush moves legitimate packets.
LEMMA FlushLegit ==
  ASSUME IInv, Flush, NEW P, wire \in Seq(P), write_pending \in Seq(P),
         write_queue \in QueueOf(P)
  PROVE  wire' \in Seq(P) /\ write_pending' \in Seq(P) /\ write_queue' \in QueueOf(P)
<1> DEFINE old == Len(write_pending)
           pkts == PacketsOf(write_queue)
           all == write_pending \o pkts
           E == [rel : BOOLEAN, pkt : P]
<1>1. PICK n, end \in Nat : FlushedTo(n, end)
  BY FlushParts
<1>2. write_queue \in Seq(E)
  BY DEF QueueOf
<1>4. QueueOf(P) = Seq(E)
  BY DEF QueueOf
<1> HIDE DEF E
<1>5. Len(write_queue) \in Nat /\ DOMAIN write_queue = 1 .. Len(write_queue) /\ old \in Nat
  BY <1>2, LenProperties
<1>6. pkts \in Seq(P)
  BY QueuedIn
<1>7. /\ Len(all) = old + Len(write_queue)
      /\ n <= end /\ old <= end /\ end <= Len(all)
      /\ wire' = wire \o SubSeq(all, 1, n)
      /\ write_pending' = SubSeq(all, n + 1, end)
      /\ write_queue' = SubSeq(write_queue, end - old + 1, Len(write_queue))
  BY <1>1 DEF FlushedTo
<1> HIDE DEF pkts
<1>8. all \in Seq(P)
  BY <1>6, ConcatProperties
<1> HIDE DEF all, old
<1> DEFINE w == SubSeq(all, 1, n)
           m == end - old + 1
<1>9. w \in Seq(P) /\ write_pending' \in Seq(P)
  <2>1. n <= Len(all) /\ n + 1 \in Nat \ {0}
    BY <1>5, <1>7
  <2>2. QED
    BY <1>7, <1>8, <2>1, PieceType
<1>10. write_queue' \in Seq(E)
  <2>1. m \in Nat \ {0}
    BY <1>5, <1>7
  <2>2. write_queue' = SubSeq(write_queue, m, Len(write_queue))
    BY <1>7
  <2> HIDE DEF m
  <2>3. QED
    BY <1>2, <1>5, <2>1, <2>2, PieceType
<1>11. wire' = wire \o w
  BY <1>7
<1> HIDE DEF w
<1>12. QED
  BY <1>4, <1>9, <1>10, <1>11, ConcatProperties

----------------------------------------------------------------------------
\* Steps that only flush, or nothing of the connection at all.
LEMMA FlushOwned ==
  ASSUME IInv, Stable, NEW own \in Owner, Owned(own),
         Flush \/ UNCHANGED <<write_queue, write_pending, wire>>,
         UNCHANGED <<in_flight, next_pid, acks, held, got, fwd>>, retry' \subseteq retry
  PROVE  Owned(own)'
<1>1. OwnsPids(own)' /\ OwnsWindow(own)'
  BY PidsKept, WindowQuiet DEF Owned, Stable
<1>2. StillOwned(own)
  BY StillLegit
<1>3. OwnsPackets(own)'
  <2> DEFINE M == Legit(own)'
  <2>1. wire \in Seq(M) /\ write_pending \in Seq(M) /\ write_queue \in QueueOf(M) /\ retry \subseteq M
    BY <1>2 DEF StillOwned
  <2> HIDE DEF M
  <2>2. wire' \in Seq(M) /\ write_pending' \in Seq(M) /\ write_queue' \in QueueOf(M)
    <3>1. CASE Flush
      BY <2>1, <3>1, FlushLegit
    <3>2. QED
      BY <2>1, <3>1
  <2>3. QED
    BY <2>1, <2>2 DEF OwnsPackets, QueueOf, M
<1>4. OwnsAnswers(own)'
  BY <1>2 DEF StillOwned, OwnsAnswers
<1>5. QED
  BY <1>1, <1>3, <1>4 DEF Owned

\* A forward at QoS0 carries no id.
LEMMA Qos0Owned ==
  ASSUME IInv, Stable, NEW own \in Owner, Owned(own), NEW m \in Msg, DeliverQos0(m)
  PROVE  Owned(own)'
<1>1. /\ fwd \in [Msg -> 0 .. NotYet] /\ fwd[m] = NotYet /\ fwd' = [fwd EXCEPT ![m] = 0]
      /\ write_queue' = Queue0(write_queue, Publish(0, 0, m))
      /\ UNCHANGED <<in_flight, next_pid, got, held, acks, wire, write_pending, retry>>
  BY DEF IInv, TypeOK, DeliverQos0, loop, subscriber
<1>2. Accepted' = Accepted /\ \A n \in Accepted : fwd'[n] = fwd[n]
  BY <1>1 DEF Accepted, NotYet
<1>3. OwnsPids(own)'
  BY <1>1, <1>2 DEF Owned, OwnsPids, UsedPids
<1>4. OwnsWindow(own)'
  BY <1>1, <1>2 DEF Owned, OwnsWindow, OwnEntry, Window, InUse
<1>5. StillOwned(own)
  BY StillLegit
<1>6. Publish(0, 0, m) \in Legit(own)'
  <2> DEFINE pkt == Publish(0, 0, m)
  <2>1. pkt \in PacketType
    BY Constants DEF Publish, Packet, PacketType
  <2>2. pkt.type = "PUBLISH" /\ pkt.qos = 0 /\ pkt.msg = m
    BY DEF Publish, Packet
  <2> HIDE DEF pkt
  <2>3. fwd'[pkt.msg] = 0
    BY <1>1, <2>2
  <2>4. QED
    BY <2>1, <2>2, <2>3 DEF Legit, LegitPublish, pkt
<1>7. OwnsPackets(own)' /\ OwnsAnswers(own)'
  <2> DEFINE M == Legit(own)'
             pkt == Publish(0, 0, m)
  <2>1. pkt \in M /\ write_queue \in QueueOf(M)
    BY <1>5, <1>6 DEF StillOwned
  <2> HIDE DEF M, pkt
  <2>2. Queue0(write_queue, pkt) \in QueueOf(M)
    BY <2>1, QueueLegit
  <2>3. QED
    BY <1>1, <1>5, <2>2 DEF StillOwned, OwnsPackets, OwnsAnswers, QueueOf, M, pkt
<1>8. QED
  BY <1>3, <1>4, <1>7 DEF Owned

\* Before the counter wraps, the id it shows is free.
LEMMA FreshPid ==
  ASSUME IInv, NEW own \in Owner, OwnsPids(own), OwnsWindow(own), next_pid # 0,
         NEW pid \in Pid, IsNextPid(in_flight, Vacant, next_pid, pid)
  PROVE  pid = next_pid
<1>1. next_pid \in 1 .. MAX_PID /\ MAX_PID \in Nat
  BY Constants DEF IInv, TypeOK
<1>2. in_flight[next_pid] = Vacant
  <2>1. SUFFICES ASSUME in_flight[next_pid] # Vacant PROVE FALSE
    OBVIOUS
  <2>2. next_pid \in Window
    BY <1>1, <2>1 DEF Window, InUse, Pid
  <2>3. next_pid \in UsedPids
    BY <2>2 DEF OwnsWindow, OwnEntry, OwnsPids
  <2>4. QED
    BY <1>1, <2>3 DEF UsedPids
<1>3. ~(Distance(next_pid, next_pid) < Distance(next_pid, pid))
  BY <1>1, <1>2 DEF IsNextPid, Pid
<1>4. QED
  BY <1>1, <1>3 DEF Distance, Pid

\* A forward at QoS1 or QoS2 takes an id that no message had before.
LEMMA ReliableOwned ==
  ASSUME IInv, Stable, Ledger, NEW own \in Owner, Owned(own), FirstUse',
         NEW m \in Msg, NEW qos \in {1, 2}, DeliverReliable(m, qos)
  PROVE  \E own2 \in Owner : Owned(own2)'
<1>1. PICK pid \in Pid :
        /\ IsNextPid(in_flight, Vacant, next_pid, pid)
        /\ next_pid' = AfterPid(pid)
        /\ write_queue' = Queue1(write_queue, Publish(qos, pid, m))
        /\ in_flight' = [in_flight EXCEPT ![pid] = Entry(m, qos = 2)]
  BY DEF DeliverReliable
<1>2. /\ fwd \in [Msg -> 0 .. NotYet] /\ fwd[m] = NotYet /\ fwd' = [fwd EXCEPT ![m] = qos]
      /\ Accepts1(write_queue)
      /\ UNCHANGED <<got, held, acks, wire, write_pending, retry>>
  BY DEF IInv, TypeOK, DeliverReliable, loop, subscriber
<1>3. MAX_PID \in Nat /\ pid \in 1 .. MAX_PID /\ next_pid \in 0 .. MAX_PID
  BY Constants DEF Pid, IInv, TypeOK
<1>4. Accepted' = Accepted \cup {m} /\ m \notin Accepted
  BY <1>2 DEF Accepted, NotYet
<1>5. /\ IsFiniteSet(Accepted) /\ Cardinality(Accepted) \in Nat
      /\ Cardinality(Accepted') = Cardinality(Accepted) + 1
  <2> DEFINE A == Accepted
  <2>1. IsFiniteSet(A) /\ m \notin A
    BY <1>4 DEF Ledger
  <2> HIDE DEF A
  <2>2. Cardinality(A) \in Nat /\ Cardinality(A \cup {m}) = Cardinality(A) + 1
    BY <2>1, FS_AddElement, FS_CardinalityType
  <2>3. QED
    BY <1>4, <2>1, <2>2 DEF A
<1>6. Cardinality(Accepted) + 1 <= MAX_PID
  BY <1>5 DEF FirstUse
<1>7. /\ Cardinality(Accepted) = IF next_pid = 0 THEN MAX_PID ELSE next_pid - 1
      /\ \A n \in Accepted : own[n] \in UsedPids
      /\ \A n, k \in Accepted : own[n] = own[k] => n = k
  BY DEF Owned, OwnsPids
<1>8. next_pid # 0
  BY <1>3, <1>6, <1>7
<1>9. pid = next_pid
  BY <1>1, <1>8, FreshPid DEF Owned
<1>10. UsedPids = 1 .. pid - 1 /\ Cardinality(Accepted') = pid
  BY <1>3, <1>5, <1>7, <1>8, <1>9 DEF UsedPids
<1>11. next_pid' = IF pid = MAX_PID THEN 0 ELSE pid + 1
  BY <1>1, <1>3 DEF AfterPid
<1>12. UsedPids' = 1 .. pid
  BY <1>3, <1>11 DEF UsedPids, Pid
<1>13. PICK own2 \in Owner : own2 = [own EXCEPT ![m] = pid]
  <2>1. [own EXCEPT ![m] = pid] \in Owner
    BY <1>3 DEF Owner
  <2>2. QED
    BY <2>1
<1>14. own2[m] = pid /\ \A n \in Msg : n # m => own2[n] = own[n]
  BY <1>13 DEF Owner
<1>15. \A n \in Accepted : n \in Msg /\ n # m /\ own2[n] = own[n] /\ own2[n] \in 1 .. pid - 1
  BY <1>4, <1>7, <1>10, <1>14 DEF Accepted
<1>16. OwnsPids(own2)'
  <2>1. \A n \in Accepted' : own2[n] \in UsedPids'
    BY <1>3, <1>4, <1>12, <1>14, <1>15
  <2>2. \A n, k \in Accepted' : own2[n] = own2[k] => n = k
    <3>1. \A n \in Accepted : own2[n] # pid
      BY <1>3, <1>15
    <3>2. QED
      BY <1>4, <1>7, <1>14, <1>15, <3>1
  <2>3. Cardinality(Accepted') = IF next_pid' = 0 THEN MAX_PID ELSE next_pid' - 1
    BY <1>3, <1>10, <1>11
  <2>4. QED
    BY <2>1, <2>2, <2>3 DEF OwnsPids
<1>17. OwnsWindow(own2)'
  <2>1. SUFFICES ASSUME NEW p \in Window' PROVE OwnEntry(own2, p)'
    BY DEF OwnsWindow
  <2>2. in_flight \in [Pid -> InFlightType] /\ p \in Pid
    BY <2>1 DEF IInv, TypeOK, Window, InUse
  <2>3. CASE p = pid
    <3> DEFINE e == Entry(m, qos = 2)
    <3>1. e.msg = m /\ e.await_pubcomp = FALSE /\ e.qos2 = (qos = 2)
      BY DEF Entry
    <3> HIDE DEF e
    <3>2. in_flight'[p] = e
      BY <1>1, <2>2, <2>3 DEF e
    <3>3. fwd'[m] = IF qos = 2 THEN 2 ELSE 1
      BY <1>2
    <3>4. QED
      BY <1>4, <1>14, <2>3, <3>1, <3>2, <3>3 DEF OwnEntry
  <2>4. CASE p # pid
    <3>1. in_flight'[p] = in_flight[p] /\ p \in Window
      BY <1>1, <2>1, <2>2, <2>4 DEF Window, InUse
    <3>2. OwnEntry(own, p)
      BY <3>1 DEF Owned, OwnsWindow
    <3> DEFINE n == in_flight[p].msg
    <3>3. n \in Accepted /\ own2[n] = own[n] /\ fwd'[n] = fwd[n]
      BY <1>2, <1>15, <3>2 DEF OwnEntry
    <3>4. QED
      BY <1>2, <1>4, <3>1, <3>2, <3>3 DEF OwnEntry
  <2>5. QED
    BY <2>3, <2>4
<1>18. StillOwned(own2)
  <2>1. \A n \in Accepted : own2[n] = own[n]
    BY <1>15
  <2>2. QED
    BY <2>1, StillLegit
<1>19. Publish(qos, pid, m) \in Legit(own2)'
  <2> DEFINE pkt == Publish(qos, pid, m)
  <2>1. pkt \in PacketType
    BY <1>3 DEF Publish, Packet, PacketType
  <2>2. pkt.type = "PUBLISH" /\ pkt.qos = qos /\ pkt.msg = m /\ pkt.pid = pid
    BY DEF Publish, Packet
  <2> HIDE DEF pkt
  <2>3. fwd'[pkt.msg] = qos /\ own2[pkt.msg] = pid
    BY <1>2, <1>14, <2>2
  <2>4. QED
    BY <2>1, <2>2, <2>3 DEF Legit, LegitPublish, pkt
<1>20. OwnsPackets(own2)' /\ OwnsAnswers(own2)'
  <2> DEFINE M == Legit(own2)'
             pkt == Publish(qos, pid, m)
  <2>1. pkt \in M /\ write_queue \in QueueOf(M)
    BY <1>18, <1>19 DEF StillOwned
  <2> HIDE DEF M, pkt
  <2>2. Queue1(write_queue, pkt) \in QueueOf(M)
    BY <1>2, <2>1, QueueLegit
  <2>3. QED
    BY <1>1, <1>2, <1>18, <2>2 DEF StillOwned, OwnsPackets, OwnsAnswers, QueueOf, M, pkt
<1>21. QED
  BY <1>16, <1>17, <1>20 DEF Owned

\* The packet at the head of what the subscriber sent.
LEMMA AckRead ==
  ASSUME IInv, NEW own \in Owner, StillOwned(own), NEW type, ReadPacket(type)
  PROVE  /\ Head(acks) \in AckType /\ Head(acks).type = type
         /\ acks' \in Seq(LegitAck(own)')
         /\ UNCHANGED <<next_pid, retry, held, got, wire, write_pending, fwd>>
<1> DEFINE N == LegitAck(own)'
<1>1. acks \in Seq(AckType) /\ acks # <<>> /\ Head(acks).type = type /\ acks' = Tail(acks)
  BY DEF IInv, TypeOK, ReadPacket, Reading
<1>2. acks \in Seq(N)
  BY DEF StillOwned
<1> HIDE DEF N
<1>3. Head(acks) \in AckType /\ Tail(acks) \in Seq(N)
  BY <1>1, <1>2, HeadTailProperties
<1>4. QED
  BY <1>1, <1>3 DEF ReadPacket, loop, subscriber, N

\* What a legitimate answer proves.
LEMMA AckHanded ==
  ASSUME NEW own \in Owner, Owned(own), acks # <<>>, Head(acks).type # "PINGREQ"
  PROVE  Handed(own, Head(acks).pid)
<1> DEFINE K == LegitAck(own)
<1>1. acks \in Seq(K)
  BY DEF Owned, OwnsAnswers
<1> HIDE DEF K
<1>2. Head(acks) \in K
  BY <1>1, HeadTailProperties
<1>3. QED
  BY <1>2 DEF K, LegitAck

\* A PUBREL carries the id it was built with.
LEMMA PubrelFacts ==
  \A p \in 0 .. MAX_PID :
    Pubrel(p) \in PacketType /\ Pubrel(p).type = "PUBREL" /\ Pubrel(p).pid = p
BY Constants DEF Pubrel, Packet, PacketType

\* PUBACK, PUBREC, PUBCOMP and PINGREQ.
LEMMA HandleOwned ==
  ASSUME IInv, Stable, NEW own \in Owner, Owned(own), HandlePacket
  PROVE  Owned(own)'
<1> DEFINE M == Legit(own)'
<1>1. PICK pid : pid = Head(acks).pid
  OBVIOUS
<1>2. StillOwned(own)
  BY StillLegit
<1>3. /\ acks # <<>> /\ Head(acks) \in AckType /\ acks' \in Seq(LegitAck(own)')
      /\ UNCHANGED <<next_pid, retry, held, got, wire, write_pending, fwd>>
  BY <1>2, AckRead DEF HandlePacket, HandlePuback, HandlePubrec, HandlePubcomp, HandlePingreq,
                      ReadPacket, Reading
<1>4. OwnsAnswers(own)' /\ OwnsPids(own)'
  BY <1>2, <1>3, PidsKept DEF StillOwned, OwnsAnswers, Owned
<1>5. write_queue \in QueueOf(M)
  BY <1>2 DEF StillOwned
<1>6. in_flight \in [Pid -> InFlightType] /\ Vacant.await_pubcomp = FALSE
  BY DEF IInv, TypeOK, Vacant, Entry
<1>7. CASE HandlePuback \/ HandlePubcomp
  <2>1. in_flight' = [in_flight EXCEPT ![pid] = Vacant] /\ write_queue' = write_queue
    BY <1>1, <1>7 DEF HandlePuback, HandlePubcomp
  <2>2. \A p \in Window' : p \in Window /\ in_flight'[p] = in_flight[p]
    BY <1>6, <2>1 DEF Window, InUse
  <2>3. OwnsWindow(own)'
    BY <1>3, <2>2, WindowKept DEF Owned
  <2>4. OwnsPackets(own)'
    BY <1>2, <1>3, <2>1 DEF StillOwned, OwnsPackets, QueueOf
  <2>5. QED
    BY <1>4, <2>3, <2>4 DEF Owned
<1>8. CASE HandlePingreq
  <2>1. write_queue' = Queue0(write_queue, Pingresp) /\ in_flight' = in_flight
    BY <1>8 DEF HandlePingreq
  <2>2. OwnsWindow(own)'
    BY <1>3, <2>1, WindowQuiet DEF Owned
  <2>3. Pingresp \in M
    BY PacketTypes DEF Legit, Pingresp, Packet
  <2>4. OwnsPackets(own)'
    <3> HIDE DEF M
    <3>1. Queue0(write_queue, Pingresp) \in QueueOf(M)
      BY <1>5, <2>3, QueueLegit
    <3>2. QED
      BY <1>2, <1>3, <2>1, <3>1 DEF StillOwned, OwnsPackets, QueueOf, M
  <2>5. QED
    BY <1>4, <2>2, <2>4 DEF Owned
<1>9. CASE HandlePubrec
  <2> DEFINE entry == in_flight[pid]
             waiting == [entry EXCEPT !.await_pubcomp = TRUE, !.retries = 0, !.due = FALSE]
  <2>1. Handed(own, pid) /\ pid \in 0 .. MAX_PID
    BY <1>1, <1>3, <1>9, AckHanded DEF HandlePubrec, ReadPacket, AckType
  <2>2. CASE UNCHANGED <<in_flight, write_queue>>
    <3>1. OwnsWindow(own)'
      BY <1>3, <2>2, WindowQuiet DEF Owned
    <3>2. OwnsPackets(own)'
      BY <1>2, <1>3, <2>2 DEF StillOwned, OwnsPackets, QueueOf
    <3>3. QED
      BY <1>4, <3>1, <3>2 DEF Owned
  <2>3. CASE /\ in_flight' = [in_flight EXCEPT ![pid] = waiting]
             /\ write_queue' = Queue0(write_queue, Pubrel(pid))
             /\ entry # Vacant
    <3>1. ASSUME NEW p \in Window'
          PROVE  /\ p \in Window
                 /\ in_flight'[p].msg = in_flight[p].msg /\ in_flight'[p].qos2 = in_flight[p].qos2
                 /\ in_flight'[p].await_pubcomp =>
                      in_flight[p].await_pubcomp \/ in_flight[p].msg \in got'
      <4>1. p \in Pid /\ in_flight'[p] # Vacant
        BY <3>1 DEF Window, InUse
      <4>2. CASE p # pid
        BY <1>6, <2>3, <4>1, <4>2 DEF Window, InUse
      <4>3. CASE p = pid
        <5>1. entry \in InFlightType /\ entry # Vacant
          BY <1>6, <2>3, <4>1, <4>3
        <5>2. waiting.msg = entry.msg /\ waiting.qos2 = entry.qos2
          BY <5>1 DEF InFlightType
        <5>3. in_flight'[p] = waiting
          BY <1>6, <2>3, <4>1, <4>3
        <5>4. p \in Window
          BY <4>1, <4>3, <5>1 DEF Window, InUse
        <5>5. entry.msg \in got
          BY <2>1, <4>3, <5>4, HandedEntry
        <5> HIDE DEF waiting
        <5>6. QED
          BY <1>3, <4>3, <5>2, <5>3, <5>4, <5>5
      <4>4. QED
        BY <4>2, <4>3
    <3>2. OwnsWindow(own)'
      BY <1>3, <3>1, WindowKept DEF Owned
    <3>3. Pubrel(pid) \in M
      <4>1. Pubrel(pid) \in PacketType /\ Pubrel(pid).type = "PUBREL" /\ Pubrel(pid).pid = pid
        BY <2>1, PubrelFacts
      <4>2. Handed(own, pid)'
        BY <1>3, <2>1 DEF Handed, Accepted
      <4>3. QED
        BY <4>1, <4>2 DEF Legit
    <3>4. OwnsPackets(own)'
      <4> HIDE DEF M
      <4>1. Queue0(write_queue, Pubrel(pid)) \in QueueOf(M)
        BY <1>5, <3>3, QueueLegit
      <4>2. QED
        BY <1>2, <1>3, <2>3, <4>1 DEF StillOwned, OwnsPackets, QueueOf, M
    <3>5. QED
      BY <1>4, <3>2, <3>4 DEF Owned
  <2>4. QED
    BY <1>1, <1>9, <2>2, <2>3 DEF HandlePubrec
<1>10. QED
  BY <1>7, <1>8, <1>9 DEF HandlePacket

\* What the scan puts on the list is legitimate.
LEMMA ScanOwned ==
  ASSUME IInv, Stable, NEW own \in Owner, Owned(own), Scan
  PROVE  Owned(own)'
<1>1. /\ UNCHANGED <<in_flight, next_pid, write_queue, write_pending, wire, acks, held, got, fwd>>
      /\ retry' = {Retransmission(p) : p \in {p \in Due : MayRetry(p)}}
  BY DEF Scan, client, subscriber
<1>2. StillOwned(own)
  BY StillLegit
<1>3. OwnsPids(own)' /\ OwnsWindow(own)'
  BY <1>1, PidsKept, WindowQuiet DEF Owned
<1>4. ASSUME NEW p \in Window PROVE Retransmission(p) \in Legit(own)'
  <2> DEFINE entry == in_flight[p]
             pkt == Retransmission(p)
             released == entry.qos2 /\ entry.await_pubcomp
  <2>1. p \in 0 .. MAX_PID /\ entry \in InFlightType /\ entry # Vacant
    BY <1>4, Constants DEF IInv, TypeOK, Window, InUse, Pid
  <2>2. entry.msg \in Msg
    BY <2>1 DEF InFlightType
  <2>3. /\ entry.msg \in Accepted /\ own[entry.msg] = p
        /\ fwd[entry.msg] = IF entry.qos2 THEN 2 ELSE 1
        /\ entry.await_pubcomp => entry.msg \in got
    BY <1>4 DEF Owned, OwnsWindow, OwnEntry
  <2>4. pkt = IF released THEN Packet("PUBREL", 0, p, NoMsg, TRUE)
              ELSE Packet("PUBLISH", IF entry.qos2 THEN 2 ELSE 1, p, entry.msg, TRUE)
    BY DEF Retransmission
  <2> HIDE DEF entry, pkt
  <2>5. CASE released
    <3>1. pkt \in PacketType /\ pkt.type = "PUBREL" /\ pkt.pid = p
      BY <2>1, <2>4, <2>5, Constants DEF Packet, PacketType
    <3>2. Handed(own, p)'
      BY <1>1, <2>3, <2>5 DEF Handed, Accepted
    <3>3. pkt \in Legit(own)'
      BY <3>1, <3>2 DEF Legit
    <3>4. QED
      BY <3>3 DEF pkt
  <2>6. CASE ~released
    <3>1. /\ pkt \in PacketType /\ pkt.type = "PUBLISH" /\ pkt.pid = p /\ pkt.msg = entry.msg
          /\ pkt.qos = IF entry.qos2 THEN 2 ELSE 1
      BY <2>1, <2>2, <2>4, <2>6, Constants DEF Packet, PacketType
    <3>2. fwd'[pkt.msg] = pkt.qos /\ own[pkt.msg] = pkt.pid
      BY <1>1, <2>3, <3>1
    <3>3. pkt \in Legit(own)'
      BY <3>1, <3>2 DEF Legit, LegitPublish
    <3>4. QED
      BY <3>3 DEF pkt
  <2>7. QED
    BY <2>5, <2>6
<1>5. retry' \subseteq Legit(own)'
  BY <1>1, <1>4 DEF Due
<1>6. OwnsPackets(own)' /\ OwnsAnswers(own)'
  BY <1>1, <1>2, <1>5 DEF StillOwned, OwnsPackets, OwnsAnswers, QueueOf
<1>7. QED
  BY <1>3, <1>6 DEF Owned

\* A retransmission and the timer leave message, level and handshake of an
\* entry alone.
LEMMA EntryKept ==
  ASSUME IInv, NEW own \in Owner, Owned(own), UNCHANGED <<fwd, got>>,
         NEW pid \in Pid,
         NEW w, w.msg = in_flight[pid].msg, w.qos2 = in_flight[pid].qos2,
         w.await_pubcomp = in_flight[pid].await_pubcomp, in_flight[pid] # Vacant,
         in_flight' = [in_flight EXCEPT ![pid] = w]
  PROVE  OwnsWindow(own)'
<1>1. in_flight \in [Pid -> InFlightType]
  BY DEF IInv, TypeOK
<1>2. ASSUME NEW p \in Window'
      PROVE  /\ p \in Window
             /\ in_flight'[p].msg = in_flight[p].msg /\ in_flight'[p].qos2 = in_flight[p].qos2
             /\ in_flight'[p].await_pubcomp = in_flight[p].await_pubcomp
  BY <1>1, <1>2 DEF Window, InUse
<1>3. QED
  BY <1>2, WindowKept DEF Owned

\* One retransmission.
LEMMA RetryOwned ==
  ASSUME IInv, Stable, NEW own \in Owner, Owned(own), connected', NEW pkt \in retry, Retry(pkt)
  PROVE  Owned(own)'
<1> DEFINE M == Legit(own)'
<1>1. Accepts1(write_queue)
  BY DEF Retry, NoClient
<1>2. /\ UNCHANGED <<next_pid, write_pending, wire, acks, held, got, fwd>>
      /\ write_queue' = Queue1(write_queue, pkt) /\ retry' \subseteq retry
  BY <1>1 DEF Retry
<1>3. StillOwned(own)
  BY StillLegit
<1>4. OwnsPids(own)'
  BY <1>2, PidsKept DEF Owned
<1>5. OwnsWindow(own)'
  <2>1. pkt.pid \in Pid
    BY DEF IInv, RetryListed
  <2>2. CASE in_flight[pkt.pid] = Vacant
    <3>1. in_flight' = in_flight
      BY <1>1, <2>2 DEF Retry
    <3>2. QED
      BY <1>2, <3>1, WindowQuiet DEF Owned
  <2>3. CASE in_flight[pkt.pid] # Vacant
    <3> DEFINE e == in_flight[pkt.pid]
               w == [e EXCEPT !.due = FALSE, !.retries = @ + 1]
    <3>1. in_flight \in [Pid -> InFlightType]
      BY DEF IInv, TypeOK
    <3>2. in_flight' = [in_flight EXCEPT ![pkt.pid] = w]
      BY <1>1, <2>1, <2>3, <3>1 DEF Retry
    <3>3. w.msg = e.msg /\ w.qos2 = e.qos2 /\ w.await_pubcomp = e.await_pubcomp
      <4>1. e \in InFlightType /\ e # Vacant
        BY <2>1, <2>3, <3>1
      <4> HIDE DEF e
      <4>2. QED
        BY <4>1 DEF InFlightType
    <3> HIDE DEF w
    <3>4. QED
      BY <1>2, <2>1, <2>3, <3>2, <3>3, EntryKept
  <2>4. QED
    BY <2>2, <2>3
<1>6. OwnsPackets(own)' /\ OwnsAnswers(own)'
  <2>1. pkt \in M /\ write_queue \in QueueOf(M)
    BY <1>3 DEF StillOwned
  <2> HIDE DEF M
  <2>2. Queue1(write_queue, pkt) \in QueueOf(M)
    BY <1>1, <2>1, QueueLegit
  <2>3. QED
    BY <1>2, <1>3, <2>2 DEF StillOwned, OwnsPackets, OwnsAnswers, QueueOf, M
<1>7. QED
  BY <1>4, <1>5, <1>6 DEF Owned

\* The timer of an entry.
LEMMA ElapseOwned ==
  ASSUME IInv, Stable, NEW own \in Owner, Owned(own), NEW p \in Pid, RetryElapse(p)
  PROVE  Owned(own)'
<1> DEFINE e == in_flight[p]
           w == [e EXCEPT !.due = TRUE]
<1>1. /\ UNCHANGED <<next_pid, write_queue, write_pending, wire, acks, held, got, retry, fwd>>
      /\ e \in InFlightType /\ e # Vacant /\ in_flight' = [in_flight EXCEPT ![p] = w]
  BY DEF IInv, TypeOK, RetryElapse, loop, subscriber
<1>2. w.msg = e.msg /\ w.qos2 = e.qos2 /\ w.await_pubcomp = e.await_pubcomp
  <2> HIDE DEF e
  <2>1. QED
    BY <1>1 DEF InFlightType
<1>3. OwnsWindow(own)'
  <2> HIDE DEF w
  <2>1. QED
    BY <1>1, <1>2, EntryKept
<1>4. StillOwned(own)
  BY StillLegit
<1>5. OwnsPids(own)' /\ OwnsPackets(own)' /\ OwnsAnswers(own)'
  BY <1>1, <1>4, PidsKept DEF Owned, StillOwned, OwnsPackets, OwnsAnswers, QueueOf
<1>6. QED
  BY <1>3, <1>5 DEF Owned

\* The subscriber reads one packet: what it answers it has handed over.
LEMMA ReadOwned ==
  ASSUME IInv, Stable, NEW own \in Owner, Owned(own), SubscriberRead
  PROVE  Owned(own)'
<1> DEFINE M == Legit(own)'
           N == LegitAck(own)'
<1>1. PICK pkt : pkt = Head(wire)
  OBVIOUS
<1>2. /\ wire \in Seq(PacketType) /\ wire # <<>> /\ wire' = Tail(wire)
      /\ UNCHANGED <<in_flight, next_pid, write_queue, write_pending, retry, fwd>>
  BY DEF IInv, TypeOK, SubscriberRead, client, loop
<1>3. ReadPublish(pkt) \/ ReadPubrel(pkt) \/ ReadPingresp(pkt)
  BY <1>1 DEF SubscriberRead
<1>4. StillOwned(own)
  BY StillLegit
<1>5. OwnsPids(own)' /\ OwnsWindow(own)'
  BY <1>2, PidsKept, WindowQuiet DEF Owned, Stable
<1>6. OwnsPackets(own)'
  <2>1. wire \in Seq(M)
    BY <1>4 DEF StillOwned
  <2> HIDE DEF M
  <2>2. wire' \in Seq(M)
    BY <1>2, <2>1, HeadTailProperties
  <2>3. QED
    BY <1>2, <1>4, <2>2 DEF StillOwned, OwnsPackets, QueueOf, M
<1>7. pkt \in Legit(own)
  <2> DEFINE L == Legit(own)
  <2>1. wire \in Seq(L)
    BY DEF Owned, OwnsPackets
  <2> HIDE DEF L
  <2>2. QED
    BY <1>1, <1>2, <2>1, HeadTailProperties DEF L
<1>8. pkt \in PacketType /\ pkt.pid \in 0 .. MAX_PID
  BY <1>7 DEF Legit, PacketType
<1>9. \A p : Handed(own, p) => Handed(own, p)'
  BY LegitGrows
<1>10. acks \in Seq(N) /\ \A p \in held : Handed(own, p)
  BY <1>4 DEF StillOwned, Owned, OwnsAnswers
<1>11. \A t \in {"PUBACK", "PUBREC", "PUBCOMP"} :
         Handed(own, pkt.pid)' => Append(acks, Ack(t, pkt.pid)) \in Seq(N)
  <2>1. SUFFICES ASSUME NEW t \in {"PUBACK", "PUBREC", "PUBCOMP"}, Handed(own, pkt.pid)'
                 PROVE  Append(acks, Ack(t, pkt.pid)) \in Seq(N)
    OBVIOUS
  <2>2. Ack(t, pkt.pid) \in N
    BY <1>8, <2>1 DEF LegitAck, Ack, AckType
  <2> HIDE DEF N
  <2>3. QED
    BY <1>10, <2>2, AppendProperties
<1> HIDE DEF M, N
<1>12. CASE ReadPublish(pkt)
  <2>1. /\ pkt.type = "PUBLISH" /\ got \subseteq got' /\ got' \subseteq got \cup {pkt.msg}
        /\ pkt.qos # 2 \/ pkt.pid \notin held => pkt.msg \in got'
        /\ held' \subseteq IF pkt.qos = 2 THEN held \cup {pkt.pid} ELSE held
    BY <1>12 DEF ReadPublish
  <2>2. pkt.msg \in Msg /\ pkt.qos \in 0 .. 2 /\ LegitPublish(own, pkt)
    BY <1>7, <1>8, <2>1 DEF Legit, PacketType
  <2>3. fwd[pkt.msg] = pkt.qos /\ (pkt.qos # 0 => own[pkt.msg] = pkt.pid)
    BY <2>2 DEF LegitPublish
  <2>4. \A m \in got' : fwd'[m] # NotYet
    <3>1. \A m \in got : fwd'[m] # NotYet
      BY <1>4 DEF StillOwned
    <3>2. fwd'[pkt.msg] # NotYet
      BY <1>2, <2>2, <2>3 DEF NotYet
    <3>3. QED
      BY <2>1, <3>1, <3>2
  <2>5. pkt.qos # 0 => Handed(own, pkt.pid)'
    <3>1. SUFFICES ASSUME pkt.qos # 0 PROVE Handed(own, pkt.pid)'
      OBVIOUS
    <3>2. pkt.msg \in Accepted /\ Accepted' = Accepted
      BY <1>2, <2>2, <2>3, <3>1 DEF Accepted
    <3>3. CASE pkt.qos = 2 /\ pkt.pid \in held
      BY <1>9, <1>10, <3>3
    <3>4. CASE ~(pkt.qos = 2 /\ pkt.pid \in held)
      BY <2>1, <2>3, <3>1, <3>2, <3>4 DEF Handed
    <3>5. QED
      BY <3>3, <3>4
  <2>6. \A p \in held' : Handed(own, p)'
    <3>1. \A p \in held : Handed(own, p)'
      BY <1>9, <1>10
    <3>2. QED
      BY <2>1, <2>5, <3>1
  <2>7. acks' \in Seq(N)
    <3>1. CASE pkt.qos = 0
      BY <1>10, <1>12, <3>1 DEF ReadPublish
    <3>2. CASE pkt.qos = 1
      BY <1>11, <1>12, <2>5, <3>2 DEF ReadPublish
    <3>3. CASE pkt.qos = 2
      BY <1>11, <1>12, <2>5, <3>3 DEF ReadPublish
    <3>4. QED
      BY <2>2, <3>1, <3>2, <3>3
  <2>8. QED
    BY <1>5, <1>6, <2>4, <2>6, <2>7 DEF Owned, OwnsAnswers, N
<1>13. CASE ReadPubrel(pkt) \/ ReadPingresp(pkt)
  <2>1. got' = got /\ held' \subseteq held
    BY <1>13 DEF ReadPubrel, ReadPingresp
  <2>2. acks' \in Seq(N)
    <3>1. CASE ReadPubrel(pkt)
      <4>1. Handed(own, pkt.pid)
        BY <1>7, <3>1 DEF ReadPubrel, Legit, LegitPublish
      <4>2. QED
        BY <1>9, <1>11, <3>1, <4>1 DEF ReadPubrel
    <3>2. CASE ReadPingresp(pkt)
      BY <1>10, <3>2 DEF ReadPingresp
    <3>3. QED
      BY <1>13, <3>1, <3>2
  <2>3. OwnsAnswers(own)'
    BY <1>4, <2>1, <2>2 DEF StillOwned, OwnsAnswers, N
  <2>4. QED
    BY <1>5, <1>6, <2>3 DEF Owned
<1>14. QED
  BY <1>3, <1>12, <1>13

\* Time and pings.
LEMMA PingOwned ==
  ASSUME IInv, Stable, NEW own \in Owner, Owned(own), SubscriberPing
  PROVE  Owned(own)'
<1> DEFINE N == LegitAck(own)'
<1>1. /\ UNCHANGED <<in_flight, next_pid, write_queue, write_pending, wire, held, got, retry, fwd>>
      /\ acks' = Append(acks, Ack("PINGREQ", 0))
  BY DEF SubscriberPing, client, loop, subscriber
<1>2. StillOwned(own)
  BY StillLegit
<1>3. acks' \in Seq(N)
  <2>1. Ack("PINGREQ", 0) \in N /\ acks \in Seq(N)
    BY <1>2, Constants DEF StillOwned, LegitAck, Ack, AckType
  <2> HIDE DEF N
  <2>2. QED
    BY <1>1, <2>1, AppendProperties
<1>4. OwnsPids(own)' /\ OwnsWindow(own)'
  BY <1>1, PidsKept, WindowQuiet DEF Owned
<1>5. OwnsPackets(own)' /\ OwnsAnswers(own)'
  BY <1>1, <1>2, <1>3 DEF StillOwned, OwnsPackets, OwnsAnswers, QueueOf
<1>6. QED
  BY <1>4, <1>5 DEF Owned

\* FirstUse, once lost, stays lost, and the set of accepted messages is finite.
LEMMA StepLedger ==
  ASSUME IInv, Ledger, [Next]_vars
  PROVE  /\ Ledger'
         /\ FirstUse' => FirstUse
<1>1. Stable /\ (connected' => connected) /\ connected \in BOOLEAN
      /\ fwd \in [Msg -> 0 .. NotYet]
  BY StepStable DEF IInv, TypeOK
<1>2. Accepted \subseteq Accepted'
  BY <1>1 DEF Accepted, Stable, NotYet
<1>3. \E m : Accepted' \subseteq Accepted \cup {m}
  <2>1. CASE \E m \in Msg : DeliverTo(m)
    <3>1. PICK m \in Msg : DeliverTo(m)
      BY <2>1
    <3>2. \A n \in Msg : n # m => fwd'[n] = fwd[n]
      BY <1>1, <3>1 DEF DeliverTo, DeliverQos0, DeliverReliable, DeliverOverflow
    <3>3. QED
      BY <3>2 DEF Accepted
  <2>2. CASE ~\E m \in Msg : DeliverTo(m)
    <3>1. fwd' = fwd
      BY <2>2 DEF Next, HandlePacket, HandlePuback, HandlePubrec, HandlePubcomp, HandlePingreq,
                  ReadPacket, Disconnect, WritableEvent, Turn, Scan, FlushPending, SweepDone,
                  FlushPending2, RemoveDead, Retry, RetryDone, GiveUp, RetryElapse,
                  KeepaliveElapse, SubscriberRead, SubscriberPing, vars
    <3>2. QED
      BY <3>1 DEF Accepted
  <2>3. QED
    BY <2>1, <2>2
<1>4. IsFiniteSet(Accepted') /\ Cardinality(Accepted) <= Cardinality(Accepted')
      /\ Cardinality(Accepted) \in Nat /\ Cardinality(Accepted') \in Nat
  <2> DEFINE A == Accepted
             B == Accepted'
  <2>1. PICK m : B \subseteq A \cup {m}
    BY <1>3
  <2>2. IsFiniteSet(A) /\ A \subseteq B
    BY <1>2 DEF Ledger
  <2> HIDE DEF A, B
  <2>3. IsFiniteSet(A \cup {m})
    BY <2>2, FS_AddElement
  <2>4. IsFiniteSet(B)
    BY <2>1, <2>3, FS_Subset
  <2>5. Cardinality(A) <= Cardinality(B) /\ Cardinality(A) \in Nat /\ Cardinality(B) \in Nat
    BY <2>2, <2>4, FS_Subset, FS_CardinalityType
  <2>6. QED
    BY <2>4, <2>5 DEF A, B
<1>5. FirstUse' => FirstUse
  BY <1>4, Constants DEF FirstUse
<1>6. ~connected' => wire' = <<>> /\ write_pending' = <<>> /\ write_queue' = <<>>
  <2>1. SUFFICES ASSUME ~connected' PROVE wire' = <<>> /\ write_pending' = <<>> /\ write_queue' = <<>>
    OBVIOUS
  <2>2. CASE NoClient
    BY <2>2 DEF NoClient
  <2>3. CASE ~connected
    <3>1. UNCHANGED <<wire, write_pending, write_queue>>
      BY <2>3 DEF Next, DeliverTo, DeliverQos0, DeliverReliable, DeliverOverflow,
                  HandlePacket, HandlePuback, HandlePubrec, HandlePubcomp, HandlePingreq,
                  ReadPacket, Reading, Disconnect, WritableEvent, Turn, Scan, FlushPending,
                  SweepDone, FlushPending2, RemoveDead, Retry, RetryDone, GiveUp, RetryElapse,
                  KeepaliveElapse, SubscriberRead, SubscriberPing, vars, client
    <3>2. QED
      BY <2>3, <3>1 DEF Ledger
  <2>4. connected => NoClient
    BY <2>1 DEF Next, DeliverTo, DeliverQos0, DeliverReliable, DeliverOverflow,
                HandlePacket, HandlePuback, HandlePubrec, HandlePubcomp, HandlePingreq,
                ReadPacket, Disconnect, WritableEvent, Turn, Scan, FlushPending,
                SweepDone, FlushPending2, RemoveDead, Retry, RetryDone, GiveUp, RetryElapse,
                KeepaliveElapse, SubscriberRead, SubscriberPing, vars, client
  <2>5. QED
    BY <2>2, <2>3, <2>4
<1>7. QED
  BY <1>4, <1>5, <1>6 DEF Ledger

\* Every step of a connection that is still open keeps the owners.
LEMMA StepOwned ==
  ASSUME IInv, Ledger, NEW own \in Owner, Owned(own), connected', FirstUse', [Next]_vars
  PROVE  \E own2 \in Owner : Owned(own2)'
<1>1. Stable
  BY StepStable
<1>2. CASE \E m \in Msg : DeliverTo(m)
  <2>1. PICK m \in Msg : DeliverTo(m)
    BY <1>2
  <2>2. CASE DeliverQos0(m)
    BY <1>1, <2>2, Qos0Owned
  <2>3. ASSUME NEW qos \in FWD_QOS \cap {1, 2}, DeliverReliable(m, qos)
        PROVE  \E own2 \in Owner : Owned(own2)'
    BY <1>1, <2>3, ReliableOwned
  <2>4. ~DeliverOverflow(m)
    BY DEF DeliverOverflow, NoClient
  <2>5. QED
    BY <2>1, <2>2, <2>3, <2>4 DEF DeliverTo
<1>3. CASE HandlePacket
  BY <1>1, <1>3, HandleOwned
<1>4. ~Disconnect
  BY DEF Disconnect, NoClient
<1>5. CASE WritableEvent
  BY <1>1, <1>5, FlushOwned DEF WritableEvent, loop, subscriber
<1>6. CASE Turn
  <2>1. CASE Scan
    BY <1>1, <2>1, ScanOwned
  <2>2. CASE FlushPending \/ FlushPending2
    BY <1>1, <2>2, FlushOwned DEF FlushPending, FlushPending2, subscriber
  <2>3. CASE SweepDone \/ RetryDone
    BY <1>1, <2>3, FlushOwned DEF SweepDone, RetryDone, client, subscriber
  <2>4. CASE RemoveDead \/ GiveUp
    BY <1>1, <2>4, FlushOwned DEF RemoveDead, GiveUp, NoClient, client
  <2>5. CASE \E pkt \in retry : Retry(pkt)
    BY <1>1, <2>5, RetryOwned
  <2>6. QED
    BY <1>6, <2>1, <2>2, <2>3, <2>4, <2>5 DEF Turn
<1>7. CASE \E p \in Pid : RetryElapse(p)
  BY <1>1, <1>7, ElapseOwned
<1>8. CASE SubscriberRead
  BY <1>1, <1>8, ReadOwned
<1>9. CASE SubscriberPing
  BY <1>1, <1>9, PingOwned
<1>10. CASE KeepaliveElapse \/ UNCHANGED vars
  BY <1>1, <1>10, FlushOwned DEF KeepaliveElapse, vars, client, loop, subscriber
<1>11. QED
  BY <1>2, <1>3, <1>4, <1>5, <1>6, <1>7, <1>8, <1>9, <1>10 DEF Next

\* At first no message has an owner.
LEMMA InitOwned == Init => OwnInv
<1>1. SUFFICES ASSUME Init PROVE OwnInv
  OBVIOUS
<1>2. Accepted = {} /\ Window = {}
  BY <1>1 DEF Init, Accepted, NotYet, Window, InUse
<1>3. IsFiniteSet(Accepted) /\ Cardinality(Accepted) = 0
  BY <1>2, FS_EmptySet
<1>4. Ledger
  BY <1>1, <1>3 DEF Init, Ledger
<1>5. PICK own \in Owner : own = [m \in Msg |-> 0]
  <2>1. [m \in Msg |-> 0] \in Owner
    BY Constants DEF Owner
  <2>2. QED
    BY <2>1
<1>6. OwnsPids(own)
  BY <1>1, <1>2, <1>3 DEF Init, OwnsPids
<1>7. OwnsWindow(own)
  BY <1>2 DEF OwnsWindow
<1>8. OwnsPackets(own) /\ OwnsAnswers(own)
  BY <1>1, EmptySeq DEF Init, OwnsPackets, OwnsAnswers, QueueOf
<1>9. QED
  BY <1>4, <1>6, <1>7, <1>8 DEF OwnInv, Owned

\* The owners are known as long as no id was used twice.
LEMMA OwnersKnown == Spec => []OwnInv
<1>1. IInv /\ OwnInv /\ [Next]_vars => OwnInv'
  <2>1. SUFFICES ASSUME IInv, OwnInv, [Next]_vars PROVE OwnInv'
    OBVIOUS
  <2>2. Ledger /\ Ledger' /\ (FirstUse' => FirstUse) /\ (connected' => connected)
    BY <2>1, StepLedger, StepStable DEF OwnInv
  <2>3. ASSUME connected', FirstUse' PROVE \E own \in Owner : Owned(own)'
    <3>1. PICK own \in Owner : Owned(own)
      BY <2>1, <2>2, <2>3 DEF OwnInv
    <3>2. QED
      BY <2>1, <2>2, <2>3, <3>1, StepOwned
  <2>4. QED
    BY <2>2, <2>3 DEF OwnInv
<1>2. QED
  BY <1>1, InitOwned, Inductive, PTL DEF Spec

----------------------------------------------------------------------------
\* The packets in transit are of the set the three parts are of.
LEMMA TransitIn ==
  ASSUME NEW P, wire \in Seq(P), write_pending \in Seq(P), write_queue \in QueueOf(P)
  PROVE  \A i \in DOMAIN InTransit : InTransit[i] \in P
<1> DEFINE pkts == PacketsOf(write_queue)
           w == wire \o write_pending
           all == w \o pkts
<1>1. pkts \in Seq(P)
  BY QueuedIn
<1> HIDE DEF pkts
<1>2. w \in Seq(P)
  BY ConcatProperties
<1> HIDE DEF w
<1>3. all \in Seq(P)
  BY <1>1, <1>2, ConcatProperties
<1> HIDE DEF all
<1>4. \A i \in DOMAIN all : all[i] \in P
  BY <1>3, LenProperties, ElementOfSeq
<1>5. InTransit = all
  BY DEF InTransit, all, w, pkts
<1>6. QED
  BY <1>4, <1>5

\* Until MAX_PID messages have been accepted on a connection, so before a
\* packet id can be used a second time, whatever is in transit under an id
\* that is in use is the message the window holds under it.
THEOREM NoAliasBeforeReuse == Spec => [](FirstUse => NoPidAliasing)
<1>1. IInv /\ OwnInv => (FirstUse => NoPidAliasing)
  <2>1. SUFFICES ASSUME IInv, OwnInv, FirstUse PROVE NoPidAliasing
    OBVIOUS
  <2>2. CASE ~connected
    <3>1. wire \in Seq({}) /\ write_pending \in Seq({}) /\ write_queue \in QueueOf({})
      BY <2>1, <2>2, EmptySeq DEF OwnInv, Ledger, QueueOf
    <3>2. \A i \in DOMAIN InTransit : InTransit[i] \in {}
      BY <3>1, TransitIn
    <3>3. QED
      BY <3>2 DEF NoPidAliasing
  <2>3. CASE connected
    <3>1. PICK own \in Owner : Owned(own)
      BY <2>1, <2>3 DEF OwnInv
    <3>2. \A i \in DOMAIN InTransit : InTransit[i] \in Legit(own)
      BY <3>1, TransitIn DEF Owned, OwnsPackets
    <3>3. ASSUME NEW pkt \in Legit(own), pkt.type = "PUBLISH", pkt.qos > 0,
                 in_flight[pkt.pid] # Vacant
          PROVE  in_flight[pkt.pid].msg = pkt.msg
      <4>1. pkt.msg \in Msg /\ pkt.qos \in 1 .. 2 /\ LegitPublish(own, pkt)
        BY <3>3 DEF Legit, PacketType
      <4>2. pkt.msg \in Accepted /\ own[pkt.msg] = pkt.pid
        BY <4>1 DEF LegitPublish, Accepted
      <4>3. pkt.pid \in UsedPids
        BY <3>1, <4>2 DEF Owned, OwnsPids
      <4>4. pkt.pid \in Pid
        BY <2>1, <4>3, Constants DEF UsedPids, Pid, IInv, TypeOK
      <4>5. OwnEntry(own, pkt.pid)
        BY <3>1, <3>3, <4>4 DEF Owned, OwnsWindow, Window, InUse
      <4>6. QED
        BY <3>1, <4>2, <4>5 DEF OwnEntry, Owned, OwnsPids
    <3>4. QED
      BY <3>2, <3>3 DEF NoPidAliasing
  <2>4. QED
    BY <2>2, <2>3
<1>2. QED
  BY <1>1, OwnersKnown, Inductive, PTL

----------------------------------------------------------------------------
\* The refinement mapping.
Outstanding == {in_flight[p].msg : p \in Window}
Received == {m \in got : fwd[m] \in {1, 2}}

\* The promise counts as this module does.
LEMMA SameCardinality == \A S : Promise!Cardinality(S) = Cardinality(S)
BY Zenon DEF Cardinality, Promise!Cardinality

\* The steps of the promise, in terms of the mapping.
LEMMA PromiseSteps ==
  /\ UNCHANGED <<connected, Accepted, Outstanding, Received>> => UNCHANGED Promise!vars
  /\ /\ connected /\ connected' = FALSE /\ Outstanding' = {}
     /\ Accepted' = Accepted /\ Received' = Received
     => Promise!Close
  /\ \A m :
       /\ connected /\ m \notin Accepted /\ Cardinality(Outstanding) < IN_FLIGHT_CAP
       /\ Accepted' = Accepted \cup {m} /\ Outstanding' = Outstanding \cup {m}
       /\ connected' = connected /\ Received' = Received
       => Promise!Accept(m)
  /\ \A m :
       /\ connected /\ m \in Accepted /\ Received' = Received \cup {m}
       /\ connected' = connected /\ Accepted' = Accepted /\ Outstanding' = Outstanding
       => Promise!Receive(m)
  /\ \A m :
       /\ connected /\ m \in Outstanding /\ m \in Received
       /\ Outstanding' = Outstanding \ {m}
       /\ connected' = connected /\ Accepted' = Accepted /\ Received' = Received
       => Promise!Confirm(m)
<1>1. UNCHANGED <<connected, Accepted, Outstanding, Received>> => UNCHANGED Promise!vars
  BY DEF Promise!vars, Accepted, Outstanding, Received
<1>2. /\ connected /\ connected' = FALSE /\ Outstanding' = {}
      /\ Accepted' = Accepted /\ Received' = Received
      => Promise!Close
  BY DEF Promise!Close, Accepted, Outstanding, Received
<1>3. ASSUME NEW m,
             connected, m \notin Accepted, Cardinality(Outstanding) < IN_FLIGHT_CAP,
             Accepted' = Accepted \cup {m}, Outstanding' = Outstanding \cup {m},
             connected' = connected, Received' = Received
      PROVE  Promise!Accept(m)
  <2>1. Promise!Cardinality(Outstanding) = Cardinality(Outstanding)
    BY SameCardinality
  <2>2. QED
    BY <1>3, <2>1 DEF Promise!Accept, Accepted, Outstanding, Received
<1>4. ASSUME NEW m,
             connected, m \in Accepted, Received' = Received \cup {m},
             connected' = connected, Accepted' = Accepted, Outstanding' = Outstanding
      PROVE  Promise!Receive(m)
  BY <1>4 DEF Promise!Receive, Accepted, Outstanding, Received
<1>5. ASSUME NEW m,
             connected, m \in Outstanding, m \in Received, Outstanding' = Outstanding \ {m},
             connected' = connected, Accepted' = Accepted, Received' = Received
      PROVE  Promise!Confirm(m)
  BY <1>5 DEF Promise!Confirm, Accepted, Outstanding, Received
<1>6. QED
  BY <1>1, <1>2, <1>3, <1>4, <1>5

PromiseStep == Promise!Next \/ UNCHANGED Promise!vars

\* A step that changes no entry's message, nothing received and nothing
\* accepted is none of the promise's.
LEMMA QuietPromise ==
  ASSUME UNCHANGED <<connected, got, fwd>>,
         Window' = Window, \A p \in Window : in_flight'[p].msg = in_flight[p].msg
  PROVE  PromiseStep
<1>1. Outstanding' = Outstanding
  <2>1. Outstanding' = {in_flight'[p].msg : p \in Window}
    BY DEF Outstanding
  <2>2. QED
    BY <2>1 DEF Outstanding
<1>2. Accepted' = Accepted /\ Received' = Received
  BY DEF Accepted, Received
<1>3. QED
  BY <1>1, <1>2, PromiseSteps DEF PromiseStep, Promise!Next

\* Nor is one that leaves the window alone.
LEMMA SameWindow ==
  ASSUME UNCHANGED <<connected, got, fwd, in_flight>>
  PROVE  PromiseStep
<1>1. Window' = Window
  BY DEF Window, InUse
<1>2. QED
  BY <1>1, QuietPromise

\* Removal is Close.
LEMMA ClosePromise ==
  ASSUME connected, NoClient, UNCHANGED <<got, fwd>>
  PROVE  PromiseStep
<1>1. Window' = {}
  BY DEF NoClient, Window, InUse
<1>2. Outstanding' = {} /\ Accepted' = Accepted /\ Received' = Received
  BY <1>1 DEF Outstanding, Accepted, Received
<1>3. connected' = FALSE
  BY DEF NoClient
<1>4. QED
  BY <1>2, <1>3, PromiseSteps DEF PromiseStep, Promise!Next

\* The window holds no more messages than ids.
LEMMA WindowCounts ==
  ASSUME ~WindowFull(in_flight, Vacant)
  PROVE  Cardinality(Outstanding) < IN_FLIGHT_CAP
<1> DEFINE W == Window
           f == [p \in W |-> in_flight[p].msg]
           O == Outstanding
<1>1. IsFiniteSet(W) /\ Cardinality(W) \in Nat
  <2>1. IsFiniteSet(Pid)
    BY Constants, FS_Interval DEF Pid
  <2>2. W \subseteq Pid
    BY DEF Window, InUse
  <2>3. QED
    BY <2>1, <2>2, FS_Subset, FS_CardinalityType
<1>2. Cardinality(W) < IN_FLIGHT_CAP
  BY <1>1, Constants DEF WindowFull, Window
<1>3. f \in Surjection(W, O)
  BY DEF Surjection, Outstanding
<1> HIDE DEF W, f, O
<1>4. IsFiniteSet(O) /\ Cardinality(O) <= Cardinality(W)
  BY <1>1, <1>3, FS_Surjection
<1>5. Cardinality(O) \in Nat
  BY <1>4, FS_CardinalityType
<1>6. QED
  BY <1>1, <1>2, <1>4, <1>5, Constants DEF O

\* A forward is Accept.
LEMMA AcceptPromise ==
  ASSUME IInv, NEW own \in Owner, Owned(own), NEW m \in Msg, NEW qos \in {1, 2},
         DeliverReliable(m, qos)
  PROVE  PromiseStep
<1>1. PICK pid \in Pid :
        /\ IsNextPid(in_flight, Vacant, next_pid, pid)
        /\ in_flight' = [in_flight EXCEPT ![pid] = Entry(m, qos = 2)]
  BY DEF DeliverReliable
<1>2. /\ connected /\ connected' = connected /\ got' = got
      /\ fwd \in [Msg -> 0 .. NotYet] /\ fwd[m] = NotYet /\ fwd' = [fwd EXCEPT ![m] = qos]
      /\ in_flight \in [Pid -> InFlightType] /\ in_flight[pid] = Vacant
  BY <1>1 DEF IInv, TypeOK, DeliverReliable, subscriber, IsNextPid
<1>3. Accepted' = Accepted \cup {m} /\ m \notin Accepted
  BY <1>2 DEF Accepted, NotYet
<1>4. Received' = Received
  <2>1. m \notin got
    BY <1>2 DEF Owned, OwnsAnswers
  <2>2. \A n \in got : n \in Msg /\ fwd'[n] = fwd[n]
    BY <1>2, <2>1 DEF IInv, TypeOK
  <2>3. QED
    BY <1>2, <2>2 DEF Received
<1>5. Outstanding' = Outstanding \cup {m}
  <2> DEFINE e == Entry(m, qos = 2)
  <2>1. e.msg = m /\ e # Vacant
    <3>1. e.msg = m /\ Vacant.msg = NoMsg
      BY DEF Entry, Vacant
    <3>2. m # NoMsg
      BY OutboundAssumption
    <3>3. QED
      BY <3>1, <3>2
  <2> HIDE DEF e
  <2>2. /\ Window' = Window \cup {pid} /\ pid \notin Window
        /\ \A p \in Window : in_flight'[p] = in_flight[p]
        /\ in_flight'[pid] = e
    BY <1>1, <1>2, <2>1 DEF Window, InUse, e
  <2>3. QED
    BY <2>1, <2>2 DEF Outstanding
<1>6. Cardinality(Outstanding) < IN_FLIGHT_CAP
  BY WindowCounts DEF DeliverReliable
<1>7. QED
  BY <1>2, <1>3, <1>4, <1>5, <1>6, PromiseSteps DEF PromiseStep, Promise!Next

\* An acknowledgement that finds its entry is Confirm, any other is nothing.
LEMMA ConfirmPromise ==
  ASSUME IInv, NEW own \in Owner, Owned(own), connected, UNCHANGED <<connected, got, fwd>>,
         NEW pid, Handed(own, pid), in_flight' = [in_flight EXCEPT ![pid] = Vacant]
  PROVE  PromiseStep
<1>1. in_flight \in [Pid -> InFlightType]
  BY DEF IInv, TypeOK
<1>2. CASE pid \notin Window
  <2>1. in_flight' = in_flight
    BY <1>1, <1>2 DEF Window, InUse
  <2>2. QED
    BY <2>1, SameWindow
<1>3. CASE pid \in Window
  <2> DEFINE m == in_flight[pid].msg
  <2>1. Window' = Window \ {pid} /\ \A p \in Window' : in_flight'[p] = in_flight[p]
    BY <1>1, <1>3 DEF Window, InUse
  <2>2. m \in got
    BY <1>3, HandedEntry
  <2>3. m \in Accepted /\ \A p \in Window : p # pid => in_flight[p].msg # m
    BY <1>3 DEF Owned, OwnsWindow, OwnEntry
  <2>4. Outstanding' = Outstanding \ {m} /\ m \in Outstanding
    BY <1>3, <2>1, <2>3 DEF Outstanding
  <2>5. Accepted' = Accepted /\ Received' = Received /\ m \in Received /\ m \in Msg
    BY <2>2, <2>3 DEF Accepted, Received
  <2>6. PICK n \in Msg : n = m
    BY <2>5
  <2>7. Promise!Confirm(n)
    BY <2>4, <2>5, <2>6, PromiseSteps
  <2>8. QED
    BY <2>7, PromiseSteps DEF PromiseStep, Promise!Next
<1>4. QED
  BY <1>2, <1>3

\* A message read from the socket is Receive, unless it was read before or
\* is a QoS0 message.
LEMMA ReceivePromise ==
  ASSUME IInv, NEW own \in Owner, Owned(own), SubscriberRead
  PROVE  PromiseStep
<1>1. PICK pkt : pkt = Head(wire)
  OBVIOUS
<1>2. /\ wire \in Seq(PacketType) /\ wire # <<>> /\ connected
      /\ UNCHANGED <<connected, in_flight, fwd>>
      /\ ReadPublish(pkt) \/ ReadPubrel(pkt) \/ ReadPingresp(pkt)
  BY <1>1 DEF IInv, TypeOK, SubscriberRead, client
<1>3. pkt \in Legit(own)
  <2> DEFINE L == Legit(own)
  <2>1. wire \in Seq(L)
    BY DEF Owned, OwnsPackets
  <2> HIDE DEF L
  <2>2. QED
    BY <1>1, <1>2, <2>1, HeadTailProperties DEF L
<1>4. CASE got' = got
  BY <1>2, <1>4, SameWindow
<1>5. CASE got' # got
  <2>1. ReadPublish(pkt) /\ pkt.type = "PUBLISH" /\ got' = got \cup {pkt.msg}
    BY <1>2, <1>5 DEF ReadPublish, ReadPubrel, ReadPingresp
  <2>2. pkt.msg \in Msg /\ pkt.qos \in 0 .. 2 /\ fwd[pkt.msg] = pkt.qos
    BY <1>3, <2>1 DEF Legit, LegitPublish, PacketType
  <2>3. Accepted' = Accepted /\ Outstanding' = Outstanding
    <3>1. Window' = Window
      BY <1>2 DEF Window, InUse
    <3>2. QED
      BY <1>2, <3>1 DEF Accepted, Outstanding
  <2>4. CASE pkt.qos = 0
    <3>1. Received' = Received
      BY <1>2, <2>1, <2>2, <2>4 DEF Received
    <3>2. QED
      BY <1>2, <2>3, <3>1, PromiseSteps DEF PromiseStep
  <2>5. CASE pkt.qos # 0
    <3>1. pkt.msg \in Accepted /\ Received' = Received \cup {pkt.msg}
      BY <1>2, <2>1, <2>2, <2>5 DEF Accepted, Received
    <3>2. PICK m \in Msg : m = pkt.msg
      BY <2>2
    <3>3. Promise!Receive(m)
      BY <1>2, <2>3, <3>1, <3>2, PromiseSteps
    <3>4. QED
      BY <3>3 DEF PromiseStep, Promise!Next
  <2>6. QED
    BY <2>4, <2>5
<1>6. QED
  BY <1>4, <1>5

\* PUBACK and PUBCOMP confirm, PUBREC and PINGREQ do not.
LEMMA HandlePromise ==
  ASSUME IInv, NEW own \in Owner, Owned(own), HandlePacket
  PROVE  PromiseStep
<1>1. PICK pid : pid = Head(acks).pid
  OBVIOUS
<1>2. /\ connected /\ acks # <<>> /\ UNCHANGED <<connected, got, fwd>>
      /\ in_flight \in [Pid -> InFlightType]
  BY DEF IInv, TypeOK, HandlePacket, HandlePuback, HandlePubrec, HandlePubcomp, HandlePingreq,
         ReadPacket, Reading, subscriber
<1>3. CASE HandlePuback \/ HandlePubcomp
  <2>1. in_flight' = [in_flight EXCEPT ![pid] = Vacant] /\ Head(acks).type # "PINGREQ"
    BY <1>1, <1>3 DEF HandlePuback, HandlePubcomp, ReadPacket
  <2>2. Handed(own, pid)
    BY <1>1, <1>2, <2>1, AckHanded
  <2>3. QED
    BY <1>2, <2>1, <2>2, ConfirmPromise
<1>4. CASE HandlePingreq
  BY <1>2, <1>4, SameWindow DEF HandlePingreq
<1>5. CASE HandlePubrec
  <2> DEFINE entry == in_flight[pid]
             waiting == [entry EXCEPT !.await_pubcomp = TRUE, !.retries = 0, !.due = FALSE]
  <2>1. CASE in_flight' = in_flight
    BY <1>2, <2>1, SameWindow
  <2>2. CASE /\ in_flight' = [in_flight EXCEPT ![pid] = waiting]
             /\ entry # Vacant /\ entry.qos2 /\ ~entry.await_pubcomp
    <3>1. ASSUME pid \in Pid
          PROVE  waiting # Vacant /\ waiting.msg = entry.msg
      <4>1. entry \in InFlightType /\ entry # Vacant
        BY <1>2, <2>2, <3>1
      <4> HIDE DEF entry
      <4>2. waiting.await_pubcomp = TRUE /\ waiting.msg = entry.msg
        BY <4>1 DEF InFlightType
      <4>3. Vacant.await_pubcomp = FALSE
        BY DEF Vacant, Entry
      <4> HIDE DEF waiting
      <4>4. QED
        BY <4>2, <4>3
    <3> HIDE DEF waiting
    <3>2. Window' = Window /\ \A p \in Window : in_flight'[p].msg = in_flight[p].msg
      BY <1>2, <2>2, <3>1 DEF Window, InUse
    <3>3. QED
      BY <1>2, <3>2, QuietPromise
  <2>3. QED
    BY <1>1, <1>5, <2>1, <2>2 DEF HandlePubrec
<1>6. QED
  BY <1>3, <1>4, <1>5 DEF HandlePacket

\* Counting a retry or the timer changes no message.
LEMMA UpdatePromise ==
  ASSUME IInv, UNCHANGED <<connected, got, fwd>>, NEW pid \in Pid,
         NEW w, w.msg = in_flight[pid].msg, in_flight[pid] # Vacant,
         in_flight' = [in_flight EXCEPT ![pid] = w], w \in InFlightType, w # Vacant
  PROVE  PromiseStep
<1>1. in_flight \in [Pid -> InFlightType]
  BY DEF IInv, TypeOK
<1>2. Window' = Window /\ \A p \in Window : in_flight'[p].msg = in_flight[p].msg
  BY <1>1 DEF Window, InUse
<1>3. QED
  BY <1>2, QuietPromise

\* A record of a message is not Vacant.
LEMMA NotVacant ==
  /\ \A e \in InFlightType : e # Vacant => e.msg \in Msg
  /\ Vacant.msg \notin Msg
<1>1. Vacant.msg \notin Msg
  BY OutboundAssumption DEF Vacant, Entry
<1>2. QED
  BY <1>1 DEF InFlightType

\* Every step of the connection is a step of the promise or none of its.
LEMMA StepPromise ==
  ASSUME IInv, OwnInv, FirstUse, [Next]_vars
  PROVE  PromiseStep
<1>1. CASE ~connected
  <2>1. UNCHANGED <<connected, got, fwd, in_flight>>
    BY <1>1 DEF Next, DeliverTo, DeliverQos0, DeliverReliable, DeliverOverflow,
                HandlePacket, HandlePuback, HandlePubrec, HandlePubcomp, HandlePingreq,
                ReadPacket, Reading, Disconnect, WritableEvent, Turn, Scan, FlushPending,
                SweepDone, FlushPending2, RemoveDead, Retry, RetryDone, GiveUp, RetryElapse,
                KeepaliveElapse, SubscriberRead, SubscriberPing, vars, client, subscriber
  <2>2. QED
    BY <2>1, SameWindow
<1>2. CASE connected
  <2>1. PICK own \in Owner : Owned(own)
    BY <1>2 DEF OwnInv
  <2>2. CASE NoClient /\ UNCHANGED <<got, fwd>>
    BY <1>2, <2>2, ClosePromise
  <2>3. CASE UNCHANGED <<connected, got, fwd, in_flight>>
    BY <2>3, SameWindow
  <2>4. CASE \E m \in Msg : DeliverTo(m)
    <3>1. PICK m \in Msg : DeliverTo(m)
      BY <2>4
    <3>2. CASE DeliverQos0(m)
      <4>1. /\ fwd \in [Msg -> 0 .. NotYet] /\ fwd[m] = NotYet /\ fwd' = [fwd EXCEPT ![m] = 0]
            /\ UNCHANGED <<connected, in_flight, got>>
        BY <3>2 DEF IInv, TypeOK, DeliverQos0, subscriber
      <4>2. m \notin got
        BY <2>1, <4>1 DEF Owned, OwnsAnswers
      <4>3. Accepted' = Accepted /\ \A n \in got : n \in Msg /\ fwd'[n] = fwd[n]
        BY <4>1, <4>2 DEF Accepted, NotYet, IInv, TypeOK
      <4>4. Received' = Received
        BY <4>1, <4>3 DEF Received
      <4>5. Outstanding' = Outstanding
        BY <4>1 DEF Outstanding, Window, InUse
      <4>6. QED
        BY <4>1, <4>3, <4>4, <4>5, PromiseSteps DEF PromiseStep
    <3>3. ASSUME NEW qos \in FWD_QOS \cap {1, 2}, DeliverReliable(m, qos) PROVE PromiseStep
      BY <2>1, <3>3, AcceptPromise
    <3>4. CASE DeliverOverflow(m)
      BY <2>2, <3>4 DEF DeliverOverflow
    <3>5. QED
      BY <3>1, <3>2, <3>3, <3>4 DEF DeliverTo
  <2>5. CASE HandlePacket
    BY <2>1, <2>5, HandlePromise
  <2>6. CASE Disconnect \/ WritableEvent
    BY <2>2, <2>3, <2>6 DEF Disconnect, WritableEvent, subscriber
  <2>7. CASE \E pkt \in retry : Retry(pkt)
    <3>1. PICK pkt \in retry : Retry(pkt)
      BY <2>7
    <3>2. pkt.pid \in Pid /\ in_flight[pkt.pid].retries < QOS1_MAX_RETRIES
      BY DEF IInv, RetryListed
    <3>3. CASE Accepts1(write_queue) /\ in_flight[pkt.pid] # Vacant
      <4> DEFINE e == in_flight[pkt.pid]
                 w == [e EXCEPT !.due = FALSE, !.retries = @ + 1]
      <4>1. in_flight \in [Pid -> InFlightType]
        BY DEF IInv, TypeOK
      <4>2. in_flight' = [in_flight EXCEPT ![pkt.pid] = w] /\ UNCHANGED <<connected, got, fwd>>
        BY <3>1, <3>2, <3>3, <4>1 DEF Retry
      <4>3. e \in InFlightType /\ e # Vacant /\ e.retries < QOS1_MAX_RETRIES
        BY <3>2, <3>3, <4>1
      <4>4. w \in InFlightType
        BY <4>3, EntryRetried
      <4> HIDE DEF e
      <4>5. w.msg = e.msg
        BY <4>3 DEF InFlightType
      <4> HIDE DEF w
      <4>6. w # Vacant
        BY <4>3, <4>5, NotVacant
      <4>7. QED
        BY <3>2, <4>2, <4>3, <4>4, <4>5, <4>6, UpdatePromise DEF e
    <3>4. CASE Accepts1(write_queue) /\ in_flight[pkt.pid] = Vacant
      BY <2>3, <3>1, <3>4 DEF Retry
    <3>5. CASE ~Accepts1(write_queue)
      BY <2>2, <3>1, <3>5 DEF Retry
    <3>6. QED
      BY <3>3, <3>4, <3>5
  <2>8. CASE Turn /\ ~\E pkt \in retry : Retry(pkt)
    <3>1. CASE Scan \/ FlushPending \/ SweepDone \/ FlushPending2 \/ RetryDone
      BY <2>3, <3>1 DEF Scan, FlushPending, SweepDone, FlushPending2, RetryDone, client, subscriber
    <3>2. CASE RemoveDead \/ GiveUp
      BY <2>2, <2>3, <3>2 DEF RemoveDead, GiveUp, client
    <3>3. QED
      BY <2>8, <3>1, <3>2 DEF Turn
  <2>9. CASE \E p \in Pid : RetryElapse(p)
    <3>1. PICK p \in Pid : RetryElapse(p)
      BY <2>9
    <3> DEFINE e == in_flight[p]
               w == [e EXCEPT !.due = TRUE]
    <3>2. /\ e \in InFlightType /\ e # Vacant /\ in_flight' = [in_flight EXCEPT ![p] = w]
          /\ UNCHANGED <<connected, got, fwd>>
      BY <3>1 DEF IInv, TypeOK, RetryElapse, subscriber
    <3>3. w \in InFlightType
      BY <3>2, EntryDue
    <3> HIDE DEF e
    <3>4. w.msg = e.msg
      BY <3>2 DEF InFlightType
    <3> HIDE DEF w
    <3>5. w # Vacant
      BY <3>2, <3>4, NotVacant
    <3>6. QED
      BY <3>2, <3>3, <3>4, <3>5, UpdatePromise DEF e
  <2>10. CASE SubscriberRead
    BY <2>1, <2>10, ReceivePromise
  <2>11. CASE KeepaliveElapse \/ SubscriberPing \/ UNCHANGED vars
    BY <2>3, <2>11 DEF KeepaliveElapse, SubscriberPing, vars, client, subscriber
  <2>12. QED
    BY <2>4, <2>5, <2>6, <2>7, <2>8, <2>9, <2>10, <2>11 DEF Next
<1>3. QED
  BY <1>1, <1>2

\* As long as a connection has accepted no more than MAX_PID messages at QoS1
\* and QoS2, so before a packet id can be used a second time, Outbound keeps
\* the promise of ReliableDelivery at both levels: each step of the queue, the
\* batches, the handshakes, the timers and the stale lists is a step of the
\* promise or changes nothing it speaks of.
THEOREM PromiseBeforeReuse == Spec /\ []FirstUse => KeepsPromise
<1>1. Init => Promise!Init
  <2>1. SUFFICES ASSUME Init PROVE Promise!Init
    OBVIOUS
  <2>2. Accepted = {} /\ Received = {} /\ Window = {} /\ connected = TRUE
    BY <2>1 DEF Init, Accepted, Received, NotYet, Window, InUse
  <2>3. QED
    BY <2>2 DEF Promise!Init, Accepted, Received
<1>2. IInv /\ OwnInv /\ FirstUse /\ [Next]_vars => [Promise!Next]_(Promise!vars)
  BY StepPromise DEF PromiseStep
<1>3. QED
  BY <1>1, <1>2, OwnersKnown, Inductive, PTL DEF Spec, KeepsPromise, Promise!Spec

\* So until then a QoS2 message that is no longer tracked has been handed over:
\* the promise of full delivery is broken only by the second use of an id.
THEOREM DeliveredBeforeReuse == Spec /\ []FirstUse => []Qos2Delivered
<1>1. Promise!NothingForgotten => Qos2Delivered
  <2>1. SUFFICES ASSUME Promise!NothingForgotten, connected, NEW m \in Msg, fwd[m] = 2
                 PROVE  m \in got \/ \E p \in Window : in_flight[p].msg = m
    BY DEF Qos2Delivered
  <2>2. m \in {n \in got : fwd[n] \in {1, 2}} \cup {in_flight[p].msg : p \in Window}
    BY <2>1 DEF Promise!NothingForgotten
  <2>3. QED
    BY <2>2
<1>2. QED
  BY <1>1, PromiseBeforeReuse, PromiseKept, PTL DEF KeepsPromise
=============================================================================
