------------------------------- MODULE Outbound -------------------------------
(***************************************************************************)
(* Delivery to one subscriber connection of the event-loop broker          *)
(* (mio_broker/src/main.rs): the write queue, the batch being written, the *)
(* in-flight window, the retransmission and keepalive timers, and the      *)
(* order in which one turn of the main loop reads, flushes, expires,       *)
(* retransmits and gives up.  The loop first takes a snapshot of what is   *)
(* due, then flushes and reads every socket, and only then acts on the     *)
(* snapshot; acknowledgements that arrive in between race with it.         *)
(*                                                                         *)
(* The subscriber is an MQTT client that reads its socket in order and     *)
(* answers what it reads; it may stop reading, ping or go away at any      *)
(* time.  Messages are accepted from other connections' PUBLISH packets.   *)
(* A removed client is gone for good: its reconnection has a new token and *)
(* starts from Init, and what the session store keeps is not part of this  *)
(* module.  Packets stand for their bytes: the socket takes whole packets. *)
(***************************************************************************)
EXTENDS ClientQueue, Vectors

CONSTANTS
  Msg,               \* messages that may be forwarded to this subscriber
  NoMsg,             \* fills the msg field of packets that carry none
  QOS1_MAX_RETRIES,  \* unanswered retransmissions before giving up
  BATCH_MAX,         \* packets coalesced into one write
  KEEPALIVE,         \* "live" if the subscriber asked for a keepalive, or "off"
  FWD_QOS,           \* QoS levels at which messages are forwarded to it
  SOCK_CAP           \* packets the socket towards the subscriber can hold

ASSUME OutboundAssumption ==
  /\ NoMsg \notin Msg
  /\ QOS1_MAX_RETRIES \in Nat
  /\ BATCH_MAX \in Nat \ {0}
  /\ SOCK_CAP \in Nat \ {0}
  /\ KEEPALIVE \in {"off", "live"}
  /\ FWD_QOS \subseteq 0..2

VARIABLES
  connected,      \* the token is a key of broker.clients
  write_queue,    \* Client.write_queue
  write_pending,  \* the bytes of Client.write_pending after write_off
  writable,       \* Client.interest includes WRITABLE
  in_flight,      \* Client.in_flight
  next_pid,       \* Client.next_pid
  keepalive,      \* Client.keepalive_deadline: off, live or expired
  pc,             \* the part of the main loop that runs next
  pending,        \* local of the loop: the token is in `pending`
  dead,           \* local of the loop: the token is in `dead`
  retry,          \* local of the loop: packets of `retry` for this token
  give_up,        \* local of the loop: pids of `give_up` for this token
  wire,           \* written by the broker, not yet read by the subscriber
  acks,           \* sent by the subscriber, not yet read by the broker
  held,           \* subscriber: QoS2 pids received and not yet released
  got,            \* subscriber: messages handed to the application
  twice,          \* subscriber: messages handed over more than once
  fwd             \* QoS each message was accepted at, NotYet before

client == <<connected, write_queue, write_pending, writable, in_flight,
            next_pid, keepalive>>
loop == <<pc, pending, dead, retry, give_up>>
subscriber == <<held, got, twice>>
vars == <<client, loop, subscriber, wire, acks, fwd>>

NotYet == 3
Phase == {"poll", "flush", "sweep", "flush2", "dead", "retry", "give_up"}

Packet(type, qos, pid, msg, dup) ==
  [type |-> type, qos |-> qos, pid |-> pid, msg |-> msg, dup |-> dup]
Publish(qos, pid, msg) == Packet("PUBLISH", qos, pid, msg, FALSE)
Pubrel(pid) == Packet("PUBREL", 0, pid, NoMsg, FALSE)
Pingresp == Packet("PINGRESP", 0, 0, NoMsg, FALSE)
Ack(type, pid) == [type |-> type, pid |-> pid]

PacketType ==
  [type : {"PUBLISH"}, qos : 0..2, pid : 0..MAX_PID, msg : Msg, dup : BOOLEAN]
  \cup [type : {"PUBREL", "PINGRESP"}, qos : {0}, pid : 0..MAX_PID,
        msg : {NoMsg}, dup : BOOLEAN]
AckType == [type : {"PUBACK", "PUBREC", "PUBCOMP", "PINGREQ"}, pid : 0..MAX_PID]
EntryType == [rel : BOOLEAN, pkt : PacketType]

\* struct InFlight; due abbreviates now - sent_at >= retry_after.
Entry(msg, qos2) ==
  [msg |-> msg, qos2 |-> qos2, await_pubcomp |-> FALSE, retries |-> 0, due |-> FALSE]
Vacant == Entry(NoMsg, FALSE)
InFlightType ==
  {Vacant} \cup [msg : Msg, qos2 : BOOLEAN, await_pubcomp : BOOLEAN,
                 retries : 0..QOS1_MAX_RETRIES, due : BOOLEAN]

TypeOK ==
  /\ connected \in BOOLEAN
  /\ write_queue \in Seq(EntryType)
  /\ write_pending \in Seq(PacketType)
  /\ writable \in BOOLEAN
  /\ in_flight \in [Pid -> InFlightType]
  /\ next_pid \in 0..MAX_PID
  /\ keepalive \in {"off", "live", "expired"}
  /\ pc \in Phase
  /\ pending \in BOOLEAN
  /\ dead \in BOOLEAN
  /\ retry \in SUBSET PacketType
  /\ give_up \in SUBSET Pid
  /\ wire \in Seq(PacketType)
  /\ acks \in Seq(AckType)
  /\ held \in SUBSET (0..MAX_PID)
  /\ got \in SUBSET Msg
  /\ twice \in SUBSET Msg
  /\ fwd \in [Msg -> 0..NotYet]

Init ==
  /\ connected = TRUE
  /\ write_queue = <<>> /\ write_pending = <<>> /\ writable = FALSE
  /\ in_flight = [p \in Pid |-> Vacant]
  /\ next_pid = 1
  /\ keepalive = KEEPALIVE
  /\ pc = "poll"
  /\ pending = FALSE /\ dead = FALSE /\ retry = {} /\ give_up = {}
  /\ wire = <<>> /\ acks = <<>>
  /\ held = {} /\ got = {} /\ twice = {}
  /\ fwd = [m \in Msg |-> NotYet]

Window == InUse(in_flight, Vacant)

----------------------------------------------------------------------------
(* Removal.  remove_client and clients.remove leave the same: no client.   *)
(* What the socket still held is lost with it.                             *)

NoClient ==
  /\ connected' = FALSE
  /\ write_queue' = <<>> /\ write_pending' = <<>> /\ writable' = FALSE
  /\ in_flight' = [p \in Pid |-> Vacant]
  /\ next_pid' = 1
  /\ keepalive' = "off"
  /\ wire' = <<>> /\ acks' = <<>>
  /\ held' = {}

----------------------------------------------------------------------------
(* deliver_to: some other client's PUBLISH, a will or a $SYS message is    *)
(* forwarded, at whichever point of the turn its source is handled.        *)

\* Queue full: Err, and publish prunes the subscription (see Broker); the
\* client itself is left alone.
DeliverQos0(m) ==
  /\ connected /\ 0 \in FWD_QOS /\ fwd[m] = NotYet
  /\ Accepts0(write_queue)
  /\ write_queue' = Queue0(write_queue, Publish(0, 0, m))
  /\ fwd' = [fwd EXCEPT ![m] = 0]
  /\ UNCHANGED <<connected, write_pending, writable, in_flight, next_pid,
                 keepalive, loop, subscriber, wire, acks>>

DeliverReliable(m, qos) ==
  /\ connected /\ fwd[m] = NotYet
  /\ ~WindowFull(in_flight, Vacant)
  /\ Accepts1(write_queue)
  /\ \E pid \in Pid :
       /\ IsNextPid(in_flight, Vacant, next_pid, pid)
       /\ next_pid' = AfterPid(pid)
       /\ write_queue' = Queue1(write_queue, Publish(qos, pid, m))
       /\ in_flight' = [in_flight EXCEPT ![pid] = Entry(m, qos = 2)]
  /\ fwd' = [fwd EXCEPT ![m] = qos]
  /\ UNCHANGED <<connected, write_pending, writable, keepalive, loop,
                 subscriber, wire, acks>>

\* The window or the queue has no room: the client is dropped.
DeliverOverflow(m) ==
  /\ connected /\ fwd[m] = NotYet
  /\ FWD_QOS \cap {1, 2} # {}
  /\ WindowFull(in_flight, Vacant) \/ ~Accepts1(write_queue)
  /\ NoClient
  /\ UNCHANGED <<loop, got, twice, fwd>>

DeliverTo(m) ==
  \/ DeliverQos0(m)
  \/ \E qos \in FWD_QOS \cap {1, 2} : DeliverReliable(m, qos)
  \/ DeliverOverflow(m)

----------------------------------------------------------------------------
(* handle_packets: the subscriber's answers, one packet at a time, read on *)
(* a poll event or in the sweep over all clients.                          *)

Reading == connected /\ pc \in {"poll", "sweep"} /\ acks # <<>>

ReadPacket(type) ==
  /\ Reading /\ Head(acks).type = type
  /\ acks' = Tail(acks)
  /\ keepalive' = IF keepalive = "off" THEN "off" ELSE "live"
  /\ UNCHANGED <<connected, write_pending, writable, next_pid, loop,
                 subscriber, wire, fwd>>

\* Slip of HandlePuback: the packet id of the acknowledgement is not used.
AckAny ==
  /\ ReadPacket("PUBACK")
  /\ \E pid \in Pid : in_flight' = [in_flight EXCEPT ![pid] = Vacant]
  /\ UNCHANGED write_queue

HandlePuback ==
  /\ ReadPacket("PUBACK")
  /\ in_flight' = [in_flight EXCEPT ![Head(acks).pid] = Vacant]
  /\ UNCHANGED write_queue

\* The first PUBREC turns the entry into one that waits for PUBCOMP.
HandlePubrec ==
  /\ ReadPacket("PUBREC")
  /\ LET pid == Head(acks).pid
         entry == in_flight[pid]
     IN  IF entry # Vacant /\ entry.qos2 /\ ~entry.await_pubcomp
         THEN /\ in_flight' = [in_flight EXCEPT ![pid] =
                   [entry EXCEPT !.await_pubcomp = TRUE, !.retries = 0, !.due = FALSE]]
              /\ write_queue' = Queue0(write_queue, Pubrel(pid))
         ELSE UNCHANGED <<in_flight, write_queue>>

HandlePubcomp ==
  /\ ReadPacket("PUBCOMP")
  /\ in_flight' = [in_flight EXCEPT ![Head(acks).pid] = Vacant]
  /\ UNCHANGED write_queue

HandlePingreq ==
  /\ ReadPacket("PINGREQ")
  /\ write_queue' = Queue0(write_queue, Pingresp)
  /\ UNCHANGED in_flight

HandlePacket == HandlePuback \/ HandlePubrec \/ HandlePubcomp \/ HandlePingreq

\* EOF, a protocol error or DISCONNECT while reading; a dead socket while
\* writing.
Disconnect ==
  /\ connected /\ pc \in {"poll", "flush", "sweep", "flush2"}
  /\ NoClient
  /\ UNCHANGED <<loop, got, twice, fwd>>

----------------------------------------------------------------------------
(* flush_writes: write the rest of the pending batch, then batch after     *)
(* batch, until everything is written or the socket is full.               *)

PacketsOf(q) == [i \in DOMAIN q |-> q[i].pkt]

Flush ==
  LET old == Len(write_pending)
      all == write_pending \o PacketsOf(write_queue)
      room == SOCK_CAP - Len(wire)
      n == IF Len(all) <= room THEN Len(all) ELSE room
      \* the end of the batch in which the write stopped
      filled == IF n < old THEN old ELSE old + ((n - old) \div BATCH_MAX + 1) * BATCH_MAX
      end == IF filled <= Len(all) THEN filled ELSE Len(all)
  IN  /\ wire' = wire \o SubSeq(all, 1, n)
      /\ write_pending' = SubSeq(all, n + 1, end)
      /\ write_queue' = SubSeq(write_queue, end - old + 1, Len(write_queue))
      /\ writable' = (n < Len(all))

\* A WRITABLE event.  Only write_queue decides whether there is anything to
\* flush: what is left of the batch does not count.
WritableEvent ==
  /\ pc = "poll" /\ connected /\ writable /\ Len(wire) < SOCK_CAP
  /\ IF write_queue # <<>>
     THEN Flush
     ELSE writable' = FALSE /\ UNCHANGED <<write_queue, write_pending, wire>>
  /\ UNCHANGED <<connected, in_flight, next_pid, keepalive, loop, subscriber, acks, fwd>>

----------------------------------------------------------------------------
(* The turn of the main loop.                                              *)

\* What the retry list holds for an entry: PUBREL once PUBREC was received,
\* else PUBLISH, both with the DUP bit.
Retransmission(pid) ==
  LET entry == in_flight[pid]
  IN  IF entry.qos2 /\ entry.await_pubcomp
      THEN Packet("PUBREL", 0, pid, NoMsg, TRUE)
      ELSE Packet("PUBLISH", IF entry.qos2 THEN 2 ELSE 1, pid, entry.msg, TRUE)

Due == {p \in Window : in_flight[p].due}

\* Slip of the scan: one retransmission too many.
MayRetryOnceMore(p) == in_flight[p].retries <= QOS1_MAX_RETRIES

MayRetry(p) == in_flight[p].retries < QOS1_MAX_RETRIES

Scan ==
  /\ pc = "poll" /\ pc' = "flush"
  /\ pending' = (connected /\ write_queue # <<>>)
  /\ dead' = (keepalive = "expired")
  /\ retry' = {Retransmission(p) : p \in {p \in Due : MayRetry(p)}}
  /\ give_up' = {p \in Due : ~MayRetry(p)}
  /\ UNCHANGED <<client, subscriber, wire, acks, fwd>>

FlushPending ==
  /\ pc = "flush" /\ pc' = "sweep"
  /\ pending' = FALSE
  /\ IF pending /\ connected
     THEN Flush
     ELSE UNCHANGED <<write_queue, write_pending, writable, wire>>
  /\ UNCHANGED <<connected, in_flight, next_pid, keepalive, dead, retry,
                 give_up, subscriber, acks, fwd>>

\* Every socket has been read.
SweepDone ==
  /\ pc = "sweep" /\ pc' = "flush2"
  /\ UNCHANGED <<client, pending, dead, retry, give_up, subscriber, wire, acks, fwd>>

FlushPending2 ==
  /\ pc = "flush2" /\ pc' = "dead"
  /\ IF connected /\ write_queue # <<>>
     THEN Flush
     ELSE UNCHANGED <<write_queue, write_pending, writable, wire>>
  /\ UNCHANGED <<connected, in_flight, next_pid, keepalive, pending, dead,
                 retry, give_up, subscriber, acks, fwd>>

RemoveDead ==
  /\ pc = "dead" /\ pc' = "retry"
  /\ dead' = FALSE
  /\ IF dead /\ connected
     THEN NoClient
     ELSE UNCHANGED <<client, held, wire, acks>>
  /\ UNCHANGED <<pending, retry, give_up, got, twice, fwd>>

\* One element of the retry list.  The entry may be gone, or another
\* message's, since the scan.
Retry(pkt) ==
  /\ pc = "retry" /\ connected /\ pkt \in retry
  /\ retry' = retry \ {pkt}
  /\ IF Accepts1(write_queue)
     THEN /\ write_queue' = Queue1(write_queue, pkt)
          /\ in_flight' = IF in_flight[pkt.pid] = Vacant THEN in_flight
                          ELSE [in_flight EXCEPT ![pkt.pid].due = FALSE,
                                                 ![pkt.pid].retries = @ + 1]
          /\ UNCHANGED <<connected, write_pending, writable, next_pid,
                         keepalive, wire, acks, held>>
     ELSE NoClient
  /\ UNCHANGED <<pc, pending, dead, give_up, got, twice, fwd>>

RetryDone ==
  /\ pc = "retry" /\ pc' = "give_up"
  /\ retry = {} \/ ~connected
  /\ retry' = {}
  /\ UNCHANGED <<client, pending, dead, give_up, subscriber, wire, acks, fwd>>

\* Slip: a client that is given up is only logged.
GiveUpLogs ==
  /\ pc = "give_up" /\ pc' = "poll"
  /\ give_up' = {}
  /\ UNCHANGED <<client, held, wire, acks>>
  /\ UNCHANGED <<pending, dead, retry, got, twice, fwd>>

\* Slip: the entry is forgotten, the client is kept.
GiveUpForgets ==
  /\ pc = "give_up" /\ pc' = "poll"
  /\ give_up' = {}
  /\ in_flight' = [p \in Pid |-> IF p \in give_up THEN Vacant ELSE in_flight[p]]
  /\ UNCHANGED <<connected, write_queue, write_pending, writable, next_pid, keepalive,
                 pending, dead, retry, subscriber, wire, acks, fwd>>

GiveUp ==
  /\ pc = "give_up" /\ pc' = "poll"
  /\ give_up' = {}
  /\ IF give_up # {} /\ connected
     THEN NoClient
     ELSE UNCHANGED <<client, held, wire, acks>>
  /\ UNCHANGED <<pending, dead, retry, got, twice, fwd>>

Turn == \/ Scan \/ FlushPending \/ SweepDone \/ FlushPending2 \/ RemoveDead
        \/ (\E pkt \in retry : Retry(pkt)) \/ RetryDone \/ GiveUp

----------------------------------------------------------------------------
(* Time.                                                                   *)

\* qos1_retry_after has passed since the entry's sent_at.
RetryElapse(p) ==
  /\ connected /\ in_flight[p] # Vacant /\ ~in_flight[p].due
  /\ in_flight' = [in_flight EXCEPT ![p].due = TRUE]
  /\ UNCHANGED <<connected, write_queue, write_pending, writable, next_pid,
                 keepalive, loop, subscriber, wire, acks, fwd>>

\* One and a half keepalive periods without a packet.
KeepaliveElapse ==
  /\ connected /\ keepalive = "live"
  /\ keepalive' = "expired"
  /\ UNCHANGED <<connected, write_queue, write_pending, writable, in_flight,
                 next_pid, loop, subscriber, wire, acks, fwd>>

----------------------------------------------------------------------------
(* The subscriber (external): it reads its socket in order and answers.    *)

ReadPublish(pkt) ==
  LET new == pkt.qos # 2 \/ pkt.pid \notin held
  IN  /\ pkt.type = "PUBLISH"
      /\ got' = IF new THEN got \cup {pkt.msg} ELSE got
      /\ twice' = IF new /\ pkt.msg \in got THEN twice \cup {pkt.msg} ELSE twice
      /\ held' = IF pkt.qos = 2 THEN held \cup {pkt.pid} ELSE held
      /\ acks' = CASE pkt.qos = 0 -> acks
                   [] pkt.qos = 1 -> Append(acks, Ack("PUBACK", pkt.pid))
                   [] pkt.qos = 2 -> Append(acks, Ack("PUBREC", pkt.pid))

ReadPubrel(pkt) ==
  /\ pkt.type = "PUBREL"
  /\ held' = held \ {pkt.pid}
  /\ acks' = Append(acks, Ack("PUBCOMP", pkt.pid))
  /\ UNCHANGED <<got, twice>>

ReadPingresp(pkt) ==
  /\ pkt.type = "PINGRESP"
  /\ UNCHANGED <<held, got, twice, acks>>

SubscriberRead ==
  /\ connected /\ wire # <<>>
  /\ wire' = Tail(wire)
  /\ ReadPublish(Head(wire)) \/ ReadPubrel(Head(wire)) \/ ReadPingresp(Head(wire))
  /\ UNCHANGED <<client, loop, fwd>>

\* A subscriber pings when it asked for a keepalive, one ping at a time.
SubscriberPing ==
  /\ connected /\ KEEPALIVE = "live"
  /\ \A i \in DOMAIN acks : acks[i].type # "PINGREQ"
  /\ acks' = Append(acks, Ack("PINGREQ", 0))
  /\ UNCHANGED <<client, loop, subscriber, wire, fwd>>

----------------------------------------------------------------------------
Next ==
  \/ \E m \in Msg : DeliverTo(m)
  \/ HandlePacket
  \/ Disconnect
  \/ WritableEvent
  \/ Turn
  \/ \E p \in Pid : RetryElapse(p)
  \/ KeepaliveElapse
  \/ SubscriberRead
  \/ SubscriberPing

\* The loop keeps turning (the poll has a timeout), its sweep reads what the
\* subscriber sent, epoll reports a writable socket, and time passes.
Fairness ==
  /\ WF_vars(Turn)
  /\ SF_vars(HandlePacket)
  /\ SF_vars(WritableEvent)
  /\ \A p \in Pid : WF_vars(RetryElapse(p))

Spec == Init /\ [][Next]_vars /\ Fairness

\* A subscriber that keeps reading.
FairReader == WF_vars(SubscriberRead)

----------------------------------------------------------------------------
(* Properties.                                                             *)

\* No buffer of a connection grows without limit: the write queue, the window
\* and the batch stay within WRITE_QUEUE_CAP, IN_FLIGHT_CAP and BATCH_MAX
\* whatever the subscriber does or fails to do, and a flush never takes the
\* socket for larger than it is.
MemoryBounded ==
  /\ Len(write_queue) <= WRITE_QUEUE_CAP
  /\ Cardinality(Window) <= IN_FLIGHT_CAP
  /\ Len(write_pending) <= BATCH_MAX
  /\ Len(wire) <= SOCK_CAP

\* However stale the list of retransmissions is when it is worked off, it
\* takes no entry past QOS1_MAX_RETRIES: every packet on it still has a retry
\* left to its packet id and is the only one for that id.
RetryListed ==
  /\ \A pkt \in retry : pkt.pid \in Pid /\ in_flight[pkt.pid].retries < QOS1_MAX_RETRIES
  /\ \A a, b \in retry : a.pid = b.pid => a = b

\* A packet that carries an id of the window carries the message the window
\* holds under that id: queued, in the batch or on the wire, no packet (a late
\* retransmission in particular) can have the acknowledgement of another
\* message attributed to it.
InTransit == wire \o write_pending \o PacketsOf(write_queue)
NoPidAliasing ==
  \A i \in DOMAIN InTransit :
    LET pkt == InTransit[i]
    IN  pkt.type = "PUBLISH" /\ pkt.qos > 0 /\ in_flight[pkt.pid] # Vacant
          => in_flight[pkt.pid].msg = pkt.msg

\* While the client lives, its reliable packets form one stream from the
\* write queue through the batch to the wire, which only grows at its end and
\* is only consumed by the subscriber at its head: eviction, batching and
\* short writes neither lose, repeat nor reorder one.
Reliable == {pkt \in PacketType : pkt.qos > 0 \/ pkt.dup}
Stream == Only(InTransit, Reliable)
StreamInOrder ==
  [][connected' => \/ IsPrefix(Stream, Stream')
                   \/ Stream # <<>> /\ Stream' = Tail(Stream)]_vars

\* Outbound keeps the promise of ReliableDelivery for its QoS1/2 messages.
Promise == INSTANCE ReliableDelivery WITH
  open <- connected,
  accepted <- {m \in Msg : fwd[m] \in {1, 2}},
  outstanding <- {in_flight[p].msg : p \in Window},
  received <- {m \in got : fwd[m] \in {1, 2}},
  WindowSize <- IN_FLIGHT_CAP

\* Every step of the queue, the handshakes and the timers is a step of the
\* promise or changes nothing the promise speaks of: in particular only a
\* message that was received is ever confirmed, and no acknowledgement, late,
\* duplicated or of an id used before, releases another message.  For QoS2 this
\* ends where packet ids are reused: see Qos2Delivered.
KeepsPromise == Promise!Spec

\* A tracked message is eventually acknowledged, or the connection is
\* reclaimed: a subscriber that stays silent cannot hold its window forever.
ReliableResolved ==
  \A m \in Msg : (connected /\ \E p \in Window : in_flight[p].msg = m)
                   ~> ~(connected /\ \E p \in Window : in_flight[p].msg = m)

\* A subscriber that keeps reading its socket is handed every message
\* accepted for it, or loses its connection.
EventuallyHanded ==
  FairReader => \A m \in Msg : (fwd[m] \in {1, 2}) ~> (m \in got \/ ~connected)

----------------------------------------------------------------------------
(* Claims of the documentation that the code does not meet.                *)

\* README.md:16-18 promises QoS 2 full delivery: a QoS2 message is handed to
\* the application once.
ExactlyOnce == \A m \in Msg : fwd[m] = 2 => m \notin twice

\* README.md:16-18 promises QoS 2 full delivery and the full handshake: a QoS2
\* message that is no longer tracked has been handed to the application.
Qos2Delivered ==
  connected => \A m \in Msg :
    fwd[m] = 2 => m \in got \/ \E p \in Window : in_flight[p].msg = m

\* The comment on the retry list, "waiting for PUBACK (QoS1) or PUBREC
\* (QoS2): re-send PUBLISH DUP": a PUBLISH is retransmitted only while its
\* entry waits for that answer.
DupOnlyWhileUnanswered ==
  [][\A pkt \in retry : pkt \notin retry' /\ connected' /\ pkt.type = "PUBLISH"
        => in_flight[pkt.pid] # Vacant /\ ~in_flight[pkt.pid].await_pubcomp]_vars

\* A client is given up after QOS1_MAX_RETRIES unanswered retransmissions of
\* a message that is still unanswered.
GivenUpUnanswered ==
  [][pc = "give_up" /\ connected /\ ~connected' /\ pc' = "poll"
       => \E p \in give_up : in_flight[p].due]_vars

\* MQTT-3.1.2-23 comment: "broker must treat ANY packet as liveness proof": a
\* client is not expired once one of its packets has been read.
AnyPacketIsLiveness ==
  [][pc = "dead" /\ connected /\ ~connected' => keepalive = "expired"]_vars

\* "The WRITABLE interest is only a fallback for when the kernel buffer is
\* full": bytes left by a short write are written once the socket has room.
ShortWriteResumed == FairReader => ((write_pending # <<>>) ~> (write_pending = <<>>))
=============================================================================
