----------------------------- MODULE InboundQos2 -----------------------------
(***************************************************************************)
(* QoS2 from a publisher to the event-loop broker (mio_broker/src/main.rs, *)
(* the PUBLISH and PUBREL arms of handle_packets): the table received_qos2 *)
(* of one connection, the acknowledgements in its write queue, and what    *)
(* the loss of the connection does to both.  Acknowledgements are queued   *)
(* as QoS0: a full queue drops them, and messages forwarded to this client *)
(* evict them.                                                             *)
(*                                                                         *)
(* The publisher (external) runs one exchange per packet id, answers       *)
(* PUBREC with PUBREL, repeats what is unanswered when it has reconnected  *)
(* and, if RESENDS, also after a while.  It reads its socket in order.     *)
(***************************************************************************)
EXTENDS ClientQueue, SequencesExt

CONSTANTS
  Msg,        \* messages, each published once
  RESENDS,    \* the publisher repeats packets within a connection
  SOCK_CAP,   \* packets the socket towards the publisher can hold
  MAX_CONN,   \* bound: connections
  MAX_FORWARD \* bound: messages forwarded to the publisher

ASSUME InboundAssumption ==
  /\ RESENDS \in BOOLEAN
  /\ SOCK_CAP \in Nat \ {0} /\ MAX_CONN \in Nat \ {0} /\ MAX_FORWARD \in Nat

VARIABLES
  exchange,      \* publisher: exchange[pid], Idle or the message and its phase
  complete,      \* publisher: messages whose exchange is complete
  up,            \* sent by the publisher, not yet handled
  down,          \* in the socket towards the publisher
  conn,          \* number of the connection
  connected,     \* it exists
  received_qos2, \* Client.received_qos2
  write_queue,   \* Client.write_queue
  forwards,      \* messages forwarded to the publisher so far
  routings       \* history: the messages routed, with their connections

publisher == <<exchange, complete>>
client == <<received_qos2, write_queue>>
vars == <<publisher, client, up, down, conn, connected, forwards, routings>>

Idle == [phase |-> "idle"]
Awaits(phase, m) == [phase |-> phase, msg |-> m]
Open == {p \in Pid : exchange[p] # Idle}

Publish(pid, m) == [type |-> "PUBLISH", pid |-> pid, msg |-> m]
Pubrel(pid) == [type |-> "PUBREL", pid |-> pid]
Ack(type, pid) == [type |-> type, pid |-> pid]
Forward == [type |-> "FORWARD"]

Init ==
  /\ exchange = [p \in Pid |-> Idle] /\ complete = {}
  /\ up = <<>> /\ down = <<>>
  /\ conn = 1 /\ connected = TRUE
  /\ received_qos2 = {} /\ write_queue = <<>>
  /\ forwards = 0 /\ routings = <<>>

----------------------------------------------------------------------------
(* The publisher.                                                          *)

Unanswered(pid) ==
  IF exchange[pid].phase = "rec" THEN Publish(pid, exchange[pid].msg) ELSE Pubrel(pid)

Started == complete \cup {exchange[p].msg : p \in Open}

Start(pid, m) ==
  /\ connected /\ exchange[pid] = Idle /\ m \notin Started
  /\ exchange' = [exchange EXCEPT ![pid] = Awaits("rec", m)]
  /\ up' = Append(up, Publish(pid, m))
  /\ UNCHANGED <<complete, client, down, conn, connected, forwards, routings>>

\* Bound: one copy of a packet is under way at a time.
Resend(pid) ==
  /\ RESENDS /\ connected /\ pid \in Open
  /\ ~Contains(up, Unanswered(pid))
  /\ up' = Append(up, Unanswered(pid))
  /\ UNCHANGED <<publisher, client, down, conn, connected, forwards, routings>>

ReadPubrec(pid) ==
  /\ Head(down) = Ack("PUBREC", pid)
  /\ IF pid \in Open
     THEN /\ exchange' = [exchange EXCEPT ![pid].phase = "comp"]
          /\ up' = IF Contains(up, Pubrel(pid)) THEN up ELSE Append(up, Pubrel(pid))
     ELSE UNCHANGED <<exchange, up>>
  /\ UNCHANGED complete

ReadPubcomp(pid) ==
  /\ Head(down) = Ack("PUBCOMP", pid)
  /\ IF exchange[pid].phase = "comp"
     THEN /\ complete' = complete \cup {exchange[pid].msg}
          /\ exchange' = [exchange EXCEPT ![pid] = Idle]
     ELSE UNCHANGED publisher
  /\ UNCHANGED up

ReadForward == Head(down) = Forward /\ UNCHANGED <<publisher, up>>

PublisherRead ==
  /\ connected /\ down # <<>> /\ down' = Tail(down)
  /\ ReadForward \/ \E pid \in Pid : ReadPubrec(pid) \/ ReadPubcomp(pid)
  /\ UNCHANGED <<client, conn, connected, forwards, routings>>

\* What was open is repeated first, in some order.
Reconnect ==
  /\ ~connected /\ conn < MAX_CONN
  /\ connected' = TRUE /\ conn' = conn + 1
  /\ \E pids \in SetToSeqs(Open) : up' = [i \in DOMAIN pids |-> Unanswered(pids[i])]
  /\ UNCHANGED <<publisher, client, down, forwards, routings>>

----------------------------------------------------------------------------
(* The broker.                                                             *)

Handles(type) == connected /\ up # <<>> /\ Head(up).type = type /\ up' = Tail(up)

\* Slip: the id is not remembered.
HandlePublishUnremembered ==
  /\ Handles("PUBLISH")
  /\ LET pkt == Head(up) IN
       /\ write_queue' = Queue0(write_queue, Ack("PUBREC", pkt.pid))
       /\ routings' = IF pkt.pid \in received_qos2 THEN routings
                      ELSE Append(routings, [msg |-> pkt.msg, conn |-> conn])
  /\ UNCHANGED <<received_qos2, publisher, down, conn, connected, forwards>>

\* Slip: a duplicate is not answered.
HandlePublishAnswersOnce ==
  /\ Handles("PUBLISH")
  /\ LET pkt == Head(up) IN
       IF pkt.pid \in received_qos2 THEN UNCHANGED <<client, routings>>
       ELSE /\ received_qos2' = received_qos2 \cup {pkt.pid}
            /\ write_queue' = Queue0(write_queue, Ack("PUBREC", pkt.pid))
            /\ routings' = Append(routings, [msg |-> pkt.msg, conn |-> conn])
  /\ UNCHANGED <<publisher, down, conn, connected, forwards>>

\* PUBLISH at QoS2: an id seen before is answered and not routed.  (Without
\* subscriptions and sessions the routing is skipped, and all else is the same.)
HandlePublish ==
  /\ Handles("PUBLISH")
  /\ LET pkt == Head(up) IN
       /\ received_qos2' = received_qos2 \cup {pkt.pid}
       /\ write_queue' = Queue0(write_queue, Ack("PUBREC", pkt.pid))
       /\ routings' = IF pkt.pid \in received_qos2 THEN routings
                      ELSE Append(routings, [msg |-> pkt.msg, conn |-> conn])
  /\ UNCHANGED <<publisher, down, conn, connected, forwards>>

\* Slip: the id is only answered.
HandlePubrelKeeps ==
  /\ Handles("PUBREL")
  /\ write_queue' = Queue0(write_queue, Ack("PUBCOMP", Head(up).pid))
  /\ UNCHANGED <<received_qos2, publisher, down, conn, connected, forwards, routings>>

\* PUBREL is answered whether or not the id is known.
HandlePubrel ==
  /\ Handles("PUBREL")
  /\ received_qos2' = received_qos2 \ {Head(up).pid}
  /\ write_queue' = Queue0(write_queue, Ack("PUBCOMP", Head(up).pid))
  /\ UNCHANGED <<publisher, down, conn, connected, forwards, routings>>

\* The client is gone, with all it held.
NoClient ==
  /\ connected' = FALSE /\ received_qos2' = {} /\ write_queue' = <<>>
  /\ up' = <<>> /\ down' = <<>>

\* deliver_to: a message is forwarded to the publisher at QoS0 or reliably; in
\* the second case it is dropped if its queue has no room.
DeliverTo(reliable) ==
  /\ connected /\ forwards < MAX_FORWARD
  /\ forwards' = forwards + 1
  /\ IF reliable /\ ~Accepts1(write_queue)
     THEN NoClient
     ELSE /\ write_queue' = IF reliable THEN Queue1(write_queue, Forward)
                            ELSE Queue0(write_queue, Forward)
          /\ UNCHANGED <<received_qos2, connected, up, down>>
  /\ UNCHANGED <<publisher, conn, routings>>

\* flush_writes, as far as the socket takes it.
Flush ==
  /\ connected /\ write_queue # <<>> /\ Len(down) < SOCK_CAP
  /\ down' = Append(down, Head(write_queue).pkt)
  /\ write_queue' = Tail(write_queue)
  /\ UNCHANGED <<received_qos2, publisher, up, conn, connected, forwards, routings>>

\* The connection is lost, or the broker dies.
LoseConnection ==
  /\ connected /\ conn < MAX_CONN
  /\ NoClient
  /\ UNCHANGED <<publisher, conn, forwards, routings>>

----------------------------------------------------------------------------
Next ==
  \/ \E pid \in Pid : Resend(pid) \/ \E m \in Msg : Start(pid, m)
  \/ PublisherRead \/ Reconnect
  \/ HandlePublish \/ HandlePubrel \/ Flush \/ LoseConnection
  \/ \E reliable \in BOOLEAN : DeliverTo(reliable)

\* The loop reads and flushes every socket once per turn; a publisher that
\* repeats packets goes on doing so, reads its socket and reconnects.
Fairness ==
  /\ WF_vars(HandlePublish \/ HandlePubrel) /\ WF_vars(Flush)
  /\ WF_vars(PublisherRead) /\ WF_vars(Reconnect)
  /\ \A pid \in Pid : WF_vars(Resend(pid))

Spec == Init /\ [][Next]_vars /\ Fairness

----------------------------------------------------------------------------
(* Properties.                                                             *)

UpPacket == {Publish(p, m) : p \in Pid, m \in Msg} \cup {Pubrel(p) : p \in Pid}
DownPacket == {Ack(type, p) : type \in {"PUBREC", "PUBCOMP"}, p \in Pid} \cup {Forward}

TypeOK ==
  /\ exchange \in [Pid -> {Idle} \cup [phase : {"rec", "comp"}, msg : Msg]]
  /\ complete \subseteq Msg
  /\ up \in Seq(UpPacket)
  /\ down \in Seq(DownPacket) /\ Len(down) <= SOCK_CAP
  /\ conn \in 1 .. MAX_CONN /\ connected \in BOOLEAN
  /\ received_qos2 \subseteq Pid
  /\ write_queue \in Seq([rel : BOOLEAN, pkt : DownPacket])
  /\ Len(write_queue) <= WRITE_QUEUE_CAP
  /\ forwards \in 0 .. MAX_FORWARD
  /\ routings \in Seq([msg : Msg, conn : 1 .. MAX_CONN])

\* How often a message was routed, and which ones on connection c.
Routings(m) == Cardinality({i \in DOMAIN routings : routings[i].msg = m})
RoutedIn(c) == {r.msg : r \in {r \in ToSet(routings) : r.conn = c}}

\* An id in the table belongs to the exchange the publisher runs under it now,
\* and that exchange's message has been routed: no id outlives its exchange and
\* swallows the next message sent under it, however often packets are repeated
\* and acknowledgements lost.
NoStaleId ==
  \A p \in received_qos2 : p \in Open /\ exchange[p].msg \in RoutedIn(conn)

\* The PUBLISH and PUBREL handlers implement RouteOnce: no message is routed
\* twice within a connection or after its exchange is complete, and no exchange
\* completes unrouted.
Promise == INSTANCE RouteOnce WITH
  count <- [m \in Msg |-> Routings(m)],
  current <- IF connected THEN RoutedIn(conn) ELSE {}
RoutesOnce == Promise!Spec

\* Although acknowledgements are dropped, evicted and lost with connections, a
\* publisher that repeats what is unanswered completes every exchange, or runs
\* out of connections.
Completes ==
  \A m \in Msg : (m \in Started) ~> (m \in complete \/ (~connected /\ conn = MAX_CONN))

----------------------------------------------------------------------------
(* Claims of the documentation that the code does not meet.                *)

\* README.md:18, QoS2 in both directions with inbound dedup: a message is routed
\* once, also when its publisher has to reconnect.
Deduplicated == \A m \in Msg : Routings(m) <= 1
=============================================================================
