-------------------------------- MODULE Broker --------------------------------
(***************************************************************************)
(* `struct Broker` of the event-loop broker (mio_broker/src/main.rs): the  *)
(* connected clients, their subscriptions, the retained messages, the      *)
(* persistent sessions and the state file.  One action handles one packet, *)
(* closed connection, save, crash or start.                                *)
(*                                                                         *)
(* The broker is one record, and its methods are operators from record to  *)
(* record, in the order of the code: publish delivers to the subscriptions *)
(* it matched and prunes those that fail, deliver_to may drop a client in  *)
(* the middle of that, remove_client publishes the will before it stores   *)
(* the session.                                                            *)
(*                                                                         *)
(* A message stands for its topic and payload.  What happens between the   *)
(* write queue and the acknowledgement (batches, retransmission, the QoS2  *)
(* handshake) is Outbound's subject: here Flush puts packets on the wire   *)
(* and Acknowledge ends the exchange.  Topic matching is a constant        *)
(* relation.  Packets of one connection are read one at a time.            *)
(***************************************************************************)
EXTENDS ClientQueue, Vectors

CONSTANTS
  Cid,            \* client ids
  Msg,            \* messages: topic and payload
  NoMsg,
  Empty,          \* the messages with an empty payload
  Long,           \* those whose PUBLISH has a remaining length of two bytes
  SYS,            \* the $SYS messages, in the order they are published
  Topic, TopicOf, \* TopicOf[m] is the topic m is published to
  Filter,         \* subscription filters, as the sets of topics they match
  WillOf,         \* WillOf[c]: the will in the CONNECT packets of c, or NoMsg
  WillRetain,     \* its retain flag
  WILL_QOS,       \* its QoS
  OFFLINE_CAP,    \* messages a session may hold for an absent client
  PUB_QOS, RETAIN, \* QoS and retain flags of PUBLISH packets
  Requests,       \* SUBSCRIBE packets: sequences of filters and QoS
  Subscribers, Publishers, \* clients that subscribe, and that publish
  CleanOf,        \* CleanOf[c]: the clean session flags c connects with
  UNIQUE_IDS,     \* clients never share an id with one still connected
  DISK_FAILS,     \* writing the state file may fail
  MAX_TOKEN,      \* bound: connections one process accepts
  MAX_SUBS,       \* bound: subscriptions
  MAX_CRASH       \* bound: times the process dies

NoCid == "none"

ASSUME BrokerAssumption ==
  /\ NoCid \notin Cid
  /\ NoMsg \notin Msg /\ Empty \subseteq Msg /\ Long \subseteq Msg /\ SYS \in Seq(Msg)
  /\ IsFiniteSet(Topic) /\ TopicOf \in [Msg -> Topic]
  /\ Filter \subseteq SUBSET Topic
  /\ WillOf \in [Cid -> Msg \cup {NoMsg}]
  /\ WillRetain \in BOOLEAN /\ WILL_QOS \in 0..2
  /\ PUB_QOS \subseteq 0..2 /\ RETAIN \subseteq BOOLEAN
  /\ Requests \subseteq Seq([filter : Filter, qos : 0..2])
  /\ Subscribers \subseteq Cid /\ Publishers \subseteq Cid
  /\ CleanOf \in [Cid -> SUBSET BOOLEAN]
  /\ UNIQUE_IDS \in BOOLEAN /\ DISK_FAILS \in BOOLEAN
  /\ OFFLINE_CAP \in Nat /\ MAX_SUBS \in Nat /\ MAX_TOKEN \in Nat /\ MAX_CRASH \in Nat

VARIABLES
  broker,   \* struct Broker, or Stopped
  disk,     \* contents of the state file
  crashes,  \* times the process has died
  order     \* the messages of PUBLISH packets, in the order handled

vars == <<broker, disk, crashes, order>>

Token == 1 .. MAX_TOKEN
Gone == [connected |-> FALSE]
NoSession == [stored |-> FALSE]

Stored(subs, offline) == [stored |-> TRUE, subs |-> subs, offline |-> offline]
Sub(filter, token, qos) == [filter |-> filter, token |-> token, qos |-> qos]
Held(m, qos) == [msg |-> m, qos |-> qos]

\* A PUBLISH to a client, or one of the acknowledgements (all of them
\* queued with queue_qos0).
Forward(m, qos, pid) == [msg |-> m, qos |-> qos, pid |-> pid]
Reply == [msg |-> NoMsg, qos |-> 0, pid |-> 0]

\* The Client record built on accept.
NewClient ==
  [connected |-> TRUE, cid |-> NoCid, clean_session |-> TRUE,
   clean_disconnect |-> FALSE, will |-> NoMsg,
   write_queue |-> <<>>, in_flight |-> {}, next_pid |-> 1]

Connected(b, t) == b.clients[t].connected

\* retained and sessions: what save() writes and load_state() reads.
Snapshot(b) == [retained |-> b.retained, sessions |-> b.sessions]
EmptyState == [retained |-> [t \in Topic |-> Held(NoMsg, 0)],
               sessions |-> [c \in Cid |-> NoSession]]
Corrupt == [readable |-> FALSE]
Stopped == [running |-> FALSE]

\* Slip: only the retained messages are taken over.
BootForgets(state) ==
  [clients |-> [t \in Token |-> Gone], subs |-> <<>>, next_token |-> 1,
   retained |-> state.retained, sessions |-> [c \in Cid |-> NoSession], dirty |-> TRUE]

\* The state in which main starts serving.
Boot(state) ==
  [clients |-> [t \in Token |-> Gone], subs |-> <<>>, next_token |-> 1,
   retained |-> state.retained, sessions |-> state.sessions, dirty |-> TRUE]

----------------------------------------------------------------------------
(* deliver_to.                                                             *)

Drop(b, t) == [b EXCEPT !.clients[t] = Gone]

\* in_flight, as the window of the allocator; ids do not wrap within the
\* bounds of this module.
HasPid(client) ==
  Cardinality(client.in_flight) < IN_FLIGHT_CAP /\ client.next_pid <= MAX_PID

QueueReply(b, t) ==
  [b EXCEPT !.clients[t].write_queue = Queue0(@, Reply)]

\* The result is the broker and whether delivery was Ok.
DeliverTo(b, t, m, qos) ==
  LET client == b.clients[t]
      pkt == Forward(m, qos, client.next_pid)
      queued == [client EXCEPT !.write_queue = Queue1(@, pkt),
                               !.in_flight = @ \cup {pkt},
                               !.next_pid = @ + 1]
  IN  CASE ~client.connected -> [b |-> b, ok |-> FALSE]
        [] client.connected /\ qos = 0 ->
             [b |-> [b EXCEPT !.clients[t].write_queue = Queue0(@, Forward(m, 0, 0))],
              ok |-> Accepts0(client.write_queue)]
        [] client.connected /\ qos > 0 ->
             IF HasPid(client) /\ Accepts1(client.write_queue)
             THEN [b |-> [b EXCEPT !.clients[t] = queued], ok |-> TRUE]
             ELSE [b |-> Drop(b, t), ok |-> FALSE]

----------------------------------------------------------------------------
(* publish.                                                                *)

LesserQos(a, b) == IF a <= b THEN a ELSE b

Retain(b, m, qos) ==
  [b EXCEPT !.retained[TopicOf[m]] = IF m \in Empty THEN Held(NoMsg, 0) ELSE Held(m, qos),
            !.dirty = TRUE]

Matches(filter, m) == TopicOf[m] \in filter

MatchingSubs(subs, m) == {i \in DOMAIN subs : Matches(subs[i].filter, m)}

\* Slip: the matched indices are worked off in ascending order.
DeliverUpward(b, m, qos) ==
  FoldLeft(LAMBDA acc, i :
             IF i \notin DOMAIN acc.subs THEN acc ELSE
             LET sub == acc.subs[i]
                 done == DeliverTo(acc, sub.token, m, LesserQos(qos, sub.qos))
             IN  IF done.ok THEN done.b ELSE [done.b EXCEPT !.subs = SwapRemove(@, i)],
           b, SetToSortSeq(MatchingSubs(b.subs, m), <))

\* The loop over idxs, highest index first; a subscription whose delivery
\* fails is swap_removed on the spot.
DeliverAll(b, m, qos) ==
  LET idxs == MatchingSubs(b.subs, m)
      deliver(acc, i) ==
        LET sub == acc.subs[i]
            done == DeliverTo(acc, sub.token, m, LesserQos(qos, sub.qos))
        IN  IF done.ok THEN done.b ELSE [done.b EXCEPT !.subs = SwapRemove(@, i)]
  IN  FoldLeft(LAMBDA acc, i : IF i \in idxs THEN deliver(acc, i) ELSE acc,
               b, Downward(Len(b.subs)))

\* The QoS of the first subscription of the session that matches.
SessionQos(session, m) ==
  session.subs[SelectInSeq(session.subs, LAMBDA s : Matches(s.filter, m))].qos

Wants(session, m) ==
  session.stored /\ \E i \in DOMAIN session.subs : Matches(session.subs[i].filter, m)

\* Slip: the cap is off by one.
HasRoomForOneMore(session) == Len(session.offline) <= OFFLINE_CAP

HasRoom(session) == Len(session.offline) < OFFLINE_CAP

\* Slip: an absent client's newest message is put in front.
StorePushFront(b, m, qos) ==
  LET takers == {c \in Cid : Wants(b.sessions[c], m) /\ HasRoom(b.sessions[c])}
      store(c) == [b.sessions[c] EXCEPT !.offline =
                     <<Held(m, LesserQos(qos, SessionQos(b.sessions[c], m)))>> \o @]
  IN  IF qos = 0 \/ takers = {} THEN b
      ELSE [b EXCEPT !.sessions = [c \in Cid |-> IF c \in takers THEN store(c) ELSE @[c]],
                     !.dirty = TRUE]

\* Offline delivery: every stored session that wants a QoS1/2 message and has
\* room keeps it.
StoreOffline(b, m, qos) ==
  LET takers == {c \in Cid : Wants(b.sessions[c], m) /\ HasRoom(b.sessions[c])}
      store(c) == [b.sessions[c] EXCEPT !.offline =
                     Append(@, Held(m, LesserQos(qos, SessionQos(b.sessions[c], m))))]
  IN  IF qos = 0 \/ takers = {} THEN b
      ELSE [b EXCEPT !.sessions = [c \in Cid |-> IF c \in takers THEN store(c) ELSE @[c]],
                     !.dirty = TRUE]

Publish(b, m, qos, retain) ==
  LET kept == IF retain THEN Retain(b, m, qos) ELSE b
  IN  StoreOffline(DeliverAll(kept, m, qos), m, qos)

----------------------------------------------------------------------------
(* remove_client and publish_lwt.                                          *)

PublishLwt(b, t) ==
  IF Connected(b, t) /\ b.clients[t].will # NoMsg
  THEN Publish(b, b.clients[t].will, WILL_QOS, WillRetain)
  ELSE b

\* The subscriptions of a token, and the QoS1/2 packets it had queued.
OwnSubs(b, t) == {s \in ToSet(b.subs) : s.token = t}
SubsOf(b, t) ==
  LET own == Only(b.subs, OwnSubs(b, t))
  IN  [i \in DOMAIN own |-> [filter |-> own[i].filter, qos |-> own[i].qos]]

Unsent(b, t) ==
  LET queue == b.clients[t].write_queue
      rel == Only(queue, {e \in ToSet(queue) : e.rel})
  IN  [i \in DOMAIN rel |-> Held(rel[i].pkt.msg, rel[i].pkt.qos)]

UpTo(s, n) == IF Len(s) <= n THEN s ELSE SubSeq(s, 1, n)

\* Slip: a new entry replaces the one that is there.
PersistReplaces(b, t) ==
  [b EXCEPT !.sessions[b.clients[t].cid] =
              Stored(SubsOf(b, t), UpTo(Unsent(b, t), OFFLINE_CAP)),
            !.dirty = TRUE]

\* The entry of the session store: new subscriptions are added once each,
\* queued packets while there is room.
Merged(subs, more) ==
  FoldLeft(LAMBDA acc, s : IF Contains(acc, s) THEN acc ELSE Append(acc, s), subs, more)

\* Slip: the last place of a session stays free.
WithMoreShort(offline, more) ==
  LET room == IF Len(offline) < OFFLINE_CAP THEN OFFLINE_CAP - Len(offline) - 1 ELSE 0
  IN  offline \o UpTo(more, room)
WithMore(offline, more) ==
  LET room == IF Len(offline) <= OFFLINE_CAP THEN OFFLINE_CAP - Len(offline) ELSE 0
  IN  offline \o UpTo(more, room)
Persist(b, t) ==
  LET c == b.clients[t].cid
      old == IF b.sessions[c].stored THEN b.sessions[c] ELSE Stored(<<>>, <<>>)
  IN  [b EXCEPT !.sessions[c] = Stored(Merged(old.subs, SubsOf(b, t)),
                                       WithMore(old.offline, Unsent(b, t))),
                !.dirty = TRUE]

Persistent(b, t) ==
  Connected(b, t) /\ ~b.clients[t].clean_session /\ b.clients[t].cid # NoCid

Unsubscribed(b, t) == [b EXCEPT !.subs = Only(@, ToSet(@) \ OwnSubs(b, t))]

\* The will may itself overflow the client's queue and drop it; there is
\* nothing left to persist then.
Farewell(b, t) ==
  IF Connected(b, t) /\ b.clients[t].clean_disconnect THEN b ELSE PublishLwt(b, t)

\* The packets to persist are decoded as if the remaining length had one byte:
\* the topic length of a longer one is read from the wrong place and exceeds
\* the packet, and the slice panics.
Undecodable(b, t) ==
  LET said == Farewell(b, t)
  IN  Persistent(said, t) /\ \E held \in ToSet(Unsent(said, t)) : held.msg \in Long

\* remove_client up to its save(), when it gets there.
RemoveClient(b, t) ==
  LET said == Farewell(b, t)
      kept == IF Persistent(said, t) THEN Persist(said, t) ELSE said
  IN  Drop(Unsubscribed(kept, t), t)

----------------------------------------------------------------------------
(* The state file.                                                         *)

\* save(): nothing when the dirty flag is down; else the file is rewritten in
\* place.  A write that fails leaves the file as it was (not opened) or
\* truncated; one that the process does not survive leaves it truncated.
Saved(b) ==
  \/ /\ b.dirty
     /\ broker' = [b EXCEPT !.dirty = FALSE] /\ disk' = Snapshot(b)
     /\ UNCHANGED crashes
  \/ /\ ~b.dirty
     /\ broker' = b
     /\ UNCHANGED <<disk, crashes>>
  \/ /\ b.dirty /\ DISK_FAILS
     /\ broker' = b /\ disk' \in {disk, Corrupt}
     /\ UNCHANGED crashes
  \/ /\ b.dirty /\ crashes < MAX_CRASH
     /\ broker' = Stopped /\ disk' = Corrupt /\ crashes' = crashes + 1

Running == broker # Stopped

\* Slip: the throttle is only reached while a client is connected.
SaveWhenBusy ==
  /\ Running /\ broker.dirty
  /\ \E t \in Token : Connected(broker, t)
  /\ Saved(broker)
  /\ UNCHANGED order

\* The 200 ms throttle in the loop tail: some time after the state changed.
Save ==
  /\ Running /\ broker.dirty
  /\ Saved(broker)
  /\ UNCHANGED order

Crash ==
  /\ Running /\ crashes < MAX_CRASH
  /\ broker' = Stopped /\ crashes' = crashes + 1
  /\ UNCHANGED <<disk, order>>

\* main and load_state: a file that cannot be read means empty state.
Start ==
  /\ broker = Stopped
  /\ broker' = Boot(IF disk = Corrupt THEN EmptyState ELSE disk)
  /\ UNCHANGED <<disk, crashes, order>>

----------------------------------------------------------------------------
(* Connections and packets.                                                *)

\* A step that only changes the broker.
Becomes(b) == broker' = b /\ UNCHANGED <<disk, crashes>>

\* A panic of the only thread ends the process; nothing has been saved.
Dies == broker' = Stopped /\ UNCHANGED <<disk, crashes>>

\* The connection is closed by the broker: remove_client, whose last act is
\* to save.
Closes(b, t) == IF Undecodable(b, t) THEN Dies ELSE Saved(RemoveClient(b, t))

\* handle_packets returned a result: on Err the connection is closed.
Handled(done, t) == IF done.ok THEN Becomes(done.b) ELSE Closes(done.b, t)

Is(t, cids) == Running /\ Connected(broker, t) /\ broker.clients[t].cid \in cids
Named(t) == Is(t, Cid)
Online(b, c) == {t \in Token : Connected(b, t) /\ b.clients[t].cid = c}

\* Bound: a connection says CONNECT, or is lost, before the next is accepted
\* (until then it takes part in nothing).
Accept ==
  /\ Running /\ broker.next_token <= MAX_TOKEN
  /\ Online(broker, NoCid) = {}
  /\ Becomes([broker EXCEPT !.clients[broker.next_token] = NewClient,
                            !.next_token = @ + 1])
  /\ UNCHANGED order

AddSubs(b, t, subs) ==
  [b EXCEPT !.subs = @ \o [i \in DOMAIN subs |-> Sub(subs[i].filter, t, subs[i].qos)]]

\* Slip: the session is taken without marking the state dirty.
ForgetQuietly(b, c) == [b EXCEPT !.sessions[c] = NoSession]

Forget(b, c) ==
  [b EXCEPT !.sessions[c] = NoSession, !.dirty = @ \/ b.sessions[c].stored]

\* The offline queue goes to the new connection, each message at the QoS of
\* the first matching subscription at most, until a delivery fails.
FlushSession(b, t, session) ==
  LET dqos(held) == IF Wants(session, held.msg)
                    THEN LesserQos(held.qos, SessionQos(session, held.msg)) ELSE held.qos
  IN  FoldLeft(LAMBDA acc, held : IF acc.ok THEN DeliverTo(acc.b, t, held.msg, dqos(held)) ELSE acc,
               [b |-> b, ok |-> TRUE], session.offline)

\* CONNECT.  The session leaves the store only once all of its queue has been
\* handed to the connection.
Connect(t, c, clean) ==
  LET session == broker.sessions[c]
      resumes == ~clean /\ session.stored
      cleared == IF clean THEN Forget(broker, c) ELSE broker
      restored == IF resumes THEN AddSubs(cleared, t, session.subs) ELSE cleared
      named == [restored EXCEPT !.clients[t] =
                  [@ EXCEPT !.cid = c, !.clean_session = clean, !.will = WillOf[c]]]
      greeted == QueueReply(named, t)
      flushed == IF resumes THEN FlushSession(greeted, t, session)
                 ELSE [b |-> greeted, ok |-> TRUE]
  IN  /\ Running /\ Connected(broker, t) /\ broker.clients[t].cid = NoCid
      /\ UNIQUE_IDS => Online(broker, c) = {}
      /\ Handled(IF flushed.ok /\ resumes THEN [flushed EXCEPT !.b = Forget(@, c)]
                 ELSE flushed, t)
      /\ UNCHANGED order

\* One filter of a SUBSCRIBE: the subscription, then the retained messages it
\* matches, in the order seq, until a delivery fails.
SubscribeOne(b, t, request, retained, seq) ==
  LET send(done, topic) ==
        IF done.ok
        THEN DeliverTo(done.b, t, retained[topic].msg, LesserQos(retained[topic].qos, request.qos))
        ELSE done
  IN  FoldLeft(send, [b |-> AddSubs(b, t, <<request>>), ok |-> TRUE], Only(seq, request.filter))

SubscribeAll(b, t, topics, seq) ==
  FoldLeft(LAMBDA acc, request :
             IF acc.ok THEN SubscribeOne(acc.b, t, request, b.retained, seq) ELSE acc,
           [b |-> b, ok |-> TRUE], topics)

\* SUBSCRIBE.  The order of the hash map of retained messages is arbitrary, but
\* the same for every filter; SUBACK at the end.
Subscribe(t, topics) ==
  LET stored == {topic \in Topic : broker.retained[topic].msg # NoMsg}
  IN  /\ Is(t, Subscribers) /\ Len(broker.subs) + Len(topics) <= MAX_SUBS
      /\ \E seq \in SetToSeqs(stored) :
           LET sent == SubscribeAll(broker, t, topics, seq)
           IN  Handled(IF sent.ok THEN [sent EXCEPT !.b = QueueReply(@, t)] ELSE sent, t)
      /\ UNCHANGED order

\* UNSUBSCRIBE from several filters at once.
Unsubscribe(t, filters) ==
  LET leaving == {s \in OwnSubs(broker, t) : s.filter \in filters}
  IN  /\ Named(t)
      /\ filters = {s.filter : s \in leaving}
      /\ Becomes(QueueReply([broker EXCEPT !.subs = Only(@, ToSet(@) \ leaving)], t))
      /\ UNCHANGED order

\* PUBLISH: the acknowledgement is queued first, then the message is routed.
PublishPacket(t, m, qos, retain) ==
  LET replied == IF qos > 0 THEN QueueReply(broker, t) ELSE broker
  IN  /\ Is(t, Publishers) /\ ~Contains(order, m)
      /\ Becomes(Publish(replied, m, qos, retain))
      /\ order' = Append(order, m)

\* Slip: DISCONNECT sets the flag and leaves the connection to the peer.
DisconnectLeavesOpen(t) ==
  /\ Named(t)
  /\ Becomes([broker EXCEPT !.clients[t].clean_disconnect = TRUE])
  /\ UNCHANGED order

\* Slip: DISCONNECT is handled like any other end of the connection.
DisconnectSaysWill(t) == Named(t) /\ Closes(broker, t) /\ UNCHANGED order

\* DISCONNECT suppresses the will.
DisconnectPacket(t) ==
  /\ Named(t)
  /\ Closes([broker EXCEPT !.clients[t].clean_disconnect = TRUE], t)
  /\ UNCHANGED order

\* EOF, a protocol error, a dead socket, an expired keepalive, a give-up.
Lose(t) ==
  /\ Running /\ Connected(broker, t)
  /\ Closes(broker, t)
  /\ UNCHANGED order

\* flush_writes, packet by packet: any prefix of the queue gets out.
Flush(t) ==
  /\ Named(t) /\ broker.clients[t].write_queue # <<>>
  /\ Becomes([broker EXCEPT !.clients[t].write_queue = Tail(@)])
  /\ UNCHANGED order

\* PUBACK, or PUBCOMP at the end of the QoS2 handshake, for a packet that was
\* sent.
Acknowledge(t, pkt) ==
  /\ Named(t) /\ pkt \in broker.clients[t].in_flight
  /\ \A i \in DOMAIN broker.clients[t].write_queue : broker.clients[t].write_queue[i].pkt # pkt
  /\ Becomes([broker EXCEPT !.clients[t].in_flight = @ \ {pkt}])
  /\ UNCHANGED order

\* publish_sys_topics, every 10 s: retained messages at QoS 0.
SysPublished(b) == FoldLeft(LAMBDA acc, m : Publish(acc, m, 0, TRUE), b, SYS)
PublishSys ==
  /\ Running /\ SYS # <<>>
  /\ Becomes(SysPublished(broker))
  /\ UNCHANGED order

Init ==
  /\ broker = Boot(EmptyState)
  /\ disk = EmptyState
  /\ crashes = 0
  /\ order = <<>>

Next ==
  \/ Accept \/ Save \/ Crash \/ Start \/ PublishSys
  \/ \E t \in Token :
       \/ \E c \in Cid : \E clean \in CleanOf[c] : Connect(t, c, clean)
       \/ \E topics \in Requests : Subscribe(t, topics)
       \/ \E filters \in SUBSET Filter \ {{}} : Unsubscribe(t, filters)
       \/ \E m \in Msg \ ToSet(SYS), qos \in PUB_QOS, retain \in RETAIN : PublishPacket(t, m, qos, retain)
       \/ DisconnectPacket(t)
       \/ Lose(t)
       \/ Flush(t)
       \/ \E m \in Msg, qos \in 1..2, pid \in Pid : Acknowledge(t, Forward(m, qos, pid))

\* The loop keeps turning, so a dirty state is saved some 200 ms later.
Spec == Init /\ [][Next]_vars /\ WF_vars(Save)

----------------------------------------------------------------------------
(* Properties.                                                             *)

HeldType == [msg : Msg, qos : 0..2]
FilterQos == [filter : Filter, qos : 0..2]
SubType == [filter : Filter, token : Token, qos : 0..2]

\* Exactly the QoS1/2 packets are queued as reliable.
PacketType == [msg : Msg, qos : 1..2, pid : Pid]
EntryType ==
  [rel : {TRUE}, pkt : PacketType]
  \cup [rel : {FALSE}, pkt : [msg : Msg, qos : {0}, pid : {0}] \cup {Reply}]

ConnectedType ==
  [connected : {TRUE}, cid : Cid \cup {NoCid}, clean_session : BOOLEAN,
   clean_disconnect : BOOLEAN, will : Msg \cup {NoMsg},
   write_queue : Seq(EntryType), in_flight : SUBSET PacketType, next_pid : Nat \ {0}]
ClientType == {Gone} \cup ConnectedType

StoredType == [stored : {TRUE}, subs : Seq(FilterQos), offline : Seq(HeldType)]
SessionType == {NoSession} \cup StoredType
RetainedType == [Topic -> HeldType \cup {Held(NoMsg, 0)}]
StateType == [retained : RetainedType, sessions : [Cid -> SessionType]]

BrokerType ==
  [clients : [Token -> ClientType], subs : Seq(SubType), next_token : 1 .. MAX_TOKEN + 1,
   retained : RetainedType, sessions : [Cid -> SessionType], dirty : BOOLEAN]

\* A client that has sent DISCONNECT is gone.
TypeOK ==
  /\ Running =>
       /\ broker \in BrokerType
       /\ \A t \in Token : Connected(broker, t) => ~broker.clients[t].clean_disconnect
  /\ disk \in StateType \cup {Corrupt}
  /\ crashes \in 0 .. MAX_CRASH
  /\ order \in Seq(Msg)

\* Whatever a slow, absent or returning client does, nothing kept for it
\* exceeds its limit: the write queue and the window while it is connected,
\* the offline queue of its session (filled by publish, by remove_client and,
\* after an interrupted flush, by both) while it is away.
Bounded ==
  Running =>
    /\ \A t \in Token : Connected(broker, t) =>
         /\ Len(broker.clients[t].write_queue) <= WRITE_QUEUE_CAP
         /\ Cardinality(broker.clients[t].in_flight) <= IN_FLIGHT_CAP
    /\ \A c \in Cid : broker.sessions[c].stored =>
         Len(broker.sessions[c].offline) <= OFFLINE_CAP

\* The dirty flag tells the truth: while it is down, the state file holds
\* exactly the retained table and the sessions in memory.  Each of the places
\* that change them has to raise it.
SavedWhenClean == Running /\ ~broker.dirty => disk = Snapshot(broker)

\* Fan-out reaches everyone it should, although clients are dropped and
\* subscriptions are swap_removed while it is under way.  A connected client
\* with room for one copy per matching subscription gets that many and keeps
\* its connection and subscriptions; a subscription that does not match
\* survives whoever else fails; a stored session with room keeps a QoS1/2
\* message as its latest.
CopiesOf(b, u, m) ==
  Cardinality({i \in DOMAIN b.clients[u].write_queue : b.clients[u].write_queue[i].pkt.msg = m})
SubCount(b, s) == Cardinality({i \in DOMAIN b.subs : b.subs[i] = s})
Addressed(u, m) ==
  Cardinality({i \in MatchingSubs(broker.subs, m) : broker.subs[i].token = u})
RoomFor(u, n) ==
  LET client == broker.clients[u]
  IN  /\ Connected(broker, u)
      /\ Len(client.write_queue) + n < WRITE_QUEUE_CAP
      /\ Cardinality(client.in_flight) + n <= IN_FLIGHT_CAP
      /\ client.next_pid + n <= MAX_PID + 1
FannedOut(m, qos) ==
  /\ \A u \in Token : RoomFor(u, Addressed(u, m)) =>
       /\ Connected(broker', u)
       /\ CopiesOf(broker', u, m) = CopiesOf(broker, u, m) + Addressed(u, m)
  /\ \A s \in ToSet(broker.subs) :
       ~Matches(s.filter, m) \/ RoomFor(s.token, Addressed(s.token, m))
         => SubCount(broker', s) = SubCount(broker, s)
  /\ \A c \in Cid : qos > 0 /\ Wants(broker.sessions[c], m) /\ HasRoom(broker.sessions[c])
       => broker'.sessions[c].offline # <<>> /\ Last(broker'.sessions[c].offline).msg = m
FanOutComplete ==
  [][\A t \in Token, m \in Msg, qos \in PUB_QOS, retain \in RETAIN :
       order' # order /\ PublishPacket(t, m, qos, retain) => FannedOut(m, qos)]_vars

\* What the broker holds for a persistent client, queued for its connection
\* or stored while it is away.
Kept(held) == Only(held, {h \in ToSet(held) : h.qos > 0})
Lines(b, c) ==
  {Kept(Unsent(b, t)) : t \in {t \in Online(b, c) : ~b.clients[t].clean_session}}
  \cup (IF b.sessions[c].stored THEN {Kept(b.sessions[c].offline)} ELSE {})
Custody(b, c) == UNION {ToSet([i \in DOMAIN line |-> line[i].msg]) : line \in Lines(b, c)}

\* Absence does not reorder: across any number of disconnects and reconnects,
\* a persistent client's QoS1/2 messages stand in the queue and in the session
\* in the order in which the broker handled their PUBLISH packets, as long as
\* no two connections use its id at once.
Rank(m) == CHOOSE i \in DOMAIN order : order[i] = m
InOrder ==
  Running => \A c \in Cid : \A line \in Lines(broker, c) :
    \A i, j \in DOMAIN line : i < j => Rank(line[i].msg) <= Rank(line[j].msg)
OfflineInOrder ==
  [](Running => \A c \in Cid : Cardinality(Online(broker, c)) <= 1) => []InOrder

\* A QoS1/2 message waiting for a persistent client stays with the broker,
\* moving between queue and session as the client comes and goes, until it is
\* written to the client's socket or the client asks for a clean session.
Waits(c) ==
  \/ ~Running \/ broker' = Stopped
  \/ Custody(broker, c) \subseteq Custody(broker', c)
  \/ \E t \in Token : Connect(t, c, TRUE)
  \/ \E t \in Online(broker, c) : Flush(t)
UnsentKept == [][\A c \in Cid : Waits(c)]_vars

\* At the limits, such a message is lost in three ways and no other: deliver_to
\* drops a client without room, for which its own farewell or the retained
\* messages of its own SUBSCRIBE may be too much; remove_client cuts off what
\* exceeds the cap of the session; and a message resumed under a QoS0
\* subscription waits as one of QoS0.
Departs(t) == Lose(t) \/ DisconnectPacket(t)
Said(t) == IF Lose(t) THEN Farewell(broker, t) ELSE broker
CutsOff(b, t, c) ==
  (IF b.sessions[c].stored THEN Len(b.sessions[c].offline) ELSE 0) + Len(Unsent(b, t)) > OFFLINE_CAP
Downgrades(session) ==
  session.stored /\ \E held \in ToSet(session.offline) :
                     Wants(session, held.msg) /\ SessionQos(session, held.msg) = 0
GivenUp(c) ==
  \/ \E t \in Online(broker, c) :
       IF Departs(t) THEN ~Connected(Said(t), t) \/ CutsOff(Said(t), t, c)
       ELSE ~Connected(broker', t)
  \/ Downgrades(broker.sessions[c]) /\ \E t \in Token : Connect(t, c, FALSE)
KeptToTheLimits == [][\A c \in Cid : Waits(c) \/ GivenUp(c)]_vars

\* Once a message for an absent client is in the state file, every crash,
\* restart and save and whatever other clients do leave it there, and in the
\* session of the process that runs, until its owner connects again or a write
\* of the file is interrupted.
OnDisk(state, c) ==
  IF state = Corrupt \/ ~state.sessions[c].stored THEN {}
  ELSE {held.msg : held \in ToSet(state.sessions[c].offline)}
Safe(c, m) == m \in OnDisk(disk, c) /\ (Running => m \in OnDisk(Snapshot(broker), c))
DurableWhileAway ==
  [][\A c \in Cid, m \in Msg : Safe(c, m) =>
       \/ Safe(c, m)' \/ disk' = Corrupt
       \/ \E t \in Token, clean \in CleanOf[c] : Connect(t, c, clean)]_vars

\* Every change of the retained table and the sessions reaches the state file
\* if the broker keeps running and the disk does not fail forever.
DiskRecovers == WF_vars(Save /\ disk' = Snapshot(broker))
EventuallySaved == DiskRecovers => (Running ~> (~Running \/ disk = Snapshot(broker)))

----------------------------------------------------------------------------
(* Claims of the documentation that the code does not meet.                *)

Leaves(t) ==
  Running /\ broker' # Stopped /\ Connected(broker, t) /\ ~Connected(broker', t)

\* "Remove a client, publishing its LWT unless it disconnected cleanly (sent
\* DISCONNECT).  Every disconnect path must go through this."  With a retained
\* will: it is in the retained table once its client is gone.
WillSpoken ==
  [][\A t \in Token : Leaves(t) /\ broker.clients[t].will # NoMsg /\ ~DisconnectPacket(t)
       => broker'.retained[TopicOf[broker.clients[t].will]].msg = broker.clients[t].will]_vars

\* TEST.md:27, persistent sessions: a disconnect stores the subscriptions.
SessionStored ==
  [][\A t \in Token : Leaves(t) /\ Persistent(broker, t)
       => broker'.sessions[broker.clients[t].cid].stored]_vars

\* TEST.md:27, persistent sessions: a reconnect restores the session.
ReconnectRestores ==
  [][\A t \in Token, c \in Cid : Connect(t, c, FALSE) => Connected(broker', t)]_vars

\* README.md:20: slow QoS0 subscribers get dropped messages.  They lose
\* nothing else: a subscription lives until its client leaves or unsubscribes.
SubscriptionKept ==
  [][\A s \in ToSet(broker.subs) :
       \/ broker' = Stopped \/ ~Connected(broker, s.token) \/ ~Connected(broker', s.token)
       \/ SubCount(broker', s) = SubCount(broker, s)
       \/ \E topics \in Requests : Subscribe(s.token, topics)
       \/ \E filters \in SUBSET Filter \ {{}} : Unsubscribe(s.token, filters)]_vars

\* jcode_backlog.json:14: the offline queues of persistent sessions are on
\* disk, a restart loses nothing.  A queue that is in the state file stays there
\* while its messages wait to be sent.
DurableUntilSent ==
  [][\A c \in Cid :
       Running /\ broker' # Stopped /\ disk' # Corrupt
         => OnDisk(disk, c) \cap Custody(broker', c) \subseteq OnDisk(disk', c)]_vars

\* The same entry, for retained messages: the death of the process, at
\* whatever point of a save, takes nothing out of the state file.
Contents(state) ==
  IF state = Corrupt THEN {}
  ELSE {state.retained[topic].msg : topic \in Topic} \ {NoMsg}
RestartLosesNothing ==
  [][Running /\ broker' = Stopped => Contents(disk) \subseteq Contents(disk')]_vars
=============================================================================
