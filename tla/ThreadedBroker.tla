---------------------------- MODULE ThreadedBroker ----------------------------
(***************************************************************************)
(* The threaded broker (mqtt_broker.rs): per connection a reader thread    *)
(* (handle_client) and a writer thread, one mutex around the subscription  *)
(* table, and one bounded channel per connection that its reader and every *)
(* publisher send to and its writer drains into the socket.                *)
(*                                                                         *)
(* Readers block in read_packet, in lock() and in tx.send of a reply; the  *)
(* writer blocks in recv and in write_all; publish holds the mutex for the *)
(* whole fan-out and uses try_send.  The peer reads its socket, or not,    *)
(* and may close the connection at any time.  A filter is the set of       *)
(* messages it matches.  The list of client ids only feeds a log line and  *)
(* is left out.                                                            *)
(***************************************************************************)
EXTENDS Vectors

CONSTANTS
  Conn,           \* connections, each accepted once
  Msg,            \* messages, each published once
  Filter,         \* filters, as sets of messages
  PUB_QOS,        \* QoS of incoming PUBLISH packets
  SUB_QUEUE_CAP,  \* packets a channel holds
  SOCK_CAP,       \* packets the socket towards a peer holds
  MAX_SUBS        \* bound: subscriptions

Free == "free"
Reply == "reply"     \* CONNACK, SUBACK, UNSUBACK, PUBACK or PINGRESP
Recv == "recv"
Ended == "ended"

ASSUME ThreadedAssumption ==
  /\ Free \notin Conn /\ Msg \cap {Reply, Recv, Ended} = {}
  /\ Filter \subseteq SUBSET Msg
  /\ PUB_QOS \subseteq {0, 1}
  /\ SUB_QUEUE_CAP \in Nat \ {0} /\ SOCK_CAP \in Nat \ {0} /\ MAX_SUBS \in Nat

VARIABLES
  lock,    \* holder of the mutex, or Free
  subs,    \* Broker.subs
  reader,  \* reader thread: where it is, and the request it works on
  writer,  \* writer thread: waiting in recv, or the packet in write_all
  chan,    \* the channel of a connection
  sock,    \* written, not yet read by the peer
  peer,    \* the peer has the connection open
  got,     \* messages the peer has read
  sent     \* messages that have been published

vars == <<lock, subs, reader, writer, chan, sock, peer, got, sent>>

Sub(f, c) == [filter |-> f, token |-> c]

\* A request: what its critical section does (op, arg, the loop index of
\* publish) and whether a reply is still to be sent.
Request(op, arg, reply) == [op |-> op, arg |-> arg, reply |-> reply, i |-> 1]
NoRequest == Request("none", {}, FALSE)
At(pc, req) == [pc |-> pc, req |-> req]

Init ==
  /\ lock = Free
  /\ subs = <<>>
  /\ reader = [c \in Conn |-> At("lock", Request("connect", {}, TRUE))]
  /\ writer = [c \in Conn |-> Recv]
  /\ chan = [c \in Conn |-> <<>>]
  /\ sock = [c \in Conn |-> <<>>]
  /\ peer = [c \in Conn |-> TRUE]
  /\ got = [c \in Conn |-> <<>>]
  /\ sent = {}

Moves(c, pc, req) == reader' = [reader EXCEPT ![c] = At(pc, req)]
Is(c, pc) == reader[c].pc = pc
Req(c) == reader[c].req

----------------------------------------------------------------------------
(* handle_client: the reader thread.                                       *)

\* read_packet returned a packet.  Every request but PINGREQ has a critical
\* section; a QoS1 PUBLISH is acknowledged before it, the others after.
ReadSubscribe(c, f) ==
  /\ Is(c, "read") /\ peer[c]
  /\ Len(subs) + Cardinality({d \in Conn : Req(d).op = "subscribe"}) < MAX_SUBS
  /\ Moves(c, "lock", Request("subscribe", f, TRUE))
  /\ UNCHANGED <<lock, subs, writer, chan, sock, peer, got, sent>>

ReadUnsubscribe(c, f) ==
  /\ Is(c, "read") /\ peer[c] /\ Contains(subs, Sub(f, c))
  /\ Moves(c, "lock", Request("unsubscribe", f, TRUE))
  /\ UNCHANGED <<lock, subs, writer, chan, sock, peer, got, sent>>

ReadPublish(c, m, qos) ==
  /\ Is(c, "read") /\ peer[c] /\ m \notin sent
  /\ Moves(c, IF qos = 1 THEN "send" ELSE "lock", Request("publish", m, FALSE))
  /\ sent' = sent \cup {m}
  /\ UNCHANGED <<lock, subs, writer, chan, sock, peer, got>>

ReadPing(c) ==
  /\ Is(c, "read") /\ peer[c]
  /\ Moves(c, "send", NoRequest)
  /\ UNCHANGED <<lock, subs, writer, chan, sock, peer, got, sent>>

\* DISCONNECT, a bad packet, EOF, or the read timeout of the keepalive: the
\* loop ends.
EndLoop(c) ==
  /\ Is(c, "read")
  /\ Moves(c, "lock", Request("cleanup", {}, FALSE))
  /\ UNCHANGED <<lock, subs, writer, chan, sock, peer, got, sent>>

Lock(c) ==
  /\ Is(c, "lock") /\ lock = Free
  /\ lock' = c
  /\ Moves(c, "locked", Req(c))
  /\ UNCHANGED <<subs, writer, chan, sock, peer, got, sent>>

\* Slip: the subscriptions of a connection stay when it ends.
LockedKeepsSubs(c) ==
  LET req == Req(c)
  IN  /\ Is(c, "locked") /\ req.op # "publish"
      /\ subs' = CASE req.op = "subscribe" -> Append(subs, Sub(req.arg, c))
                   [] req.op = "unsubscribe" -> Only(subs, ToSet(subs) \ {Sub(req.arg, c)})
                   [] OTHER -> subs
      /\ lock' = Free
      /\ IF req.reply THEN Moves(c, "send", NoRequest) ELSE Moves(c, Ended, NoRequest)
      /\ UNCHANGED <<writer, chan, sock, peer, got, sent>>

\* The critical sections of CONNECT, SUBSCRIBE, UNSUBSCRIBE and of the end of
\* the thread (disconnect_client).
Locked(c) ==
  LET req == Req(c)
  IN  /\ Is(c, "locked") /\ req.op # "publish"
      /\ subs' = CASE req.op = "connect" -> subs
                   [] req.op = "subscribe" -> Append(subs, Sub(req.arg, c))
                   [] req.op = "unsubscribe" -> Only(subs, ToSet(subs) \ {Sub(req.arg, c)})
                   [] req.op = "cleanup" -> Only(subs, {s \in ToSet(subs) : s.token # c})
      /\ lock' = Free
      /\ IF req.reply THEN Moves(c, "send", NoRequest) ELSE Moves(c, Ended, NoRequest)
      /\ UNCHANGED <<writer, chan, sock, peer, got, sent>>

\* Slip: the limit is off by one.
HasRoomForOneMore(c) == Len(chan[c]) <= SUB_QUEUE_CAP

HasRoom(c) == Len(chan[c]) < SUB_QUEUE_CAP

\* Slip: send instead of try_send, which waits for room with the mutex held.
PublishWaits(c) ==
  LET req == Req(c)
      sub == subs[req.i]
      next == [req EXCEPT !.i = @ + 1]
  IN  /\ Is(c, "locked") /\ req.op = "publish" /\ req.i <= Len(subs)
      /\ \/ /\ req.arg \notin sub.filter
            /\ Moves(c, "locked", next)
            /\ UNCHANGED <<subs, chan>>
         \/ /\ req.arg \in sub.filter /\ writer[sub.token] = Ended
            /\ subs' = RemoveAt(subs, req.i)
            /\ UNCHANGED <<reader, chan>>
         \/ /\ req.arg \in sub.filter /\ writer[sub.token] # Ended
            /\ HasRoom(sub.token)
            /\ chan' = [chan EXCEPT ![sub.token] = Append(@, req.arg)]
            /\ Moves(c, "locked", next)
            /\ UNCHANGED subs
      /\ UNCHANGED <<lock, writer, sock, peer, got, sent>>

\* Slip: the mutex is taken for each try_send.
PublishUnlocks(c) ==
  LET req == Req(c)
      sub == subs[req.i]
  IN  /\ Is(c, "locked") /\ req.op = "publish" /\ req.i <= Len(subs)
      /\ chan' = IF req.arg \in sub.filter /\ writer[sub.token] # Ended /\ HasRoom(sub.token)
                 THEN [chan EXCEPT ![sub.token] = Append(@, req.arg)] ELSE chan
      /\ Moves(c, "lock", [req EXCEPT !.i = @ + 1])
      /\ lock' = Free
      /\ UNCHANGED <<subs, writer, sock, peer, got, sent>>

\* One turn of the retain loop of publish: try_send to a matching
\* subscription.  Full: the message is dropped; disconnected (the writer has
\* ended): the subscription is.
PublishOne(c) ==
  LET req == Req(c)
      sub == subs[req.i]
      next == [req EXCEPT !.i = @ + 1]
  IN  /\ Is(c, "locked") /\ req.op = "publish" /\ req.i <= Len(subs)
      /\ \/ /\ req.arg \notin sub.filter
            /\ Moves(c, "locked", next)
            /\ UNCHANGED <<subs, chan>>
         \/ /\ req.arg \in sub.filter /\ writer[sub.token] = Ended
            /\ subs' = RemoveAt(subs, req.i)
            /\ UNCHANGED <<reader, chan>>
         \/ /\ req.arg \in sub.filter /\ writer[sub.token] # Ended
            /\ chan' = IF HasRoom(sub.token)
                       THEN [chan EXCEPT ![sub.token] = Append(@, req.arg)] ELSE chan
            /\ Moves(c, "locked", next)
            /\ UNCHANGED subs
      /\ UNCHANGED <<lock, writer, sock, peer, got, sent>>

PublishDone(c) ==
  /\ Is(c, "locked") /\ Req(c).op = "publish" /\ Req(c).i > Len(subs)
  /\ lock' = Free
  /\ Moves(c, "read", NoRequest)
  /\ UNCHANGED <<subs, writer, chan, sock, peer, got, sent>>

\* tx.send of a reply: blocks while the channel is full, fails at once (and
\* is ignored) when the writer has ended.
SendReply(c) ==
  /\ Is(c, "send")
  /\ HasRoom(c) \/ writer[c] = Ended
  /\ chan' = IF writer[c] = Ended THEN chan ELSE [chan EXCEPT ![c] = Append(@, Reply)]
  /\ IF Req(c).op = "publish" THEN Moves(c, "lock", Req(c)) ELSE Moves(c, "read", NoRequest)
  /\ UNCHANGED <<lock, subs, writer, sock, peer, got, sent>>

----------------------------------------------------------------------------
(* The writer thread.                                                      *)

Take(c) ==
  /\ writer[c] = Recv /\ chan[c] # <<>>
  /\ writer' = [writer EXCEPT ![c] = Head(chan[c])]
  /\ chan' = [chan EXCEPT ![c] = Tail(@)]
  /\ UNCHANGED <<lock, subs, reader, sock, peer, got, sent>>

\* write_all: waits for room in the socket, fails when the peer is gone.  The
\* receiver is dropped with the thread, and with it what the channel holds.
Write(c) ==
  /\ writer[c] \notin {Recv, Ended}
  /\ \/ /\ peer[c] /\ Len(sock[c]) < SOCK_CAP
        /\ sock' = [sock EXCEPT ![c] = Append(@, writer[c])]
        /\ writer' = [writer EXCEPT ![c] = Recv]
        /\ UNCHANGED chan
     \/ /\ ~peer[c]
        /\ writer' = [writer EXCEPT ![c] = Ended]
        /\ chan' = [chan EXCEPT ![c] = <<>>]
        /\ UNCHANGED sock
  /\ UNCHANGED <<lock, subs, reader, peer, got, sent>>

\* Every sender is gone: the reader's own, and the clones in subs.
Senders(c) == ~Is(c, Ended) \/ \E i \in DOMAIN subs : subs[i].token = c
Finish(c) ==
  /\ writer[c] = Recv /\ chan[c] = <<>> /\ ~Senders(c)
  /\ writer' = [writer EXCEPT ![c] = Ended]
  /\ UNCHANGED <<lock, subs, reader, chan, sock, peer, got, sent>>

----------------------------------------------------------------------------
(* The peer (external).                                                    *)

PeerRead(c) ==
  /\ peer[c] /\ sock[c] # <<>>
  /\ sock' = [sock EXCEPT ![c] = Tail(@)]
  /\ got' = IF Head(sock[c]) = Reply THEN got ELSE [got EXCEPT ![c] = Append(@, Head(sock[c]))]
  /\ UNCHANGED <<lock, subs, reader, writer, chan, peer, sent>>

PeerClose(c) ==
  /\ peer[c]
  /\ peer' = [peer EXCEPT ![c] = FALSE]
  /\ sock' = [sock EXCEPT ![c] = <<>>]
  /\ UNCHANGED <<lock, subs, reader, writer, chan, got, sent>>

----------------------------------------------------------------------------
Reading(c) ==
  \/ \E f \in Filter : ReadSubscribe(c, f) \/ ReadUnsubscribe(c, f)
  \/ \E m \in Msg, qos \in PUB_QOS : ReadPublish(c, m, qos)
  \/ ReadPing(c)

ReaderRuns(c) == Locked(c) \/ PublishOne(c) \/ PublishDone(c) \/ SendReply(c)
WriterRuns(c) == Take(c) \/ Write(c) \/ Finish(c)

Next ==
  \E c \in Conn :
    \/ Reading(c) \/ EndLoop(c) \/ Lock(c) \/ ReaderRuns(c)
    \/ WriterRuns(c) \/ PeerRead(c) \/ PeerClose(c)

\* Threads that can run do, a contended mutex is not withheld forever from a
\* thread that keeps asking, and a read from a closed connection returns.
Fairness ==
  \A c \in Conn :
    /\ WF_vars(ReaderRuns(c)) /\ SF_vars(Lock(c)) /\ WF_vars(WriterRuns(c))
    /\ WF_vars(EndLoop(c) /\ ~peer[c])

Spec == Init /\ [][Next]_vars /\ Fairness

\* Peers that asked for a keepalive and send nothing: their reads time out.
SilentSpec == Spec /\ \A c \in Conn : WF_vars(EndLoop(c))

----------------------------------------------------------------------------
(* Properties.                                                             *)

Op == {"none", "connect", "subscribe", "unsubscribe", "publish", "cleanup"}
TypeOK ==
  /\ lock \in Conn \cup {Free}
  /\ subs \in Seq([filter : Filter, token : Conn])
  /\ \A c \in Conn :
       /\ reader[c].pc \in {"read", "send", "lock", "locked", Ended}
       /\ Is(c, "locked") <=> lock = c
       /\ Req(c).op \in Op /\ Req(c).i \in 1 .. MAX_SUBS + 1
       /\ writer[c] \in Msg \cup {Reply, Recv, Ended}
       /\ chan[c] \in Seq(Msg \cup {Reply}) /\ Len(chan[c]) <= SUB_QUEUE_CAP
       /\ sock[c] \in Seq(Msg \cup {Reply}) /\ Len(sock[c]) <= SOCK_CAP
       /\ peer[c] \in BOOLEAN
       /\ got[c] \in Seq(Msg)
  /\ sent \in SUBSET Msg

\* Publishers run concurrently, but all subscribers see their messages in one
\* order: each fan-out is complete before the next begins, and neither full
\* channels nor connections that end in between turn two messages round.
Stream(c) == got[c] \o sock[c] \o <<writer[c]>> \o chan[c]
Before(s, m, n) == \E i, j \in DOMAIN s : i < j /\ s[i] = m /\ s[j] = n
SameOrder ==
  \A c, d \in Conn, m, n \in Msg :
    m # n /\ Before(Stream(c), m, n) => ~Before(Stream(d), n, m)

\* "One slow client can never stall the publisher": a publisher is done with
\* its message and reads its socket again, whether or not anyone else reads
\* theirs.
PublisherNotStalled ==
  \A c \in Conn : Is(c, "lock") /\ Req(c).op = "publish" ~> Is(c, "read")

\* Both threads of a closed connection end, wherever they were blocked: the
\* reader on a full channel is released by its writer, the writer on an empty
\* one by the last sender, which may be a subscription.
NoThreadLeak ==
  \A c \in Conn : ~peer[c] ~> Is(c, Ended) /\ writer[c] = Ended

----------------------------------------------------------------------------
(* A claim of a comment that the code does not meet.                       *)

\* "client must send something within keepalive secs.  Enforce it with a read
\* timeout (1.5x grace) so zombie connections can't pin memory forever": a
\* peer that stops sending and reading loses its connection.
ZombieReclaimed ==
  \A c \in Conn :
    <>[][~Reading(c) /\ ~PeerRead(c)]_vars => <>(Is(c, Ended) /\ writer[c] = Ended)
=============================================================================
