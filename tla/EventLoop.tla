------------------------------ MODULE EventLoop ------------------------------
(***************************************************************************)
(* The main loop of the event-loop broker (mio_broker/src/main.rs) over    *)
(* all of its connections: the batch of readiness events of one poll, the  *)
(* buffer of packets one read returns, the lists a turn takes before it    *)
(* flushes and sweeps and works off afterwards.  The handlers are those of *)
(* Broker, which lets them happen one by one in any order; here they run   *)
(* where the loop calls them, on tokens that may have lost their client    *)
(* since the event, the list or the buffer named them.                     *)
(*                                                                         *)
(* The poll is edge-triggered and one event leads to one read, so an event *)
(* may be missing for a socket that has input.  Peers send and close       *)
(* before a poll or before the sweep comes to their socket: the loop cannot*)
(* tell what they do elsewhere in a turn from that.  A panic ends the      *)
(* process.                                                                *)
(***************************************************************************)
EXTENDS Broker

CONSTANTS
  StateFile, \* the state file with which the process starts
  CidOf,     \* CidOf[t]: the client id the peer of connection t gives
  Slow,      \* connections that may stop reading and run into timeouts
  CHUNK,     \* packets one read returns at most
  MAX_SENT   \* MAX_SENT[t], bound: packets of its peer

ASSUME LoopAssumption ==
  /\ CidOf \in [Token -> Cid] /\ Slow \subseteq Token
  /\ PUB_QOS \subseteq 1..2
  /\ CHUNK \in Nat \ {0} /\ MAX_SENT \in [Token -> Nat]
  \* The file was written by this program.
  /\ StateFile \in StateType
  /\ \A c \in Cid : StateFile.sessions[c].stored =>
                    Len(StateFile.sessions[c].offline) <= OFFLINE_CAP

VARIABLES
  peer,      \* peer[t]: open or closed
  sent,      \* sent[t]: packets sent so far
  inbox,     \* inbox[t]: sent and not yet read
  blocked,   \* tokens whose interest includes WRITABLE
  pc,        \* the part of the loop that runs next
  batch,     \* events not yet handled
  todo,      \* tokens the current flush or sweep still has to visit
  cur, buf,  \* token being read, and the packets of its buffer not yet handled
  dead, retry, give_up, \* locals of the loop
  removed    \* history: tokens remove_client was called for

peers == <<peer, sent, inbox>>
lists == <<dead, retry, give_up>>
loopVars == <<blocked, pc, batch, todo, cur, buf, lists, removed>>
allVars == <<vars, peers, loopVars>>

LISTENER == 0
Event(t, kind) == [token |-> t, kind |-> kind]
Live == {t \in Token : Connected(broker, t)}
Queue(t) == broker.clients[t].write_queue
WithQueue == {t \in Live : Queue(t) # <<>>}

LoopInit ==
  /\ broker = Boot(StateFile) /\ disk = StateFile /\ crashes = 0 /\ order = <<>>
  /\ peer = [t \in Token |-> "open"]
  /\ sent = [t \in Token |-> 0]
  /\ inbox = [t \in Token |-> <<>>]
  /\ blocked = {} /\ pc = "poll" /\ batch = {} /\ todo = {} /\ cur = LISTENER /\ buf = <<>>
  /\ dead = {} /\ retry = {} /\ give_up = {} /\ removed = {}

----------------------------------------------------------------------------
(* The peers (external).                                                   *)

\* Wills and $SYS messages are told apart from what clients publish.
Plain == Msg \ (ToSet(SYS) \cup {WillOf[c] : c \in Cid})

Packets(t) ==
  IF sent[t] = 0
  THEN {[type |-> "CONNECT", clean |-> clean] : clean \in CleanOf[CidOf[t]]}
  ELSE {[type |-> "DISCONNECT"], [type |-> "JUNK"]}
       \cup {[type |-> "PUBACK", pkt |-> pkt] : pkt \in
              {p \in broker.clients[t].in_flight : \A e \in ToSet(Queue(t)) : e.pkt # p}}
       \cup {[type |-> "PUBLISH", msg |-> m, qos |-> qos] :
              m \in IF CidOf[t] \in Publishers THEN Plain ELSE {}, qos \in PUB_QOS}

\* Bound: a message is published once.
Fresh(pkt) ==
  pkt.type = "PUBLISH" =>
    ~Contains(order, pkt.msg)
    /\ \A t \in Token : \A p \in ToSet(inbox[t]) : p.type = "PUBLISH" => p.msg # pkt.msg

\* Before a poll, or before the sweep has come to this socket.
MayAct(t) ==
  /\ Running /\ buf = <<>> /\ t \in Live /\ peer[t] = "open"
  /\ pc \in {"poll", "sweep"} /\ (pc = "sweep" => t \in todo)

Send(t, pkt) ==
  /\ MayAct(t) /\ sent[t] < MAX_SENT[t]
  /\ Fresh(pkt)
  /\ sent' = [sent EXCEPT ![t] = @ + 1]
  /\ inbox' = [inbox EXCEPT ![t] = Append(@, pkt)]
  /\ UNCHANGED <<vars, peer, loopVars>>

Close(t) ==
  /\ MayAct(t)
  /\ peer' = [peer EXCEPT ![t] = "closed"]
  /\ UNCHANGED <<vars, sent, inbox, loopVars>>

----------------------------------------------------------------------------
(* drain_client and handle_packets.                                        *)

\* remove_client, also for a token that has no client any more.
CloseClient(t) == Closes(broker, t) /\ removed' = removed \cup {t} /\ UNCHANGED order

\* Slip: the end of the stream is taken for WouldBlock.
DrainClientPastEnd(t) ==
  LET n == IF Len(inbox[t]) <= CHUNK THEN Len(inbox[t]) ELSE CHUNK
  IN  /\ cur' = (IF n > 0 THEN t ELSE cur) /\ buf' = SubSeq(inbox[t], 1, n)
      /\ inbox' = [inbox EXCEPT ![t] = SubSeq(@, n + 1, Len(@))]
      /\ UNCHANGED <<vars, removed>>

\* One read: a chunk of what is there, the end of the stream, or WouldBlock.
DrainClient(t) ==
  LET n == IF Len(inbox[t]) <= CHUNK THEN Len(inbox[t]) ELSE CHUNK
  IN  IF inbox[t] # <<>>
      THEN /\ cur' = t /\ buf' = SubSeq(inbox[t], 1, n)
           /\ inbox' = [inbox EXCEPT ![t] = SubSeq(@, n + 1, Len(@))]
           /\ UNCHANGED <<vars, removed>>
      ELSE /\ UNCHANGED <<cur, buf, inbox>>
           /\ IF peer[t] = "closed" THEN CloseClient(t) ELSE UNCHANGED <<vars, removed>>

\* The handlers of Broker.  A PUBLISH may drop its own sender; the packets
\* behind it are handled all the same and look the sender up with unwrap (all
\* but a QoS0 PUBLISH, which LoopAssumption leaves out).
Handler(pkt) ==
  \/ ~Connected(broker, cur) /\ Dies /\ UNCHANGED order
  \/ pkt.type = "CONNECT" /\ Connect(cur, CidOf[cur], pkt.clean)
  \/ pkt.type = "PUBLISH" /\ PublishPacket(cur, pkt.msg, pkt.qos, FALSE)
  \/ /\ pkt.type = "PUBACK" /\ Connected(broker, cur)
     /\ Becomes([broker EXCEPT !.clients[cur].in_flight = @ \ {pkt.pkt}]) /\ UNCHANGED order
  \/ pkt.type = "DISCONNECT" /\ DisconnectPacket(cur)
  \/ pkt.type = "JUNK" /\ Lose(cur)

\* Slip: errors close the connection but do not end the loop over the packets.
NeverFails(pkt) == FALSE

\* handle_packets returns Err: the rest of the buffer is dropped with the
\* client.
Fails(pkt) ==
  \/ pkt.type \in {"DISCONNECT", "JUNK"}
  \/ pkt.type = "CONNECT" /\ Running' /\ ~Connected(broker', cur)

HandlePacket ==
  /\ Running /\ buf # <<>>
  /\ Handler(Head(buf))
  /\ buf' = IF Fails(Head(buf)) \/ ~Running' THEN <<>> ELSE Tail(buf)
  /\ cur' = IF buf' = <<>> THEN LISTENER ELSE cur
  /\ removed' = IF Head(buf).type # "PUBLISH" /\ Running' /\ ~Connected(broker', cur)
                THEN removed \cup {cur} ELSE removed
  /\ UNCHANGED <<peers, blocked, pc, batch, todo, lists>>

----------------------------------------------------------------------------
(* poll and the events.                                                    *)

At(phase) == Running /\ pc = phase /\ buf = <<>>

Ready ==
  {Event(t, "read") : t \in {t \in Live : inbox[t] # <<>> \/ peer[t] = "closed"}}
  \cup {Event(t, "write") : t \in blocked \cap Live}
  \cup {Event(LISTENER, "accept") : t \in {t \in Token : t = broker.next_token}}

Poll ==
  /\ At("poll") /\ pc' = "events"
  /\ batch' \in SUBSET Ready
  /\ UNCHANGED <<vars, peers, blocked, todo, cur, buf, lists, removed>>

\* All connections that wait are accepted.
AcceptEvent ==
  /\ At("events") /\ Event(LISTENER, "accept") \in batch
  /\ batch' = batch \ {Event(LISTENER, "accept")}
  /\ \E last \in broker.next_token .. MAX_TOKEN :
       Becomes([broker EXCEPT
         !.clients = [t \in Token |-> IF t \in broker.next_token .. last THEN NewClient ELSE @[t]],
         !.next_token = last + 1])
  /\ UNCHANGED <<order, peers, blocked, pc, todo, cur, buf, lists, removed>>

\* The token is looked up with unwrap, although an event before this one may
\* have taken its client away.
ReadEvent(t) ==
  /\ At("events") /\ Event(t, "read") \in batch
  /\ batch' = batch \ {Event(t, "read")}
  /\ IF t \in Live THEN DrainClient(t)
     ELSE Dies /\ UNCHANGED <<order, inbox, cur, buf, removed>>
  /\ UNCHANGED <<peer, sent, blocked, pc, todo, lists>>

\* flush_writes: everything gets out, or the socket is full, or it is dead.
FlushWrites(t) ==
  \/ /\ Becomes([broker EXCEPT !.clients[t].write_queue = <<>>])
     /\ blocked' = blocked \ {t} /\ UNCHANGED <<order, removed>>
  \/ /\ t \in Slow /\ blocked' = blocked \cup {t} /\ UNCHANGED <<vars, removed>>
  \/ /\ peer[t] = "closed" /\ CloseClient(t) /\ UNCHANGED blocked

\* Readable comes before writable in one event.
WriteEvent(t) ==
  /\ At("events") /\ Event(t, "write") \in batch /\ Event(t, "read") \notin batch
  /\ batch' = batch \ {Event(t, "write")}
  /\ IF t \in WithQueue THEN FlushWrites(t)
     ELSE blocked' = blocked \ {t} /\ UNCHANGED <<vars, removed>>
  /\ UNCHANGED <<peers, pc, todo, cur, buf, lists>>

----------------------------------------------------------------------------
(* The rest of a turn.                                                     *)

\* One pass over the clients: what has to be flushed, whose keepalive has
\* expired, and which messages have waited too long for an answer, to be sent
\* again or, after the last attempt, to be given up (counted in Outbound).
Unanswered == UNION {{[token |-> t, pkt |-> pkt] : pkt \in broker.clients[t].in_flight} :
                     t \in Slow \cap Live}

Scan ==
  /\ At("events") /\ batch = {} /\ pc' = "flush"
  /\ todo' = WithQueue
  /\ dead' \in SUBSET {t \in Slow \cap Live : broker.clients[t].cid # NoCid}
  /\ \E late \in SUBSET Unanswered : \E spent \in SUBSET late :
       retry' = late \ spent /\ give_up' = {e.token : e \in spent}
  /\ UNCHANGED <<vars, peers, blocked, batch, cur, buf, removed>>

\* Both flushes and the sweep skip the clients that are gone by then.
FlushNext(t) ==
  /\ At("flush") \/ At("flush2")
  /\ t \in todo /\ todo' = todo \ {t}
  /\ IF t \in Live THEN FlushWrites(t) ELSE UNCHANGED <<vars, blocked, removed>>
  /\ UNCHANGED <<peers, pc, batch, cur, buf, lists>>

\* Slip: the sweep is skipped, events are trusted.
NoSweep ==
  /\ At("flush") /\ todo = {} /\ pc' = "sweep" /\ todo' = {}
  /\ UNCHANGED <<vars, peers, blocked, batch, cur, buf, lists, removed>>

StartSweep ==
  /\ At("flush") /\ todo = {} /\ pc' = "sweep" /\ todo' = Live
  /\ UNCHANGED <<vars, peers, blocked, batch, cur, buf, lists, removed>>

SweepNext(t) ==
  /\ At("sweep") /\ t \in todo /\ todo' = todo \ {t}
  /\ IF t \in Live THEN DrainClient(t) ELSE UNCHANGED <<vars, inbox, cur, buf, removed>>
  /\ UNCHANGED <<peer, sent, blocked, pc, batch, lists>>

StartFlush2 ==
  /\ At("sweep") /\ todo = {} /\ pc' = "flush2" /\ todo' = WithQueue
  /\ UNCHANGED <<vars, peers, blocked, batch, cur, buf, lists, removed>>

\* The $SYS messages are published when ten seconds have passed.
SysTopics ==
  /\ At("flush2") /\ todo = {} /\ pc' = "tail"
  /\ PublishSys \/ UNCHANGED vars
  /\ UNCHANGED <<peers, blocked, batch, todo, cur, buf, lists, removed>>

\* remove_client for every token of the list, whether or not it has a client.
RemoveDead(t) ==
  /\ At("tail") /\ t \in dead /\ dead' = dead \ {t}
  /\ CloseClient(t)
  /\ UNCHANGED <<peers, blocked, pc, batch, todo, cur, buf, retry, give_up>>

Retransmit(e) ==
  /\ At("tail") /\ dead = {} /\ e \in retry /\ retry' = retry \ {e}
  /\ IF e.token \notin Live THEN UNCHANGED <<vars, removed>>
     ELSE IF Accepts1(Queue(e.token))
     THEN /\ Becomes([broker EXCEPT !.clients[e.token].write_queue = Queue1(@, e.pkt)])
          /\ UNCHANGED <<order, removed>>
     ELSE CloseClient(e.token)
  /\ UNCHANGED <<peers, blocked, pc, batch, todo, cur, buf, dead, give_up>>

GiveUp(t) ==
  /\ At("tail") /\ dead = {} /\ retry = {} /\ t \in give_up /\ give_up' = give_up \ {t}
  /\ IF t \in Live THEN CloseClient(t) ELSE UNCHANGED <<vars, removed>>
  /\ UNCHANGED <<peers, blocked, pc, batch, todo, cur, buf, dead, retry>>

\* The throttled save ends the turn.
EndTurn ==
  /\ At("tail") /\ dead = {} /\ retry = {} /\ give_up = {} /\ pc' = "poll"
  /\ Save \/ UNCHANGED vars
  /\ UNCHANGED <<peers, blocked, batch, todo, cur, buf, lists, removed>>

----------------------------------------------------------------------------
Turn ==
  \/ Poll \/ AcceptEvent \/ HandlePacket \/ Scan \/ StartSweep \/ StartFlush2
  \/ SysTopics \/ EndTurn
  \/ \E t \in Token : \/ ReadEvent(t) \/ WriteEvent(t) \/ FlushNext(t)
                      \/ SweepNext(t) \/ RemoveDead(t) \/ GiveUp(t)
  \/ \E e \in retry : Retransmit(e)

LoopNext == \/ Turn
            \/ Running /\ \E t \in Live : Close(t) \/ \E pkt \in Packets(t) : Send(t, pkt)

\* The poll has a timeout and every part of a turn is finite, so as long as the
\* process lives, turns begin and end.
LoopTurns == []<>~Running \/ ([]<>(pc = "poll") /\ []<>(pc = "tail"))

LoopSpec == LoopInit /\ [][LoopNext]_allVars /\ LoopTurns

----------------------------------------------------------------------------
(* Properties.                                                             *)

LoopTypeOK ==
  /\ TypeOK
  /\ Running =>
       /\ batch \subseteq {Event(LISTENER, "accept")} \cup
                 [token : Token, kind : {"read", "write"}]
       /\ todo \subseteq Token /\ dead \subseteq Token /\ give_up \subseteq Token
       /\ buf # <<>> => cur \in Token

\* The process dies of nothing but two known causes, unless it is killed while
\* it saves: deliver_to took a client away, and with it what remove_client's
\* callers know of (`continue`, Err), or a reliable message of a length that
\* remove_client cannot decode is queued or stored for some client, or is a will.
\* Clients that leave through remove_client, at whatever point of a turn, do no
\* harm to events, buffers and lists that still name them.
Ousted == {t \in Token : t < broker.next_token} \ (Live \cup removed)
LongHeld ==
  \/ \E c \in Cid : WillOf[c] \in Long
  \/ \E t \in Live : \E held \in ToSet(Unsent(broker, t)) : held.msg \in Long
  \/ \E c \in Cid : /\ broker.sessions[c].stored
                   /\ \E held \in ToSet(broker.sessions[c].offline) : held.msg \in Long
Excused == Ousted # {} \/ LongHeld \/ crashes' # crashes
DiesOnlyOfKnownCauses == [][broker' = Stopped => Excused]_allVars

\* Every departure says the will exactly once: a client that remove_client
\* takes away without DISCONNECT has its will forwarded, in that step, to every
\* other subscriber with room for it; no other step forwards it, however many
\* events and lists still name the token.
Speaks(t) ==
  /\ t \in Live /\ ~Connected(broker', t) /\ t \in removed'
  /\ ~(buf # <<>> /\ cur = t /\ Head(buf).type = "DISCONNECT")
WillOnce ==
  [][Running /\ Running' => \A t, u \in Token :
       LET lwt == WillOf[CidOf[t]]
           more == CopiesOf(broker', u, lwt) - CopiesOf(broker, u, lwt)
       IN  t # u /\ u \in Live /\ Connected(broker', u) /\ lwt # NoMsg
           /\ t \in Live /\ broker.clients[t].will # NoMsg
           => IF Speaks(t) THEN RoomFor(u, Addressed(u, lwt)) => more = Addressed(u, lwt)
              ELSE more <= 0 \/ cur = u \/ pc = "tail"]_allVars

\* The sweep makes up for missed events: input of a connection is read, and a
\* connection closed by its peer is removed, whatever the other connections
\* do, unless the process dies.
Served ==
  \A t \in Token : (Running /\ t \in Live /\ inbox[t] # <<>>)
                     ~> (~Running \/ t \notin Live \/ inbox[t] = <<>>)
ClosedReclaimed ==
  \A t \in Token : (Running /\ t \in Live /\ peer[t] = "closed") ~> (~Running \/ t \notin Live)

\* README.md:79, "perfect isolation: one slow client can never stall the
\* publisher": a client without room costs nobody but itself the connection.
SurvivesSlowClient == Running
=============================================================================
