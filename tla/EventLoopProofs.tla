-------------------------- MODULE EventLoopProofs --------------------------
(***************************************************************************)
(* EventLoop, for every value of the constants: the types of its state,    *)
(* and why the process dies of nothing but the causes that are known.      *)
(*                                                                         *)
(* A handler that the loop calls keeps the broker in good order, in the    *)
(* sense of BrokerProofs; seen from the loop it moreover connects nobody.  *)
(* The invariant of the locals is that a token they name has been handed   *)
(* out, and that one which waits to be read has not been removed, so when  *)
(* the unwrap of its client fails, it was deliver_to that took it away.    *)
(***************************************************************************)
EXTENDS EventLoop, BrokerProofs

----------------------------------------------------------------------------
(* The inductive invariant.                                                *)

\* The tokens handed out so far.
Known == {t \in Token : t < broker.next_token}

AnyPacket ==
  [type : {"CONNECT"}, clean : BOOLEAN] \cup [type : {"DISCONNECT", "JUNK"}]
  \cup [type : {"PUBACK"}, pkt : PacketOf(Msg)]
  \cup [type : {"PUBLISH"}, msg : Msg, qos : PUB_QOS]

\* remove_client is called for tokens that are, or were, those of clients, and
\* leaves no client behind.
RemovedOK == Live \subseteq Known /\ removed \subseteq Known \ Live

\* What a batch says is readable has not been removed, except by deliver_to, and
\* the same holds for the token whose packets are being handled.
BatchOK ==
  /\ pc # "events" => batch = {}
  /\ batch \subseteq {Event(LISTENER, "accept")} \cup [token : Known, kind : {"read", "write"}]
  /\ \A t \in Token : Event(t, "read") \in batch => t \notin removed /\ (buf # <<>> => t # cur)
BufOK ==
  /\ inbox \in [Token -> Seq(AnyPacket)] /\ buf \in Seq(AnyPacket)
  /\ buf # <<>> => cur \in Known \ removed

\* The lists a turn works off name tokens that have been handed out.
ListsOK ==
  /\ todo \subseteq Known /\ dead \subseteq Known /\ give_up \subseteq Known
  /\ \A e \in retry : e.token \in Known /\ e.pkt \in PacketOf(Msg)

Locals == RemovedOK /\ BatchOK /\ BufOK /\ ListsOK
LInv == IInv /\ (Running => Locals)
----------------------------------------------------------------------------
(* What the loop's handlers start from.                                    *)

\* The reliable messages that are about: without the ones that remove_client
\* cannot decode, unless such a one is queued, stored or a will.
Around == IF LongHeld THEN Msg ELSE Msg \ Long

\* The context of a handler that connects nobody.
Here(msgs, leaving) ==
  [msgs |-> msgs, file |-> disk, kept |-> Nothing, leaving |-> leaving,
   live |-> Live, next |-> {broker.next_token}]

\* Here, field by field.
LEMMA HereFields ==
  \A msgs, leaving :
    /\ Here(msgs, leaving).msgs = msgs /\ Here(msgs, leaving).file = disk
    /\ Here(msgs, leaving).kept = Nothing /\ Here(msgs, leaving).leaving = leaving
    /\ Here(msgs, leaving).live = Live /\ Here(msgs, leaving).next = {broker.next_token}
BY DEF Here

\* A sequence of elements that all are of another type is of that type.
LEMMA RetypedSeq ==
  ASSUME NEW A, NEW s \in Seq(A), NEW C, \A i \in 1 .. Len(s) : s[i] \in C
  PROVE  s \in Seq(C)
<1>1. s = [i \in DOMAIN s |-> s[i]]
  BY LenProperties
<1>2. QED
  BY <1>1, MappedSeq

\* A client in good order is so too when more messages may be queued.
LEMMA MoreForClient ==
  ASSUME NEW M, NEW N, M \subseteq N
  PROVE  GoodClient(M) \subseteq GoodClient(N)
<1>1. EntryOf(M) \subseteq EntryOf(N)
  BY DEF EntryOf, PacketOf
<1>2. Seq(EntryOf(M)) \subseteq Seq(EntryOf(N))
  <2> SUFFICES ASSUME NEW q \in Seq(EntryOf(M)) PROVE q \in Seq(EntryOf(N))
    OBVIOUS
  <2>1. \A i \in 1 .. Len(q) : q[i] \in EntryOf(N)
    BY <1>1, ElementOfSeq
  <2>2. QED
    BY <2>1, RetypedSeq
<1>3. {m \in M : \E c \in Cid : m = WillOf[c]} \subseteq {m \in N : \E c \in Cid : m = WillOf[c]}
  OBVIOUS
<1>4. ConnectedOf(M) \subseteq ConnectedOf(N)
  BY <1>2, <1>3 DEF ConnectedOf
<1>5. QED
  BY <1>4 DEF GoodClient

\* So is a session.
LEMMA MoreForSession ==
  ASSUME NEW M, NEW N, M \subseteq N
  PROVE  GoodSession(M) \subseteq GoodSession(N)
<1> DEFINE H(K) == [msg : K, qos : 0..2]
<1>1. Seq(H(M)) \subseteq Seq(H(N))
  <2> SUFFICES ASSUME NEW q \in Seq(H(M)) PROVE q \in Seq(H(N))
    OBVIOUS
  <2>1. H(M) \subseteq H(N)
    OBVIOUS
  <2> HIDE DEF H
  <2>2. \A i \in 1 .. Len(q) : q[i] \in H(N)
    BY <2>1, ElementOfSeq
  <2>3. QED
    BY <2>2, RetypedSeq
<1>2. StoredOf(M) \subseteq StoredOf(N)
  BY <1>1 DEF StoredOf
<1>3. QED
  BY <1>2 DEF GoodSession

\* What is in good order for the loop is so for every step of the broker.
LEMMA HereStands ==
  ASSUME NEW msgs, msgs \subseteq Msg, NEW leaving, NEW more, leaving \subseteq more,
         broker.next_token \in 1 .. MAX_TOKEN + 1
  PROVE  /\ Keeps(Here(msgs, leaving)) \subseteq Keeps(Here(Msg, more))
         /\ Keeps(Here(msgs, leaving)) \subseteq Keeps(Here(msgs, more))
         /\ Keeps(Here(msgs, leaving)) \subseteq Keeps(Context(disk, Nothing, more))
<1> SUFFICES ASSUME NEW b \in Keeps(Here(msgs, leaving))
             PROVE  /\ b \in Keeps(Here(Msg, more)) /\ b \in Keeps(Here(msgs, more))
                    /\ b \in Keeps(Context(disk, Nothing, more))
  OBVIOUS
<1>1. b \in GoodBroker(msgs)
  BY HereFields DEF Keeps
<1>2. b \in GoodBroker(Msg)
  BY <1>1, MoreForClient, MoreForSession DEF GoodBroker
<1>3. /\ b.dirty \/ Snapshot(b) = disk
      /\ \A u \in Token : Connected(b, u) =>
           u \in Live /\ u < b.next_token /\ (b.clients[u].clean_disconnect => u \in leaving)
      /\ b.next_token = broker.next_token
  BY HereFields DEF Keeps
<1>4. b \in Keeps(Here(Msg, more)) /\ b \in Keeps(Here(msgs, more))
  BY <1>1, <1>2, <1>3, HereFields, NothingStays DEF Keeps
<1>5. b \in Keeps(Context(disk, Nothing, more))
  <2> DEFINE x == Context(disk, Nothing, more)
  <2>1. /\ x.msgs = Msg /\ x.file = disk /\ x.kept = Nothing /\ x.leaving = more
        /\ x.live = Token /\ x.next = 1 .. MAX_TOKEN + 1
    BY ContextFields
  <2> HIDE DEF x
  <2>2. \A u \in Token : Connected(b, u) =>
          u \in x.live /\ u < b.next_token /\ (b.clients[u].clean_disconnect => u \in x.leaving)
    BY <1>3, <2>1
  <2>3. QED
    BY <1>2, <1>3, <2>1, <2>2, NothingStays DEF Keeps, x
<1>6. QED
  BY <1>4, <1>5

\* Every reliable packet of a queue is among those remove_client persists.
LEMMA QueuedIsUnsent ==
  ASSUME NEW x, NEW b \in Keeps(x), NEW t \in Token, Connected(b, t),
         NEW i \in 1 .. Len(b.clients[t].write_queue), b.clients[t].write_queue[i].rel
  PROVE  \E held \in ToSet(Unsent(b, t)) : held.msg = b.clients[t].write_queue[i].pkt.msg
<1> DEFINE queue == b.clients[t].write_queue
           R == {e \in ToSet(queue) : e.rel}
           rel == Only(queue, R)
           f == [j \in DOMAIN rel |-> Held(rel[j].pkt.msg, rel[j].pkt.qos)]
<1>1. queue \in Seq(EntryOf(x.msgs))
  <2>1. b.clients[t] \in ConnectedOf(x.msgs)
    BY LiveClient
  <2>2. QED
    BY <2>1 DEF ConnectedOf
<1>2. Unsent(b, t) = f
  BY DEF Unsent
<1>3. queue[i] \in R
  BY <1>1, LenProperties DEF ToSet
<1> HIDE DEF queue, R
<1>4. \E j \in 1 .. Len(rel) : rel[j] = queue[i]
  BY <1>1, <1>3, OnlyMembers DEF queue
<1>5. rel \in Seq(EntryOf(x.msgs) \cap R)
  BY <1>1, OnlyType
<1>6. DOMAIN rel = 1 .. Len(rel)
  BY <1>5, LenProperties
<1> HIDE DEF rel
<1>7. PICK j \in DOMAIN rel : rel[j] = queue[i]
  BY <1>4, <1>6
<1>8. f[j] \in ToSet(f) /\ f[j].msg = queue[i].pkt.msg
  BY <1>7 DEF Held, ToSet
<1>9. QED
  BY <1>2, <1>8 DEF queue

\* The broker is in good order for the loop: whoever is connected is in Live,
\* and what is queued, stored or a will is Around.
LEMMA LoopBroker ==
  ASSUME IInv, Running, NEW leaving
  PROVE  /\ broker \in Keeps(Here(Around, leaving))
         /\ broker.next_token \in 1 .. MAX_TOKEN + 1 /\ Around \subseteq Msg
<1> DEFINE x == Context(disk, Nothing, {})
<1>1. broker \in Keeps(x) /\ broker \in GoodBroker(Msg) /\ x.msgs = Msg
  BY RunningStanding, ContextFields DEF IInv, Keeps
<1> HIDE DEF x
<1>2. broker.dirty \/ Snapshot(broker) = disk
  BY RunningGood
<1>3. \A u \in Token : Connected(broker, u) =>
        u \in Live /\ u < broker.next_token /\ ~broker.clients[u].clean_disconnect
  BY RunningGood DEF Live
<1>4. broker.next_token \in 1 .. MAX_TOKEN + 1 /\ Around \subseteq Msg
  BY <1>1 DEF GoodBroker, Around
<1>5. broker \in GoodBroker(Around)
  <2>1. CASE LongHeld
    BY <1>1, <2>1 DEF Around
  <2>2. CASE ~LongHeld
    <3> DEFINE M == Msg \ Long
    <3>1. ASSUME NEW t \in Token PROVE broker.clients[t] \in GoodClient(M)
      <4> DEFINE client == broker.clients[t]
      <4>1. client \in GoodClient(Msg)
        BY <1>1 DEF GoodBroker
      <4>2. CASE ~client.connected
        <5>1. client = Gone
          BY <4>1, <4>2 DEF GoodClient, ConnectedOf
        <5>2. QED
          BY <5>1, GoneGood
      <4>3. CASE client.connected
        <5>1. /\ client \in ConnectedOf(Msg) /\ Len(client.write_queue) <= WRITE_QUEUE_CAP
              /\ IsFiniteSet(client.in_flight) /\ Cardinality(client.in_flight) <= IN_FLIGHT_CAP
          BY <4>1, <4>3, ConnectedClient
        <5>2. client.write_queue \in Seq(EntryOf(Msg))
          BY <5>1 DEF ConnectedOf
        <5>3. ASSUME NEW i \in 1 .. Len(client.write_queue)
              PROVE  client.write_queue[i] \in EntryOf(M)
          <6> DEFINE e == client.write_queue[i]
          <6>1. e \in EntryOf(Msg)
            BY <5>2, ElementOfSeq
          <6>2. CASE e.rel
            <7>1. Connected(broker, t) /\ t \in Live
              BY <4>3 DEF Connected, Live
            <7>2. \E held \in ToSet(Unsent(broker, t)) : held.msg = e.pkt.msg
              BY <1>1, <6>2, <7>1, QueuedIsUnsent
            <7>3. e.pkt.msg \notin Long
              BY <2>2, <7>1, <7>2 DEF LongHeld
            <7> HIDE DEF e
            <7>4. e \in [rel : {TRUE}, pkt : PacketOf(Msg)]
              BY <6>1, <6>2 DEF EntryOf
            <7>5. e.pkt \in PacketOf(M)
              BY <7>3, <7>4 DEF PacketOf
            <7>6. QED
              BY <7>4, <7>5 DEF EntryOf, e
          <6>3. CASE ~e.rel
            BY <6>1, <6>3 DEF EntryOf
          <6>4. QED
            BY <6>2, <6>3
        <5>4. client.write_queue \in Seq(EntryOf(M))
          BY <5>2, <5>3, RetypedSeq
        <5>5. client.will \in {m \in M : \E c \in Cid : m = WillOf[c]} \cup {NoMsg}
          BY <2>2, <5>1 DEF ConnectedOf, LongHeld
        <5> HIDE DEF client, M
        <5>6. client \in ConnectedOf(M)
          BY <5>1, <5>4, <5>5 DEF ConnectedOf
        <5>7. QED
          BY <5>1, <5>6 DEF GoodClient, client
      <4>4. QED
        BY <4>2, <4>3
    <3>2. ASSUME NEW c \in Cid PROVE broker.sessions[c] \in GoodSession(M)
      <4> DEFINE session == broker.sessions[c]
                 H(K) == [msg : K, qos : 0..2]
      <4>1. session \in GoodSession(Msg)
        BY <1>1 DEF GoodBroker
      <4>2. CASE ~session.stored
        BY <4>1, <4>2 DEF GoodSession, StoredOf
      <4>3. CASE session.stored
        <5>1. session \in StoredOf(Msg) /\ Len(session.offline) <= OFFLINE_CAP
          BY <4>1, <4>3, StoredSession
        <5>2. session.offline \in Seq(H(Msg))
          BY <5>1 DEF StoredOf
        <5>3. ASSUME NEW i \in 1 .. Len(session.offline)
              PROVE  session.offline[i] \in H(M)
          <6>1. session.offline[i] \in ToSet(session.offline)
            BY <5>2, LenProperties DEF ToSet
          <6>2. session.offline[i].msg \notin Long
            BY <2>2, <4>3, <6>1 DEF LongHeld
          <6>3. session.offline[i] \in H(Msg)
            BY <5>2, ElementOfSeq
          <6>4. QED
            BY <6>2, <6>3
        <5> HIDE DEF H, session
        <5>4. session.offline \in Seq(H(M))
          BY <5>2, <5>3, RetypedSeq
        <5>5. session \in StoredOf(M)
          BY <5>1, <5>4 DEF StoredOf, H
        <5>6. QED
          BY <5>1, <5>5 DEF GoodSession, session
      <4>4. QED
        BY <4>2, <4>3
    <3> HIDE DEF M
    <3>3. broker \in GoodBroker(M)
      BY <1>1, <3>1, <3>2 DEF GoodBroker
    <3>4. QED
      BY <2>2, <3>3 DEF Around, M
  <2>3. QED
    BY <2>1, <2>2
<1>6. broker \in Keeps(Here(Around, leaving))
  BY <1>2, <1>3, <1>5, HereFields, NothingStays DEF Keeps
<1>7. QED
  BY <1>4, <1>6

\* The same, of all messages.
LEMMA LoopGood ==
  ASSUME IInv, Running
  PROVE  /\ broker \in Keeps(Here(Msg, {})) /\ order \in Seq(Msg)
         /\ Here(Msg, {}).msgs = Msg /\ Here(Msg, {}).kept.queued = {}
<1>1. broker \in Keeps(Here(Around, {})) /\ broker.next_token \in 1 .. MAX_TOKEN + 1 /\ Around \subseteq Msg
  BY LoopBroker
<1>2. broker \in Keeps(Here(Msg, {}))
  BY <1>1, HereStands
<1>3. Here(Msg, {}).msgs = Msg /\ Here(Msg, {}).kept.queued = {}
  BY HereFields, NothingStays
<1>4. QED
  BY <1>2, <1>3 DEF IInv, Standing

\* remove_client panics over a message that is Around for no client.
LEMMA NotUndecodable ==
  ASSUME NEW x, NEW b \in Keeps(x), NEW t \in Token, x.msgs \subseteq Msg \ Long
  PROVE  ~Undecodable(b, t)
<1> DEFINE said == Farewell(b, t)
<1> SUFFICES ASSUME Persistent(said, t), NEW held \in ToSet(Unsent(said, t)), held.msg \in Long
             PROVE  FALSE
  BY DEF Undecodable
<1>1. said \in Keeps(x)
  BY FarewellKeeps
<1> HIDE DEF said
<1>2. Unsent(said, t) \in Seq([msg : x.msgs, qos : 0..2])
  BY <1>1, UnsentType DEF Persistent
<1>3. PICK i \in DOMAIN Unsent(said, t) : held = Unsent(said, t)[i]
  BY DEF ToSet
<1>4. i \in 1 .. Len(Unsent(said, t))
  BY <1>2, LenProperties
<1>5. held \in [msg : x.msgs, qos : 0..2]
  BY <1>2, <1>3, <1>4, ElementOfSeq
<1>6. QED
  BY <1>5

\* A broker in good order is not a process that has stopped.
LEMMA BrokerRuns ==
  ASSUME NEW M, NEW b \in GoodBroker(M)
  PROVE  b # Stopped
<1>1. "clients" \in DOMAIN b /\ DOMAIN Stopped = {"running"}
  BY DEF GoodBroker, Stopped
<1>2. QED
  BY <1>1

\* save() leaves the connections, or the process is killed while it writes.
LEMMA SavedRuns ==
  ASSUME NEW M, NEW b \in GoodBroker(M), crashes \in Nat, Saved(b)
  PROVE  /\ Running' => broker'.clients = b.clients /\ broker'.next_token = b.next_token
         /\ ~Running' => crashes' # crashes
<1>1. b # Stopped
  BY BrokerRuns
<1>2. CASE broker' = Stopped /\ crashes' = crashes + 1
  BY <1>2 DEF Running
<1>3. CASE broker' = b
  BY <1>1, <1>3 DEF Running
<1>4. CASE broker' = [b EXCEPT !.dirty = FALSE]
  <2>1. /\ broker' \in GoodBroker(M) /\ broker'.clients = b.clients
        /\ broker'.next_token = b.next_token
    BY <1>4 DEF GoodBroker
  <2>2. broker' # Stopped
    BY <2>1, BrokerRuns
  <2>3. QED
    BY <2>1, <2>2 DEF Running
<1>5. QED
  BY <1>2, <1>3, <1>4 DEF Saved

\* A handler that only changes the broker connects nobody.
LEMMA LoopBecomes ==
  ASSUME IInv, Running, NEW b \in Keeps(Here(Msg, {})), Becomes(b), order' \in Seq(Msg)
  PROVE  IInv' /\ Running' /\ Live' \subseteq Live /\ broker'.next_token = broker.next_token
<1>1. b \in GoodBroker(Msg) /\ b.next_token = broker.next_token
      /\ \A u \in Token : Connected(b, u) => u \in Live
  BY HereFields DEF Keeps
<1>2. broker.next_token \in 1 .. MAX_TOKEN + 1
  BY LoopBroker
<1>3. b \in Keeps(Context(disk, Nothing, {}))
  BY <1>2, HereStands
<1>4. IInv'
  BY <1>3, RunningStanding, BecomesStep DEF IInv
<1>5. broker' = b
  BY DEF Becomes
<1>6. QED
  BY <1>1, <1>4, <1>5, BrokerRuns DEF Running, Live

\* Closing a connection takes its client away, and ends the process only over a
\* message that remove_client cannot decode, or in the middle of save().
LEMMA LoopCloses ==
  ASSUME IInv, Running, NEW t \in Token, NEW b \in Keeps(Here(Around, {t})),
         Closes(b, t), order' = order
  PROVE  /\ IInv'
         /\ Running' => Live' \subseteq Live \ {t} /\ broker'.next_token = broker.next_token
         /\ ~Running' => Excused
<1> DEFINE x == Here(Around, {t})
           a == RemoveClient(b, t)
<1>1. broker.next_token \in 1 .. MAX_TOKEN + 1 /\ Around \subseteq Msg
  BY LoopBroker
<1>2. IInv'
  <2>1. b \in Keeps(Context(disk, Nothing, {t}))
    BY <1>1, HereStands
  <2>2. QED
    BY <2>1, RunningStanding, ClosesStep DEF IInv
<1>3. x.msgs = Around /\ x.live = Live /\ x.next = {broker.next_token} /\ b \in Keeps(x)
  BY HereFields
<1> HIDE DEF x
<1>4. CASE Dies
  <2>1. ~Running'
    BY <1>4 DEF Dies, Running
  <2>2. LongHeld
    <3>1. CASE Undecodable(b, t)
      <4>1. ~(x.msgs \subseteq Msg \ Long)
        BY <1>3, <3>1, NotUndecodable
      <4>2. QED
        BY <1>3, <4>1 DEF Around
    <3>2. CASE ~Undecodable(b, t)
      <4>1. Saved(a) /\ crashes' = crashes /\ crashes \in Nat
        BY <1>4, <3>2 DEF Closes, Dies, IInv, Standing
      <4>2. a \in GoodBroker(x.msgs)
        BY <1>1, <1>3, RemoveClientKeeps DEF Keeps
      <4>3. QED
        BY <2>1, <4>1, <4>2, SavedRuns
    <3>3. QED
      BY <3>1, <3>2
  <2>3. QED
    BY <1>2, <2>1, <2>2 DEF Excused
<1>5. CASE Saved(a)
  <2>1. a \in Keeps(x) /\ ~Connected(a, t)
    BY <1>1, <1>3, RemoveClientKeeps
  <2> HIDE DEF a
  <2>2. /\ a \in GoodBroker(x.msgs) /\ a.next_token = broker.next_token
        /\ \A u \in Token : Connected(a, u) => u \in Live
    BY <1>3, <2>1 DEF Keeps
  <2>3. crashes \in Nat
    BY DEF IInv, Standing
  <2>4. /\ Running' => broker'.clients = a.clients /\ broker'.next_token = a.next_token
        /\ ~Running' => crashes' # crashes
    BY <1>5, <2>2, <2>3, SavedRuns
  <2>5. Running' => Live' \subseteq Live \ {t}
    BY <2>1, <2>2, <2>4 DEF Live, Connected
  <2>6. QED
    BY <1>2, <2>2, <2>4, <2>5 DEF Excused
<1>6. QED
  BY <1>4, <1>5 DEF Closes

----------------------------------------------------------------------------
(* What a part of the loop does to the broker.                             *)

\* The broker stays in good order, nobody is connected, and at most the tokens
\* in gone are removed, or else the process dies of a known cause.
Moved(gone) ==
  /\ IInv' /\ removed' \subseteq removed \cup gone
  /\ Running' => RemovedOK' /\ Known' = Known /\ Live' \subseteq Live
  /\ ~Running' => Excused

\* An action has done its part of the proof.
Safely == LInv' /\ (~Running' => Excused)

\* Nothing happens to the broker.
LEMMA UnchangedMoved ==
  ASSUME LInv, Running, UNCHANGED <<vars, removed>>
  PROVE  Moved({})
<1>1. IInv /\ RemovedOK
  BY DEF LInv, Locals
<1>2. IInv' /\ Known' = Known /\ Live' = Live
  BY <1>1 DEF vars, IInv, Standing, Known, Live
<1>3. QED
  BY <1>1, <1>2 DEF Moved, RemovedOK, vars, Running

\* A handler changes the broker.
LEMMA BecomesMoved ==
  ASSUME LInv, Running, NEW b \in Keeps(Here(Msg, {})), Becomes(b), order' \in Seq(Msg),
         removed' = removed
  PROVE  Moved({})
<1>1. IInv /\ RemovedOK
  BY DEF LInv, Locals
<1>2. IInv' /\ Running' /\ Live' \subseteq Live /\ broker'.next_token = broker.next_token
  BY <1>1, LoopBecomes
<1>3. Known' = Known
  BY <1>2 DEF Known
<1>4. QED
  BY <1>1, <1>2, <1>3 DEF Moved, RemovedOK

\* remove_client, for a token that has or had a client.
LEMMA ClosesMoved ==
  ASSUME LInv, Running, NEW t \in Known, NEW b \in Keeps(Here(Around, {t})),
         Closes(b, t), order' = order, removed' \subseteq removed \cup {t}
  PROVE  Moved({t})
<1>1. IInv /\ RemovedOK /\ t \in Token
  BY DEF LInv, Locals, Known
<1>2. /\ IInv' /\ (~Running' => Excused)
      /\ Running' => Live' \subseteq Live \ {t} /\ broker'.next_token = broker.next_token
  BY <1>1, LoopCloses
<1>3. Running' => Known' = Known
  BY <1>2 DEF Known
<1>4. QED
  BY <1>1, <1>2, <1>3 DEF Moved, RemovedOK

\* The same, as the loop calls it.
LEMMA CloseClientMoved ==
  ASSUME LInv, Running, NEW t \in Known, CloseClient(t)
  PROVE  Moved({t})
<1>1. broker \in Keeps(Here(Around, {t}))
  BY LoopBroker DEF LInv
<1>2. QED
  BY <1>1, ClosesMoved DEF CloseClient

\* flush_writes.
LEMMA FlushWritesMoved ==
  ASSUME LInv, Running, NEW t \in Live, FlushWrites(t)
  PROVE  Moved({t})
<1>1. t \in Known /\ t \in Token /\ Connected(broker, t)
  BY DEF LInv, Locals, RemovedOK, Live
<1>2. CASE Becomes([broker EXCEPT !.clients[t].write_queue = <<>>]) /\ UNCHANGED <<order, removed>>
  <2> DEFINE x == Here(Msg, {})
  <2>1. broker \in Keeps(x)
    BY LoopGood DEF LInv
  <2>2. /\ <<>> \in Seq(EntryOf(x.msgs)) /\ Len(<<>>) <= WRITE_QUEUE_CAP
        /\ x.kept.queued = {}
    BY EmptySeq, CapAssumption, HereFields, NothingStays
  <2> HIDE DEF x
  <2>3. [broker EXCEPT !.clients[t].write_queue = <<>>] \in Keeps(x)
    BY <1>1, <2>1, <2>2, QueueKeeps
  <2>4. order' \in Seq(Msg)
    BY <1>2 DEF LInv, IInv, Standing
  <2>5. Moved({})
    BY <1>2, <2>3, <2>4, BecomesMoved DEF x
  <2>6. QED
    BY <2>5 DEF Moved
<1>3. CASE UNCHANGED <<vars, removed>>
  BY <1>3, UnchangedMoved DEF Moved
<1>4. CASE CloseClient(t)
  BY <1>1, <1>4, CloseClientMoved
<1>5. QED
  BY <1>2, <1>3, <1>4 DEF FlushWrites

\* A sequence cut in two.
LEMMA Cut ==
  ASSUME NEW S, NEW s \in Seq(S), NEW n \in 0 .. Len(s)
  PROVE  SubSeq(s, 1, n) \in Seq(S) /\ SubSeq(s, n + 1, Len(s)) \in Seq(S)
<1>1. Len(s) \in Nat /\ n \in Nat /\ n <= Len(s)
  BY LenProperties
<1>2. \A i \in 1 .. n : s[i] \in S
  BY <1>1, ElementOfSeq
<1>3. \A i \in n + 1 .. Len(s) : s[i] \in S
  BY <1>1, ElementOfSeq
<1>4. QED
  BY <1>1, <1>2, <1>3, SubSeqProperties

\* drain_client: what it reads are packets of this connection, and the token is
\* not one that has been removed.
LEMMA DrainClientMoved ==
  ASSUME LInv, Running, buf = <<>>, NEW t \in Live, DrainClient(t)
  PROVE  /\ Moved({t})
         /\ inbox' \in [Token -> Seq(AnyPacket)] /\ buf' \in Seq(AnyPacket)
         /\ buf' # <<>> => cur' = t /\ removed' = removed
<1>1. t \in Known /\ t \in Token /\ t \notin removed
  BY DEF LInv, Locals, RemovedOK, Live
<1>2. inbox \in [Token -> Seq(AnyPacket)] /\ buf \in Seq(AnyPacket)
  BY DEF LInv, Locals, BufOK
<1>3. CASE inbox[t] # <<>>
  <2> DEFINE n == IF Len(inbox[t]) <= CHUNK THEN Len(inbox[t]) ELSE CHUNK
             rest == SubSeq(inbox[t], n + 1, Len(inbox[t]))
  <2>1. n \in 0 .. Len(inbox[t])
    BY <1>1, <1>2, LenProperties, LoopAssumption
  <2>2. /\ cur' = t /\ buf' = SubSeq(inbox[t], 1, n)
        /\ inbox' = [inbox EXCEPT ![t] = rest] /\ UNCHANGED <<vars, removed>>
    BY <1>3 DEF DrainClient
  <2> HIDE DEF n
  <2>3. buf' \in Seq(AnyPacket) /\ rest \in Seq(AnyPacket)
    BY <1>1, <1>2, <2>1, <2>2, Cut
  <2> HIDE DEF rest
  <2>4. Moved({})
    BY <2>2, UnchangedMoved
  <2>5. QED
    BY <1>2, <2>2, <2>3, <2>4 DEF Moved
<1>4. CASE inbox[t] = <<>> /\ peer[t] = "closed"
  <2>1. CloseClient(t) /\ UNCHANGED <<cur, buf, inbox>>
    BY <1>4 DEF DrainClient
  <2>2. QED
    BY <1>1, <1>2, <2>1, CloseClientMoved
<1>5. CASE inbox[t] = <<>> /\ peer[t] # "closed"
  <2>1. UNCHANGED <<vars, removed, cur, buf, inbox>>
    BY <1>5 DEF DrainClient
  <2>2. Moved({})
    BY <2>1, UnchangedMoved
  <2>3. QED
    BY <1>2, <2>1, <2>2 DEF Moved
<1>6. QED
  BY <1>3, <1>4, <1>5

----------------------------------------------------------------------------
(* Every part of the loop.                                                 *)

\* What is left to show of a part, once it is known what it does to the broker.
LEMMA ThenSafely ==
  ASSUME NEW gone, Moved(gone), Running' => BatchOK' /\ BufOK' /\ ListsOK'
  PROVE  Safely
BY DEF Moved, Safely, LInv, Locals

\* While the process runs, the invariant is that of the locals.
LEMMA RunningLocals == LInv /\ Running => IInv /\ RemovedOK /\ BatchOK /\ BufOK /\ ListsOK
BY DEF LInv, Locals

\* A part that changes nothing but lists, to ones of tokens handed out.
LEMMA ListsChange ==
  ASSUME LInv, Running, pc # "events" \/ batch = {}, NEW gone, Moved(gone),
         buf = <<>>, batch' = batch, buf' = buf, inbox' = inbox, pc' # "events",
         Running' => ListsOK'
  PROVE  Safely
<1>1. BatchOK /\ BufOK
  BY RunningLocals
<1>2. BatchOK' /\ BufOK'
  BY <1>1 DEF BatchOK, BufOK
<1>3. QED
  BY <1>2, ThenSafely

\* poll reports connections that are there.
LEMMA PollStep ==
  ASSUME LInv, Poll
  PROVE  Safely
<1>1. Running /\ buf = <<>> /\ RemovedOK /\ BatchOK /\ BufOK /\ ListsOK
  BY RunningLocals DEF Poll, At
<1>2. Moved({})
  BY <1>1, UnchangedMoved DEF Poll
<1>3. Running' => Known' = Known
  BY <1>2 DEF Moved
<1>4. ASSUME NEW e \in Ready
      PROVE  /\ e \in {Event(LISTENER, "accept")} \cup [token : Known, kind : {"read", "write"}]
             /\ \A t \in Token : e = Event(t, "read") => t \notin removed
  BY <1>1 DEF Ready, Event, RemovedOK
<1>5. batch' \subseteq Ready /\ pc' = "events"
  BY DEF Poll
<1>6. Running' => BatchOK'
  <2> SUFFICES ASSUME Running' PROVE BatchOK'
    OBVIOUS
  <2>1. batch' \subseteq {Event(LISTENER, "accept")} \cup [token : Known', kind : {"read", "write"}]
    BY <1>3, <1>4, <1>5
  <2>2. \A t \in Token : Event(t, "read") \in batch' => t \notin removed
    BY <1>4, <1>5
  <2>3. QED
    BY <1>1, <1>5, <2>1, <2>2 DEF BatchOK, Poll
<1>7. Running' => BufOK' /\ ListsOK'
  BY <1>1, <1>3 DEF Poll, peers, lists, BufOK, ListsOK
<1>8. QED
  BY <1>2, <1>6, <1>7, ThenSafely

\* accept hands out tokens nothing in the loop names yet.
LEMMA AcceptEventStep ==
  ASSUME LInv, AcceptEvent
  PROVE  Safely
<1>1. Running /\ IInv /\ buf = <<>> /\ RemovedOK /\ BatchOK /\ BufOK /\ ListsOK
  BY RunningLocals DEF AcceptEvent, At
<1> DEFINE x == Context(disk, Nothing, {})
           first == broker.next_token
<1>2. PICK last \in first .. MAX_TOKEN :
        Becomes([broker EXCEPT
          !.clients = [t \in Token |-> IF t \in first .. last THEN NewClient ELSE @[t]],
          !.next_token = last + 1])
  BY DEF AcceptEvent
<1> DEFINE clients == [t \in Token |-> IF t \in first .. last THEN NewClient ELSE broker.clients[t]]
           b == [broker EXCEPT !.clients = clients, !.next_token = last + 1]
<1>3. broker \in Keeps(x) /\ broker \in GoodBroker(Msg) /\ disk \in GoodFile(Nothing)
      /\ crashes \in 0 .. MAX_CRASH /\ order \in Seq(Msg)
  BY <1>1, RunningStanding, ContextFields DEF IInv, Keeps
<1>4. first \in 1 .. MAX_TOKEN + 1 /\ MAX_TOKEN \in Nat
  BY <1>3, BrokerAssumption DEF GoodBroker
<1> HIDE DEF first, x
<1>5. last \in Nat /\ first <= last /\ last + 1 \in 1 .. MAX_TOKEN + 1
  BY <1>4
<1>6. clients \in [Token -> GoodClient(Msg)]
  BY <1>3, NewClientGood DEF GoodBroker
<1>7. ASSUME NEW t \in Token
      PROVE  IF t \in first .. last
             THEN clients[t] = NewClient ELSE clients[t] = broker.clients[t]
  OBVIOUS
<1>8. broker' = b
  BY <1>2 DEF Becomes
<1> HIDE DEF clients
<1>9. /\ b \in GoodBroker(Msg) /\ b.clients = clients /\ b.next_token = last + 1
      /\ b.dirty = broker.dirty /\ Snapshot(b) = Snapshot(broker)
  BY <1>3, <1>5, <1>6 DEF GoodBroker, Snapshot
<1> HIDE DEF b
<1>10. b \in Keeps(x)
  <2>1. /\ x.msgs = Msg /\ x.file = disk /\ x.kept = Nothing /\ x.leaving = {}
        /\ x.live = Token /\ x.next = 1 .. MAX_TOKEN + 1
    BY ContextFields DEF x
  <2>2. broker.dirty \/ Snapshot(broker) = disk
    BY <1>1, RunningGood
  <2>3. \A u \in Token : Connected(broker, u) => u < first /\ ~broker.clients[u].clean_disconnect
    BY <1>1, RunningGood DEF first
  <2>4. \A u \in Token : Connected(b, u) => ~b.clients[u].clean_disconnect
    BY <1>7, <1>9, <2>3, NewClientGood DEF Connected
  <2>5. ASSUME NEW u \in Token, Connected(b, u) PROVE u < b.next_token
    <3>1. u \in Nat /\ first \in Nat
      BY <1>4 DEF Token
    <3>2. CASE u \in first .. last
      BY <1>5, <1>9, <3>1, <3>2
    <3>3. CASE u \notin first .. last
      <4>1. Connected(broker, u)
        BY <1>7, <1>9, <2>5, <3>3 DEF Connected
      <4>2. u < first
        BY <2>3, <4>1
      <4>3. QED
        BY <1>5, <1>9, <3>1, <4>2
    <3>4. QED
      BY <3>2, <3>3
  <2>6. QED
    BY <1>5, <1>9, <2>1, <2>2, <2>4, <2>5, NothingStays DEF Keeps
<1>11. IInv' /\ broker' # Stopped
  <2>1. Becomes(b) /\ order' \in Seq(Msg)
    BY <1>2, <1>3, <1>8 DEF AcceptEvent, Becomes
  <2>2. QED
    <3>1. IInv'
      BY <1>3, <1>10, <2>1, BecomesStep, NothingStays DEF IInv, x
    <3>2. QED
      BY <1>8, <1>9, <3>1, BrokerRuns
<1>12. Known \subseteq Known' /\ Live' \subseteq Known' /\ removed \cap Live' = {}
  <2>1. Known' = {t \in Token : t < last + 1} /\ Known = {t \in Token : t < first}
    BY <1>8, <1>9 DEF Known, first
  <2>2. Live' = {t \in Token : clients[t].connected}
    BY <1>8, <1>9 DEF Live, Connected
  <2>3. Live = {t \in Token : broker.clients[t].connected}
    BY DEF Live, Connected
  <2>4. Live' \subseteq Live \cup (first .. last)
    BY <1>7, <2>2, <2>3
  <2>5. Token \subseteq Nat
    BY <1>4 DEF Token
  <2>6. first \in Nat
    BY <1>4
  <2>7. Known \subseteq Known'
    <3>1. \A t \in Token : t < first => t < last + 1
      BY <1>5, <2>5, <2>6
    <3>2. QED
      BY <2>1, <3>1, Zenon
  <2>8. removed \subseteq Known /\ removed \cap Live = {} /\ Live \subseteq Known
    BY <1>1 DEF RemovedOK
  <2>9. Token \cap (first .. last) \subseteq Known' /\ Known \cap (first .. last) = {}
    BY <1>5, <2>1, <2>5, <2>6
  <2>10. Live' \subseteq Token
    BY <2>2
  <2>11. QED
    BY <2>4, <2>7, <2>8, <2>9, <2>10
<1>13. /\ UNCHANGED <<inbox, pc, todo, cur, buf, dead, retry, give_up, removed>>
       /\ batch' \subseteq batch /\ pc = "events"
  BY DEF AcceptEvent, At, peers, lists
<1>14. BatchOK' /\ BufOK' /\ ListsOK' /\ RemovedOK'
  <2>1. [token : Known, kind : {"read", "write"}] \subseteq [token : Known', kind : {"read", "write"}]
    BY <1>12
  <2>2. BatchOK'
    BY <1>1, <1>13, <2>1 DEF BatchOK
  <2>3. QED
    BY <1>1, <1>12, <1>13, <2>2 DEF BufOK, ListsOK, RemovedOK
<1>15. QED
  BY <1>11, <1>14 DEF Safely, LInv, Locals, Running

\* The unwrap of a client that deliver_to has taken away.
LEMMA DiesSafely ==
  ASSUME LInv, Running, Dies, order' = order, NEW t \in Known, t \notin Live, t \notin removed
  PROVE  Safely
<1>1. IInv'
  BY DEF Dies, LInv, IInv, Standing
<1>2. ~Running' /\ Ousted # {}
  BY DEF Dies, Running, Known, Ousted
<1>3. QED
  BY <1>1, <1>2 DEF Safely, LInv, Excused

\* One event, or the close of a connection, is over.
LEMMA BatchShrinks ==
  ASSUME BatchOK, NEW t, NEW gone, batch' \subseteq batch, pc' = pc, Known' = Known,
         removed' \subseteq removed \cup {t}, Event(t, "read") \notin batch',
         buf' # <<>> => cur' = t
  PROVE  BatchOK'
<1>1. \A u \in Token : Event(u, "read") \in batch' => u # t
  OBVIOUS
<1>2. QED
  BY <1>1 DEF BatchOK

\* A readable event: the client is read, if it is there.
LEMMA ReadEventStep ==
  ASSUME LInv, NEW t \in Token, ReadEvent(t)
  PROVE  Safely
<1>1. Running /\ buf = <<>> /\ RemovedOK /\ BatchOK /\ BufOK /\ ListsOK
  BY RunningLocals DEF ReadEvent, At
<1>2. Event(t, "read") \in batch /\ batch' = batch \ {Event(t, "read")}
      /\ UNCHANGED <<pc, todo, dead, retry, give_up>>
  BY DEF ReadEvent, lists
<1>3. CASE t \in Live
  <2>1. DrainClient(t)
    BY <1>3 DEF ReadEvent
  <2>2. /\ Moved({t})
        /\ inbox' \in [Token -> Seq(AnyPacket)] /\ buf' \in Seq(AnyPacket)
        /\ buf' # <<>> => cur' = t /\ removed' = removed
    BY <1>1, <1>3, <2>1, DrainClientMoved
  <2>3. Running' => Known' = Known
    BY <2>2 DEF Moved
  <2>4. removed' \subseteq removed \cup {t} /\ t \in Known \ removed
    BY <1>1, <1>3, <2>2 DEF Moved, RemovedOK
  <2>5. Running' => BatchOK'
    BY <1>1, <1>2, <2>2, <2>3, <2>4, BatchShrinks
  <2>6. Running' => BufOK' /\ ListsOK'
    BY <1>1, <1>2, <2>2, <2>3, <2>4 DEF BufOK, ListsOK
  <2>7. QED
    BY <2>2, <2>5, <2>6, ThenSafely
<1>4. CASE t \notin Live
  <2>1. Dies /\ order' = order
    BY <1>4 DEF ReadEvent
  <2>2. t \in Known /\ t \notin removed
    BY <1>1, <1>2 DEF BatchOK, Event, LISTENER
  <2>3. QED
    BY <1>1, <1>4, <2>1, <2>2, DiesSafely
<1>5. QED
  BY <1>3, <1>4

\* A writable event: readable has been handled.
LEMMA WriteEventStep ==
  ASSUME LInv, NEW t \in Token, WriteEvent(t)
  PROVE  Safely
<1>1. Running /\ buf = <<>> /\ RemovedOK /\ BatchOK /\ BufOK /\ ListsOK
  BY RunningLocals DEF WriteEvent, At
<1>2. Event(t, "read") \notin batch /\ batch' = batch \ {Event(t, "write")}
      /\ UNCHANGED <<inbox, pc, todo, cur, buf, dead, retry, give_up>>
  BY DEF WriteEvent, peers, lists
<1>3. Moved({t})
  <2>1. CASE t \in WithQueue
    <3>1. t \in Live /\ FlushWrites(t)
      BY <2>1 DEF WriteEvent, WithQueue
    <3>2. QED
      BY <1>1, <3>1, FlushWritesMoved
  <2>2. CASE t \notin WithQueue
    <3>1. UNCHANGED <<vars, removed>>
      BY <2>2 DEF WriteEvent
    <3>2. QED
      BY <1>1, <3>1, UnchangedMoved DEF Moved
  <2>3. QED
    BY <2>1, <2>2
<1>4. Running' => Known' = Known
  BY <1>3 DEF Moved
<1>5. removed' \subseteq removed \cup {t}
  BY <1>3 DEF Moved
<1>6. Running' => BatchOK'
  BY <1>1, <1>2, <1>4, <1>5, BatchShrinks
<1>7. Running' => BufOK' /\ ListsOK'
  BY <1>1, <1>2, <1>4 DEF BufOK, ListsOK
<1>8. QED
  BY <1>3, <1>6, <1>7, ThenSafely

\* CONNECT, which may resume a session and close the connection over it.
LEMMA ConnectMoved ==
  ASSUME LInv, Running, NEW t \in Token, NEW c \in Cid, NEW clean \in BOOLEAN, Connect(t, c, clean)
  PROVE  /\ IInv' /\ (~Running' => Excused)
         /\ Running' => Live' \subseteq Live /\ broker'.next_token = broker.next_token
<1> DEFINE x == Here(Around, {})
<1>1. IInv /\ broker \in Keeps(x) /\ Around \subseteq Msg /\ broker.next_token \in 1 .. MAX_TOKEN + 1
  BY LoopBroker DEF LInv
<1>2. x.msgs = Around /\ x.kept.stored = {}
  BY HereFields, NothingStays
<1>3. WillOf[c] \in Around \cup {NoMsg}
  BY BrokerAssumption DEF Around, LongHeld
<1> HIDE DEF x
<1>4. PICK done : done.b \in Keeps(x) /\ Handled(done, t)
  BY <1>1, <1>2, <1>3, ConnectResult
<1>5. order' = order /\ order \in Seq(Msg)
  BY <1>1 DEF Connect, IInv, Standing
<1>6. done.b \in Keeps(Here(Msg, {})) /\ done.b \in Keeps(Here(Around, {t}))
  BY <1>1, <1>4, HereStands DEF x
<1>7. CASE Becomes(done.b)
  BY <1>1, <1>5, <1>6, <1>7, LoopBecomes
<1>8. CASE Closes(done.b, t)
  BY <1>1, <1>5, <1>6, <1>8, LoopCloses
<1>9. QED
  BY <1>4, <1>7, <1>8 DEF Handled

\* An acknowledgement leaves the client where it is.
LEMMA AckMoved ==
  ASSUME LInv, Running, NEW t \in Token, Connected(broker, t), NEW pkt,
         Becomes([broker EXCEPT !.clients[t].in_flight = @ \ {pkt}]), order' = order
  PROVE  /\ IInv' /\ Running' /\ Connected(broker', t)
         /\ Live' \subseteq Live /\ broker'.next_token = broker.next_token
<1> DEFINE x == Here(Msg, {})
           client == broker.clients[t]
           rest == client.in_flight \ {pkt}
           acked == [client EXCEPT !.in_flight = rest]
<1>1. IInv /\ broker \in Keeps(x) /\ order \in Seq(Msg) /\ x.kept.queued = {}
  BY LoopGood DEF LInv
<1> HIDE DEF x
<1>2. /\ client \in ConnectedOf(x.msgs)
      /\ Len(client.write_queue) <= WRITE_QUEUE_CAP
      /\ IsFiniteSet(client.in_flight)
      /\ Cardinality(client.in_flight) <= IN_FLIGHT_CAP
  BY <1>1, LiveClient
<1>3. IsFiniteSet(rest) /\ Cardinality(rest) <= IN_FLIGHT_CAP
  BY <1>2, FewerInFlight
<1>4. /\ acked \in ConnectedOf(x.msgs) /\ acked.in_flight = rest
      /\ acked.write_queue = client.write_queue /\ acked.clean_disconnect = client.clean_disconnect
  BY <1>2 DEF ConnectedOf
<1>5. [broker EXCEPT !.clients[t].in_flight = @ \ {pkt}] = [broker EXCEPT !.clients[t] = acked]
  BY <1>1 DEF Keeps, GoodBroker
<1> HIDE DEF acked
<1>6. [broker EXCEPT !.clients[t] = acked] \in Keeps(x) /\ Connected([broker EXCEPT !.clients[t] = acked], t)
  BY <1>1, <1>2, <1>3, <1>4, ReplaceKeeps
<1>7. Becomes([broker EXCEPT !.clients[t] = acked]) /\ order' \in Seq(Msg)
  BY <1>1, <1>5
<1>8. broker' = [broker EXCEPT !.clients[t] = acked]
  BY <1>7 DEF Becomes
<1>9. IInv' /\ Running' /\ Live' \subseteq Live /\ broker'.next_token = broker.next_token
  BY <1>1, <1>6, <1>7, LoopBecomes DEF x
<1>10. QED
  BY <1>6, <1>8, <1>9

\* A packet of the buffer is handled.  Only deliver_to can have taken its sender
\* away before that; when the handler closes the connection, the rest of the
\* buffer is dropped.
LEMMA HandlePacketStep ==
  ASSUME LInv, HandlePacket
  PROVE  Safely
<1> DEFINE pkt == Head(buf)
<1>1. Running /\ buf # <<>> /\ Handler(pkt)
  BY DEF HandlePacket
<1>2. IInv /\ RemovedOK /\ BatchOK /\ BufOK /\ ListsOK
  BY <1>1, RunningLocals
<1>3. /\ buf' = IF Fails(pkt) \/ ~Running' THEN <<>> ELSE Tail(buf)
      /\ cur' = IF buf' = <<>> THEN LISTENER ELSE cur
      /\ removed' = IF pkt.type # "PUBLISH" /\ Running' /\ ~Connected(broker', cur)
                    THEN removed \cup {cur} ELSE removed
      /\ UNCHANGED <<inbox, pc, batch, todo, dead, retry, give_up>>
  BY DEF HandlePacket, peers, lists
<1>4. cur \in Known /\ cur \in Token /\ cur \notin removed /\ Event(cur, "read") \notin batch
  BY <1>1, <1>2 DEF BufOK, BatchOK, Known
<1>5. pkt \in AnyPacket /\ Tail(buf) \in Seq(AnyPacket) /\ <<>> \in Seq(AnyPacket)
  BY <1>1, <1>2, HeadTailProperties, EmptySeq DEF BufOK
<1> HIDE DEF pkt
<1>6. CASE ~Connected(broker, cur) /\ Dies /\ UNCHANGED order
  BY <1>1, <1>4, <1>6, DiesSafely DEF Live
<1>7. ASSUME /\ IInv' /\ (~Running' => Excused)
             /\ Running' => Live' \subseteq Live /\ broker'.next_token = broker.next_token,
             pkt.type = "PUBACK" => Connected(broker', cur)
      PROVE  Safely
  <2>1. Running' => Known' = Known
    BY <1>7 DEF Known
  <2>2. Running' /\ cur \in removed' => cur \notin Live'
    BY <1>3, <1>4 DEF Live
  <2>3. Moved({cur})
    BY <1>2, <1>3, <1>4, <1>7, <2>1, <2>2 DEF Moved, RemovedOK
  <2>4. ASSUME buf' # <<>> PROVE cur' = cur /\ removed' = removed
    <3>1. ~Fails(pkt) /\ Running' /\ cur' = cur
      BY <1>3, <2>4
    <3>2. pkt.type \in {"CONNECT", "DISCONNECT", "JUNK", "PUBACK", "PUBLISH"}
      BY <1>5 DEF AnyPacket
    <3>3. pkt.type = "PUBLISH" \/ Connected(broker', cur)
      BY <1>7, <3>1, <3>2 DEF Fails
    <3>4. QED
      BY <1>3, <3>1, <3>3
  <2>5. removed' \subseteq removed \cup {cur}
    BY <1>3
  <2>6. Running' => BatchOK'
    BY <1>2, <1>3, <1>4, <2>1, <2>4, <2>5, BatchShrinks
  <2>7. Running' => BufOK' /\ ListsOK'
    BY <1>2, <1>3, <1>4, <1>5, <2>1, <2>4 DEF BufOK, ListsOK
  <2>8. QED
    BY <2>3, <2>6, <2>7, ThenSafely
<1>8. CASE pkt.type = "CONNECT" /\ Connect(cur, CidOf[cur], pkt.clean)
  <2>1. pkt.clean \in BOOLEAN /\ CidOf[cur] \in Cid
    BY <1>4, <1>5, <1>8, LoopAssumption DEF AnyPacket
  <2>2. QED
    BY <1>1, <1>4, <1>7, <1>8, <2>1, ConnectMoved
<1>9. CASE pkt.type = "PUBLISH" /\ PublishPacket(cur, pkt.msg, pkt.qos, FALSE)
  <2>1. pkt.msg \in Msg /\ pkt.qos \in 0..2
    <3>1. pkt.msg \in Msg /\ pkt.qos \in PUB_QOS
      BY <1>5, <1>9 DEF AnyPacket
    <3>2. QED
      BY <3>1, BrokerAssumption
  <2> DEFINE x == Here(Msg, {})
  <2>2. broker \in Keeps(x) /\ x.msgs = Msg
    BY <1>1, <1>2, LoopGood
  <2> HIDE DEF x
  <2>3. PICK b \in Keeps(x) : Becomes(b)
    BY <1>4, <1>9, <2>1, <2>2, PublishPacketResult
  <2>4. order' \in Seq(Msg)
    <3>1. order' = Append(order, pkt.msg) /\ order \in Seq(Msg)
      BY <1>2, <1>9 DEF PublishPacket, IInv, Standing
    <3>2. QED
      BY <2>1, <3>1, AppendProperties
  <2>5. IInv' /\ Running' /\ Live' \subseteq Live /\ broker'.next_token = broker.next_token
    BY <1>1, <1>2, <2>3, <2>4, LoopBecomes DEF x
  <2>6. QED
    BY <1>7, <1>9, <2>5
<1>10. CASE /\ pkt.type = "PUBACK" /\ Connected(broker, cur)
            /\ Becomes([broker EXCEPT !.clients[cur].in_flight = @ \ {pkt.pkt}]) /\ UNCHANGED order
  <2>1. /\ IInv' /\ Running' /\ Connected(broker', cur)
        /\ Live' \subseteq Live /\ broker'.next_token = broker.next_token
    BY <1>1, <1>4, <1>10, AckMoved
  <2>2. QED
    BY <1>7, <2>1
<1>11. CASE pkt.type = "DISCONNECT" /\ DisconnectPacket(cur)
  <2> DEFINE x == Here(Around, {cur})
  <2>1. broker \in Keeps(x) /\ cur \in x.leaving
    BY <1>1, <1>2, LoopBroker, HereFields
  <2> HIDE DEF x
  <2>2. PICK b \in Keeps(x) : Closes(b, cur)
    BY <1>4, <1>11, <2>1, DisconnectPacketResult
  <2>3. order' = order
    BY <1>11 DEF DisconnectPacket
  <2>4. /\ IInv' /\ (~Running' => Excused)
        /\ Running' => Live' \subseteq Live \ {cur} /\ broker'.next_token = broker.next_token
    BY <1>1, <1>2, <1>4, <2>2, <2>3, LoopCloses DEF x
  <2>5. QED
    BY <1>7, <1>11, <2>4
<1>12. CASE pkt.type = "JUNK" /\ Lose(cur)
  <2>1. broker \in Keeps(Here(Around, {cur}))
    BY <1>1, <1>2, LoopBroker
  <2>2. Closes(broker, cur) /\ order' = order
    BY <1>12 DEF Lose
  <2>3. /\ IInv' /\ (~Running' => Excused)
        /\ Running' => Live' \subseteq Live \ {cur} /\ broker'.next_token = broker.next_token
    BY <1>1, <1>2, <1>4, <2>1, <2>2, LoopCloses
  <2>4. QED
    BY <1>7, <1>12, <2>3
<1>13. QED
  BY <1>1, <1>6, <1>8, <1>9, <1>10, <1>11, <1>12 DEF Handler

\* The pass over the clients lists what is there.
LEMMA ScanStep ==
  ASSUME LInv, Scan
  PROVE  Safely
<1>1. Running /\ buf = <<>> /\ batch = {} /\ IInv /\ RemovedOK
  BY RunningLocals DEF Scan, At
<1>2. /\ todo' = WithQueue /\ dead' \subseteq Live /\ batch' = batch /\ buf' = buf /\ inbox' = inbox
      /\ pc' = "flush" /\ UNCHANGED <<vars, removed>>
  BY DEF Scan, peers
<1>3. PICK late \in SUBSET Unanswered : \E spent \in SUBSET late :
        retry' = late \ spent /\ give_up' = {e.token : e \in spent}
  BY DEF Scan
<1>4. Moved({}) /\ (Running' => Known' = Known)
  BY <1>1, <1>2, UnchangedMoved DEF Moved
<1>5. \A e \in Unanswered : e.token \in Known /\ e.pkt \in PacketOf(Msg)
  <2> SUFFICES ASSUME NEW t \in Slow \cap Live, NEW pkt \in broker.clients[t].in_flight
               PROVE  t \in Known /\ pkt \in PacketOf(Msg)
    BY DEF Unanswered
  <2>1. t \in Token /\ Connected(broker, t) /\ t \in Known
    BY <1>1 DEF Live, RemovedOK
  <2> DEFINE x == Context(disk, Nothing, {})
  <2>2. broker \in Keeps(x)
    BY <1>1, RunningStanding DEF IInv
  <2> HIDE DEF x
  <2>3. broker.clients[t] \in ConnectedOf(x.msgs)
    BY <2>1, <2>2, LiveClient
  <2>4. QED
    BY <2>1, <2>3 DEF ConnectedOf
<1>6. Running' => ListsOK'
  <2>1. \A e \in retry' : e.token \in Known /\ e.pkt \in PacketOf(Msg)
    BY <1>3, <1>5
  <2>2. give_up' \subseteq Known
    BY <1>3, <1>5
  <2>3. todo' \subseteq Known /\ dead' \subseteq Known
    BY <1>1, <1>2 DEF WithQueue, RemovedOK
  <2>4. QED
    BY <1>4, <2>1, <2>2, <2>3 DEF ListsOK
<1>7. QED
  BY <1>1, <1>2, <1>4, <1>6, ListsChange

\* The flushes of both kinds.
LEMMA FlushNextStep ==
  ASSUME LInv, NEW t \in Token, FlushNext(t)
  PROVE  Safely
<1>1. Running /\ buf = <<>> /\ pc # "events" /\ ListsOK
  BY RunningLocals DEF FlushNext, At
<1>2. /\ todo' \subseteq todo /\ UNCHANGED <<inbox, pc, batch, buf, dead, retry, give_up>>
  BY DEF FlushNext, peers, lists
<1>3. Moved({t})
  <2>1. CASE t \in Live
    BY <1>1, <2>1, FlushWritesMoved DEF FlushNext
  <2>2. CASE t \notin Live
    <3>1. UNCHANGED <<vars, removed>>
      BY <2>2 DEF FlushNext
    <3>2. QED
      BY <1>1, <3>1, UnchangedMoved DEF Moved
  <2>3. QED
    BY <2>1, <2>2
<1>4. Running' => ListsOK'
  BY <1>1, <1>2, <1>3 DEF Moved, ListsOK
<1>5. QED
  BY <1>1, <1>2, <1>3, <1>4, ListsChange

\* The start of the sweep, and of the second flush.
LEMMA VisitsStart ==
  ASSUME LInv, StartSweep \/ StartFlush2
  PROVE  Safely
<1>1. Running /\ buf = <<>> /\ pc # "events" /\ RemovedOK /\ ListsOK
  BY RunningLocals DEF StartSweep, StartFlush2, At
<1>2. /\ todo' \subseteq Live /\ pc' # "events"
      /\ UNCHANGED <<vars, removed, inbox, batch, buf, dead, retry, give_up>>
  BY DEF StartSweep, StartFlush2, WithQueue, peers, lists
<1>3. Moved({})
  BY <1>1, <1>2, UnchangedMoved
<1>4. Running' => ListsOK'
  BY <1>1, <1>2, <1>3 DEF Moved, ListsOK, RemovedOK
<1>5. QED
  BY <1>1, <1>2, <1>3, <1>4, ListsChange

\* The sweep reads whoever is still there.
LEMMA SweepNextStep ==
  ASSUME LInv, NEW t \in Token, SweepNext(t)
  PROVE  Safely
<1>1. Running /\ buf = <<>> /\ pc # "events" /\ RemovedOK /\ BatchOK /\ BufOK /\ ListsOK
  BY RunningLocals DEF SweepNext, At
<1>2. todo' \subseteq todo /\ UNCHANGED <<pc, batch, dead, retry, give_up>>
  BY DEF SweepNext, lists
<1>3. /\ Moved({t})
      /\ inbox' \in [Token -> Seq(AnyPacket)] /\ buf' \in Seq(AnyPacket)
      /\ buf' # <<>> => cur' = t /\ removed' = removed /\ t \in Live
  <2>1. CASE t \in Live
    BY <1>1, <2>1, DrainClientMoved DEF SweepNext
  <2>2. CASE t \notin Live
    <3>1. UNCHANGED <<vars, inbox, cur, buf, removed>>
      BY <2>2 DEF SweepNext
    <3>2. QED
      BY <1>1, <3>1, UnchangedMoved DEF Moved, BufOK
  <2>3. QED
    BY <2>1, <2>2
<1>4. Running' => Known' = Known
  BY <1>3 DEF Moved
<1>5. Running' => BatchOK' /\ ListsOK'
  BY <1>1, <1>2, <1>4 DEF BatchOK, ListsOK
<1>6. Running' => BufOK'
  BY <1>1, <1>3, <1>4 DEF BufOK, RemovedOK
<1>7. QED
  BY <1>3, <1>5, <1>6, ThenSafely

\* The $SYS messages.
LEMMA SysTopicsStep ==
  ASSUME LInv, SysTopics
  PROVE  Safely
<1>1. Running /\ buf = <<>> /\ pc # "events" /\ ListsOK /\ IInv
  BY RunningLocals DEF SysTopics, At
<1>2. pc' # "events" /\ UNCHANGED <<inbox, batch, todo, buf, dead, retry, give_up, removed>>
  BY DEF SysTopics, peers, lists
<1>3. Moved({})
  <2>1. CASE PublishSys
    <3> DEFINE x == Here(Msg, {})
    <3>1. broker \in Keeps(x) /\ order \in Seq(Msg)
      BY <1>1, LoopGood
    <3> HIDE DEF x
    <3>2. SysPublished(broker) \in Keeps(x)
      BY <3>1, SysPublishedKeeps
    <3>3. Becomes(SysPublished(broker)) /\ order' = order
      BY <2>1 DEF PublishSys
    <3>4. QED
      BY <1>1, <1>2, <3>1, <3>2, <3>3, BecomesMoved DEF x
  <2>2. CASE UNCHANGED vars
    BY <1>1, <1>2, <2>2, UnchangedMoved
  <2>3. QED
    BY <2>1, <2>2 DEF SysTopics
<1>4. Running' => ListsOK'
  BY <1>1, <1>2, <1>3 DEF Moved, ListsOK
<1>5. QED
  BY <1>1, <1>2, <1>3, <1>4, ListsChange

\* remove_client is called for every token of the list, whether or not there is
\* a client.
LEMMA RemoveDeadStep ==
  ASSUME LInv, NEW t \in Token, RemoveDead(t)
  PROVE  Safely
<1>1. Running /\ buf = <<>> /\ pc # "events" /\ ListsOK /\ t \in dead /\ CloseClient(t)
  BY RunningLocals DEF RemoveDead, At
<1>2. dead' \subseteq dead /\ UNCHANGED <<inbox, pc, batch, todo, buf, retry, give_up>>
  BY DEF RemoveDead, peers
<1>3. Moved({t})
  BY <1>1, CloseClientMoved DEF ListsOK
<1>4. Running' => ListsOK'
  BY <1>1, <1>2, <1>3 DEF Moved, ListsOK
<1>5. QED
  BY <1>1, <1>2, <1>3, <1>4, ListsChange

\* A packet is queued once more, or its client is closed over it.
LEMMA RetransmitStep ==
  ASSUME LInv, NEW e \in retry, Retransmit(e)
  PROVE  Safely
<1> DEFINE t == e.token
<1>1. Running /\ buf = <<>> /\ pc # "events" /\ ListsOK /\ IInv
  BY RunningLocals DEF Retransmit, At
<1>2. retry' \subseteq retry /\ UNCHANGED <<inbox, pc, batch, todo, buf, dead, give_up>>
  BY DEF Retransmit, peers
<1>3. t \in Known /\ e.pkt \in PacketOf(Msg)
  BY <1>1 DEF ListsOK
<1>4. Moved({t})
  <2>1. CASE t \notin Live
    <3>1. UNCHANGED <<vars, removed>>
      BY <2>1 DEF Retransmit
    <3>2. QED
      BY <1>1, <3>1, UnchangedMoved DEF Moved
  <2>2. CASE t \in Live /\ Accepts1(Queue(t))
    <3> DEFINE x == Here(Msg, {})
               q == Queue1(Queue(t), e.pkt)
    <3>1. broker \in Keeps(x) /\ x.msgs = Msg /\ order \in Seq(Msg) /\ x.kept.queued = {}
      BY <1>1, LoopGood
    <3> HIDE DEF x
    <3>2. t \in Token /\ Connected(broker, t)
      BY <2>2 DEF Live
    <3>3. broker.clients[t] \in ConnectedOf(x.msgs) /\ Len(Queue(t)) <= WRITE_QUEUE_CAP
      BY <3>1, <3>2, LiveClient DEF Queue
    <3>4. Queue(t) \in Seq(EntryOf(x.msgs))
      BY <3>3 DEF ConnectedOf, Queue
    <3>5. Queued(TRUE, e.pkt) \in EntryOf(x.msgs)
      BY <1>3, <3>1 DEF Queued, EntryOf
    <3>6. q \in Seq(EntryOf(x.msgs)) /\ Len(q) <= WRITE_QUEUE_CAP
      BY <2>2, <3>3, <3>4, <3>5, Queue1Entries
    <3>7. Becomes([broker EXCEPT !.clients[t].write_queue = Queue1(@, e.pkt)]) /\ UNCHANGED <<order, removed>>
      BY <2>2 DEF Retransmit
    <3>8. [broker EXCEPT !.clients[t].write_queue = Queue1(@, e.pkt)]
            = [broker EXCEPT !.clients[t].write_queue = q]
      BY DEF Queue
    <3> HIDE DEF q, t
    <3>9. [broker EXCEPT !.clients[t].write_queue = q] \in Keeps(x)
      BY <3>1, <3>2, <3>6, QueueKeeps
    <3>10. Moved({})
      BY <1>1, <3>1, <3>7, <3>8, <3>9, BecomesMoved DEF x
    <3>11. QED
      BY <3>10 DEF Moved
  <2>3. CASE t \in Live /\ ~Accepts1(Queue(t))
    <3>1. CloseClient(t)
      BY <2>3 DEF Retransmit
    <3>2. QED
      BY <1>1, <1>3, <3>1, CloseClientMoved
  <2>4. QED
    BY <2>1, <2>2, <2>3
<1>5. Running' => ListsOK'
  BY <1>1, <1>2, <1>4 DEF Moved, ListsOK
<1>6. QED
  BY <1>1, <1>2, <1>4, <1>5, ListsChange

\* A client that has not answered is given up.
LEMMA GiveUpStep ==
  ASSUME LInv, NEW t \in Token, GiveUp(t)
  PROVE  Safely
<1>1. Running /\ buf = <<>> /\ pc # "events" /\ ListsOK /\ t \in give_up
  BY RunningLocals DEF GiveUp, At
<1>2. give_up' \subseteq give_up /\ UNCHANGED <<inbox, pc, batch, todo, buf, dead, retry>>
  BY DEF GiveUp, peers
<1>3. Moved({t})
  <2>1. CASE t \in Live
    BY <1>1, <2>1, CloseClientMoved DEF GiveUp, ListsOK
  <2>2. CASE t \notin Live
    <3>1. UNCHANGED <<vars, removed>>
      BY <2>2 DEF GiveUp
    <3>2. QED
      BY <1>1, <3>1, UnchangedMoved DEF Moved
  <2>3. QED
    BY <2>1, <2>2
<1>4. Running' => ListsOK'
  BY <1>1, <1>2, <1>3 DEF Moved, ListsOK
<1>5. QED
  BY <1>1, <1>2, <1>3, <1>4, ListsChange

\* The save at the end of a turn.
LEMMA EndTurnStep ==
  ASSUME LInv, EndTurn
  PROVE  Safely
<1>1. Running /\ buf = <<>> /\ pc # "events" /\ ListsOK /\ IInv /\ RemovedOK
  BY RunningLocals DEF EndTurn, At
<1>2. pc' # "events" /\ UNCHANGED <<inbox, batch, todo, buf, dead, retry, give_up, removed>>
  BY DEF EndTurn, peers, lists
<1>3. Moved({})
  <2>1. CASE Save
    <3>1. IInv'
      BY <1>1, <2>1, SaveStep DEF IInv
    <3>2. broker \in GoodBroker(Msg) /\ crashes \in Nat
      BY <1>1, RunningGood DEF IInv, Standing
    <3>3. /\ Running' => broker'.clients = broker.clients /\ broker'.next_token = broker.next_token
          /\ ~Running' => crashes' # crashes
      BY <2>1, <3>2, SavedRuns DEF Save
    <3>4. Running' => Live' = Live /\ Known' = Known
      BY <3>3 DEF Live, Known, Connected
    <3>5. QED
      BY <1>1, <1>2, <3>1, <3>3, <3>4 DEF Moved, RemovedOK, Excused
  <2>2. CASE UNCHANGED vars
    BY <1>1, <1>2, <2>2, UnchangedMoved
  <2>3. QED
    BY <2>1, <2>2 DEF EndTurn
<1>4. Running' => ListsOK'
  BY <1>1, <1>2, <1>3 DEF Moved, ListsOK
<1>5. QED
  BY <1>1, <1>2, <1>3, <1>4, ListsChange

\* What a peer sends is a packet, and no more.
LEMMA SendStep ==
  ASSUME LInv, NEW t \in Live, NEW pkt \in Packets(t), Send(t, pkt)
  PROVE  Safely
<1>1. Running /\ IInv /\ RemovedOK /\ BatchOK /\ BufOK /\ ListsOK /\ t \in Token /\ Connected(broker, t)
  BY RunningLocals DEF Send, MayAct, Live
<1>2. /\ inbox' = [inbox EXCEPT ![t] = Append(@, pkt)]
      /\ UNCHANGED <<vars, removed, pc, batch, todo, cur, buf, dead, retry, give_up>>
  BY DEF Send, loopVars, lists
<1>3. Moved({}) /\ (Running' => Known' = Known)
  BY <1>1, <1>2, UnchangedMoved DEF Moved
<1>4. pkt \in AnyPacket
  <2> DEFINE x == Context(disk, Nothing, {})
  <2>1. broker \in Keeps(x)
    BY <1>1, RunningStanding DEF IInv
  <2> HIDE DEF x
  <2>2. broker.clients[t].in_flight \subseteq PacketOf(Msg)
    <3>1. broker.clients[t] \in ConnectedOf(x.msgs)
      BY <1>1, <2>1, LiveClient
    <3>2. QED
      BY <3>1 DEF ConnectedOf
  <2>3. CleanOf[CidOf[t]] \subseteq BOOLEAN
    BY <1>1, BrokerAssumption, LoopAssumption
  <2>4. Plain \subseteq Msg
    BY DEF Plain
  <2>5. QED
    BY <2>2, <2>3, <2>4 DEF Packets, AnyPacket
<1>5. inbox' \in [Token -> Seq(AnyPacket)]
  <2>1. inbox \in [Token -> Seq(AnyPacket)] /\ inbox[t] \in Seq(AnyPacket)
    BY <1>1 DEF BufOK
  <2>2. Append(inbox[t], pkt) \in Seq(AnyPacket)
    BY <1>4, <2>1, AppendProperties
  <2>3. QED
    BY <1>2, <2>1, <2>2
<1>6. Running' => BatchOK' /\ BufOK' /\ ListsOK'
  BY <1>1, <1>2, <1>3, <1>5 DEF BatchOK, BufOK, ListsOK
<1>7. QED
  BY <1>3, <1>6, ThenSafely

\* A step that leaves the broker and the loop alone.
LEMMA IdleStep ==
  ASSUME LInv, UNCHANGED <<vars, inbox, loopVars>>
  PROVE  LInv' /\ Running' = Running
<1>1. IInv' /\ Running' = Running /\ Known' = Known /\ Live' = Live
  BY DEF LInv, IInv, Standing, vars, Running, Known, Live
<1>2. UNCHANGED <<pc, batch, todo, cur, buf, dead, retry, give_up, removed>>
  BY DEF loopVars, lists
<1>3. Running => Locals'
  BY <1>1, <1>2 DEF LInv, Locals, RemovedOK, BatchOK, BufOK, ListsOK
<1>4. QED
  BY <1>1, <1>3 DEF LInv

\* Every step of the loop and of the peers.
LEMMA LoopStep ==
  ASSUME LInv, LoopNext
  PROVE  Safely
<1>1. ASSUME NEW t \in Token,
             \/ ReadEvent(t) \/ WriteEvent(t) \/ FlushNext(t)
             \/ SweepNext(t) \/ RemoveDead(t) \/ GiveUp(t)
      PROVE  Safely
  BY <1>1, ReadEventStep, WriteEventStep, FlushNextStep, SweepNextStep, RemoveDeadStep, GiveUpStep
<1>2. ASSUME NEW e \in retry, Retransmit(e) PROVE Safely
  BY <1>2, RetransmitStep
<1>3. CASE Poll
  BY <1>3, PollStep
<1>4. CASE AcceptEvent
  BY <1>4, AcceptEventStep
<1>5. CASE HandlePacket
  BY <1>5, HandlePacketStep
<1>6. CASE Scan
  BY <1>6, ScanStep
<1>7. CASE StartSweep \/ StartFlush2
  BY <1>7, VisitsStart
<1>8. CASE SysTopics
  BY <1>8, SysTopicsStep
<1>9. CASE EndTurn
  BY <1>9, EndTurnStep
<1>10. ASSUME Running, NEW t \in Live, Close(t) PROVE Safely
  <2>1. UNCHANGED <<vars, inbox, loopVars>>
    BY <1>10 DEF Close
  <2>2. QED
    BY <1>10, <2>1, IdleStep DEF Safely
<1>11. ASSUME Running, NEW t \in Live, NEW pkt \in Packets(t), Send(t, pkt) PROVE Safely
  BY <1>11, SendStep
<1>12. QED
  BY <1>1, <1>2, <1>3, <1>4, <1>5, <1>6, <1>7, <1>8, <1>9, <1>10, <1>11 DEF LoopNext, Turn

\* The process starts with a file that it wrote itself.
LEMMA LoopStart == LoopInit => LInv
<1> SUFFICES ASSUME LoopInit PROVE LInv
  OBVIOUS
<1>1. StateFile \in StateType
      /\ \A c \in Cid : StateFile.sessions[c].stored => Len(StateFile.sessions[c].offline) <= OFFLINE_CAP
  BY LoopAssumption
<1>2. StateFile.sessions \in [Cid -> GoodSession(Msg)]
  <2>1. \A c \in Cid : StateFile.sessions[c] \in SessionType
    BY <1>1 DEF StateType
  <2>2. ASSUME NEW c \in Cid PROVE StateFile.sessions[c] \in GoodSession(Msg)
    BY <1>1, <2>1 DEF SessionType, StoredType, StoredOf, GoodSession, HeldType, NoSession
  <2>3. StateFile.sessions = [c \in Cid |-> StateFile.sessions[c]]
    BY <1>1 DEF StateType
  <2>4. QED
    BY <2>2, <2>3
<1>3. StateFile \in GoodState(Msg)
  BY <1>1, <1>2 DEF StateType, GoodState
<1>4. StateFile # Corrupt
  <2>1. DOMAIN StateFile = {"retained", "sessions"} /\ DOMAIN Corrupt = {"readable"}
    BY <1>1 DEF StateType, Corrupt
  <2>2. QED
    BY <2>1
<1>5. StateFile \in GoodFile(Nothing)
  BY <1>3, NothingStays DEF GoodFile
<1>6. Boot(StateFile) \in Keeps(Context(StateFile, Nothing, {}))
  BY <1>4, <1>5, NothingStays, BootGood
<1>7. broker = Boot(StateFile) /\ disk = StateFile /\ crashes = 0 /\ order = <<>>
  BY DEF LoopInit
<1>8. IInv
  BY <1>5, <1>6, <1>7, BrokerAssumption, EmptySeq, NothingStays DEF IInv, Standing
<1>9. Live = {} /\ broker.next_token = 1
  BY <1>7 DEF Boot, Live, Connected, Gone
<1>10. RemovedOK /\ BatchOK /\ BufOK /\ ListsOK
  BY <1>9, EmptySeq DEF LoopInit, RemovedOK, BatchOK, BufOK, ListsOK
<1>11. QED
  BY <1>8, <1>10 DEF LInv, Locals

\* The broker in the loop is in good order in every state, and whatever the
\* locals of the loop name has been handed out and, where the loop relies on
\* it, not been removed.
THEOREM LoopInGoodOrder == LoopSpec => []LInv
<1>1. LInv /\ [LoopNext]_allVars => LInv'
  <2>1. LInv /\ UNCHANGED allVars => LInv'
    BY IdleStep DEF allVars, peers
  <2>2. QED
    BY <2>1, LoopStep DEF Safely
<1>2. QED
  BY <1>1, LoopStart, PTL DEF LoopSpec

\* The types of the loop's events, lists and buffers, and of the broker it
\* works on.
THEOREM LoopTypes == LoopSpec => []LoopTypeOK
<1>1. LInv => LoopTypeOK
  <2> SUFFICES ASSUME LInv PROVE LoopTypeOK
    OBVIOUS
  <2>1. TypeOK
    BY GoodTypes DEF LInv
  <2>2. Known \subseteq Token
    BY DEF Known
  <2>3. [token : Known, kind : {"read", "write"}] \subseteq [token : Token, kind : {"read", "write"}]
    BY <2>2
  <2>4. QED
    BY <2>1, <2>2, <2>3, RunningLocals DEF LoopTypeOK, BatchOK, BufOK, ListsOK
<1>2. QED
  BY <1>1, LoopInGoodOrder, PTL

\* The unwraps of the loop hold, whatever the order of events, packets and
\* departures within a turn: the process dies of a client that deliver_to took
\* away, of a message that remove_client cannot decode, or by being killed in
\* the middle of a save.
THEOREM KnownCauses == LoopSpec => DiesOnlyOfKnownCauses
<1>1. LInv /\ [LoopNext]_allVars => [broker' = Stopped => Excused]_allVars
  BY LoopStep DEF Safely, Running
<1>2. QED
  BY <1>1, LoopInGoodOrder, PTL DEF LoopSpec, DiesOnlyOfKnownCauses
=============================================================================
