----------------------------- MODULE BrokerProofs -----------------------------
(***************************************************************************)
(* Broker, for every value of the constants: the types, the limits of what *)
(* is kept for a client, the dirty flag, and what a stored session holds.  *)
(*                                                                         *)
(* A handler is a chain of calls, so the proof goes method by method: each *)
(* maps the brokers in good order to such brokers.  What is good order is  *)
(* relative to a context x: the broker has the right types and is within   *)
(* its limits, the QoS1/2 messages and wills it holds for clients are in   *)
(* x.msgs, its dirty flag is up unless the file x.file holds what is in    *)
(* memory, its sessions and queues hold what x.kept says they do, only the *)
(* clients in x.live are connected and only those in x.leaving have sent   *)
(* DISCONNECT, and the next token is in x.next.                            *)
(***************************************************************************)
EXTENDS Broker, VectorProofs

----------------------------------------------------------------------------
(* Brokers in good order.  The types are those of TypeOK, with M in the    *)
(* place of Msg, and with the limits of Bounded.                           *)

PacketOf(M) == [msg : M, qos : 1..2, pid : Pid]
EntryOf(M) ==
  [rel : {TRUE}, pkt : PacketOf(M)]
  \cup [rel : {FALSE}, pkt : [msg : Msg, qos : {0}, pid : {0}] \cup {Reply}]

ConnectedOf(M) ==
  [connected : {TRUE}, cid : Cid \cup {NoCid}, clean_session : BOOLEAN,
   clean_disconnect : BOOLEAN, will : {m \in M : \E c \in Cid : m = WillOf[c]} \cup {NoMsg},
   write_queue : Seq(EntryOf(M)), in_flight : SUBSET PacketOf(Msg), next_pid : Nat \ {0}]
GoodClient(M) ==
  {Gone} \cup
  {client \in ConnectedOf(M) :
     /\ Len(client.write_queue) <= WRITE_QUEUE_CAP
     /\ IsFiniteSet(client.in_flight)
     /\ Cardinality(client.in_flight) <= IN_FLIGHT_CAP}

StoredOf(M) == [stored : {TRUE}, subs : Seq(FilterQos), offline : Seq([msg : M, qos : 0..2])]
GoodSession(M) ==
  {NoSession} \cup {session \in StoredOf(M) : Len(session.offline) <= OFFLINE_CAP}

GoodState(M) == [retained : RetainedType, sessions : [Cid -> GoodSession(M)]]

GoodBroker(M) ==
  [clients : [Token -> GoodClient(M)], subs : Seq(SubType), next_token : 1 .. MAX_TOKEN + 1,
   retained : RetainedType, sessions : [Cid -> GoodSession(M)], dirty : BOOLEAN]

\* The offline queue of a session holds m, at QoS q or higher.
Has(session, m, q) ==
  /\ session.stored
  /\ \E i \in DOMAIN session.offline : session.offline[i].msg = m /\ session.offline[i].qos >= q

\* m waits, at QoS1/2, in the queue of a persistent connection of client c.
Awaits(client, c, m) ==
  /\ client.cid = c /\ ~client.clean_session
  /\ \E e \in ToSet(client.write_queue) : e.rel /\ e.pkt.msg = m

\* What is to stay where it is: the message m at QoS q stored for c, as
\* <<c, m, q>>, and the message m in the queue of c's connection t, as <<t, c, m>>,
\* while that connection lasts.
IsStored(sessions, p) == p[1] \in Cid /\ Has(sessions[p[1]], p[2], p[3])
IsQueued(clients, p) ==
  /\ p[1] \in Token /\ p[2] \in Cid
  /\ clients[p[1]].connected => Awaits(clients[p[1]], p[2], p[3])

\* kept.filed is to stay in the state file, kept.stored in the sessions and
\* kept.queued in the queues.
Staying(filed, stored, queued) == [filed |-> filed, stored |-> stored, queued |-> queued]
Nothing == Staying({}, {}, {})

Keeps(x) ==
  {b \in GoodBroker(x.msgs) :
     /\ b.dirty \/ Snapshot(b) = x.file
     /\ \A p \in x.kept.stored : IsStored(b.sessions, p)
     /\ \A p \in x.kept.queued : IsQueued(b.clients, p)
     /\ \A u \in Token : Connected(b, u) =>
          /\ u \in x.live /\ u < b.next_token
          /\ b.clients[u].clean_disconnect => u \in x.leaving
     /\ b.next_token \in x.next}

\* A client may be put in another one's place.
LEMMA KeepsClient ==
  ASSUME NEW x, NEW b \in Keeps(x),
         NEW t \in Token, NEW client \in GoodClient(x.msgs),
         client.connected => /\ t \in x.live /\ t < b.next_token
                             /\ client.clean_disconnect => t \in x.leaving,
         \A p \in x.kept.queued : p[1] = t /\ client.connected => Awaits(client, p[2], p[3])
  PROVE  [b EXCEPT !.clients[t] = client] \in Keeps(x)
<1> DEFINE a == [b EXCEPT !.clients[t] = client]
<1>1. b \in GoodBroker(x.msgs)
  BY DEF Keeps
<1>2. a \in GoodBroker(x.msgs)
  BY <1>1 DEF GoodBroker
<1>3. /\ a.clients = [b.clients EXCEPT ![t] = client] /\ a.next_token = b.next_token
      /\ a.dirty = b.dirty /\ a.sessions = b.sessions /\ a.retained = b.retained
  BY <1>1 DEF GoodBroker
<1>4. Snapshot(a) = Snapshot(b)
  BY <1>3 DEF Snapshot
<1>5. \A u \in Token : Connected(a, u) =>
        u \in x.live /\ u < a.next_token /\ (a.clients[u].clean_disconnect => u \in x.leaving)
  BY <1>1, <1>3 DEF Keeps, GoodBroker, Connected
<1>6. \A p \in x.kept.queued : IsQueued(a.clients, p)
  <2>1. ASSUME NEW p \in x.kept.queued PROVE IsQueued(a.clients, p)
    <3>1. IsQueued(b.clients, p) /\ DOMAIN b.clients = Token
      BY <1>1 DEF Keeps, GoodBroker
    <3>2. a.clients[p[1]] = IF p[1] = t THEN client ELSE b.clients[p[1]]
      BY <1>3, <3>1 DEF IsQueued
    <3>3. QED
      BY <3>1, <3>2 DEF IsQueued
  <2>2. QED
    BY <2>1
<1> HIDE DEF a
<1>7. QED
  BY <1>2, <1>3, <1>4, <1>5, <1>6 DEF Keeps, a

\* The subscriptions may be replaced.
LEMMA KeepsSubs ==
  ASSUME NEW x, NEW b \in Keeps(x),
         NEW subs \in Seq(SubType)
  PROVE  [b EXCEPT !.subs = subs] \in Keeps(x)
<1> DEFINE a == [b EXCEPT !.subs = subs]
<1>1. b \in GoodBroker(x.msgs)
  BY DEF Keeps
<1>2. a \in GoodBroker(x.msgs)
  BY <1>1 DEF GoodBroker
<1>3. /\ a.clients = b.clients /\ a.dirty = b.dirty /\ a.sessions = b.sessions
      /\ a.retained = b.retained /\ a.next_token = b.next_token
  BY <1>1 DEF GoodBroker
<1>4. Snapshot(a) = Snapshot(b) /\ \A u \in Token : Connected(a, u) = Connected(b, u)
  BY <1>3 DEF Snapshot, Connected
<1> HIDE DEF a
<1>5. QED
  BY <1>2, <1>3, <1>4 DEF Keeps, a

\* A method that raises the dirty flag may change what is saved, if it leaves
\* what is stored for absent clients.
LEMMA KeepsRetained ==
  ASSUME NEW x, NEW b \in Keeps(x), NEW retained \in RetainedType
  PROVE  [b EXCEPT !.retained = retained, !.dirty = TRUE] \in Keeps(x)
<1> DEFINE a == [b EXCEPT !.retained = retained, !.dirty = TRUE]
<1>1. b \in GoodBroker(x.msgs)
  BY DEF Keeps
<1>2. a \in GoodBroker(x.msgs)
  BY <1>1 DEF GoodBroker
<1>3. a.clients = b.clients /\ a.dirty /\ a.sessions = b.sessions /\ a.next_token = b.next_token
  BY <1>1 DEF GoodBroker
<1>4. \A u \in Token : Connected(a, u) = Connected(b, u)
  BY <1>3 DEF Connected
<1> HIDE DEF a
<1>5. QED
  BY <1>2, <1>3, <1>4 DEF Keeps, a

\* The sessions may be replaced, dirty flag up, if they still hold what is kept.
LEMMA KeepsSessions ==
  ASSUME NEW x, NEW b \in Keeps(x), NEW sessions \in [Cid -> GoodSession(x.msgs)],
         \A p \in x.kept.stored : IsStored(sessions, p)
  PROVE  [b EXCEPT !.sessions = sessions, !.dirty = TRUE] \in Keeps(x)
<1> DEFINE a == [b EXCEPT !.sessions = sessions, !.dirty = TRUE]
<1>1. b \in GoodBroker(x.msgs)
  BY DEF Keeps
<1>2. a \in GoodBroker(x.msgs)
  BY <1>1 DEF GoodBroker
<1>3. a.clients = b.clients /\ a.dirty /\ a.sessions = sessions /\ a.next_token = b.next_token
  BY <1>1 DEF GoodBroker
<1>4. \A u \in Token : Connected(a, u) = Connected(b, u)
  BY <1>3 DEF Connected
<1> HIDE DEF a
<1>5. QED
  BY <1>2, <1>3, <1>4 DEF Keeps, a

----------------------------------------------------------------------------
(* deliver_to.                                                             *)

\* A queue of entries is a queue in the sense of the lemmas about ClientQueue.
LEMMA EntryQueue ==
  ASSUME NEW M, NEW q \in Seq(EntryOf(M))
  PROVE  q \in QueueOf({e.pkt : e \in EntryOf(M)})
<1> DEFINE E == [rel : BOOLEAN, pkt : {e.pkt : e \in EntryOf(M)}]
<1>1. EntryOf(M) \subseteq E
  BY DEF EntryOf
<1>2. QueueOf({e.pkt : e \in EntryOf(M)}) = Seq(E)
  BY DEF QueueOf
<1>3. Len(q) \in Nat /\ DOMAIN q = 1 .. Len(q) /\ q = [i \in 1 .. Len(q) |-> q[i]]
  BY LenProperties
<1>4. \A i \in 1 .. Len(q) : q[i] \in E
  BY <1>1, ElementOfSeq
<1> HIDE DEF E
<1>5. q \in Seq(E)
  BY <1>3, <1>4
<1>6. QED
  BY <1>2, <1>5

\* push_back makes a queue one entry longer.
LEMMA AppendEntry ==
  ASSUME NEW M, NEW q \in Seq(EntryOf(M)), NEW e \in EntryOf(M)
  PROVE  Append(q, e) \in Seq(EntryOf(M)) /\ Len(Append(q, e)) = Len(q) + 1
BY AppendProperties

\* No reliable entry is lost on the way from one queue to another.
Retains(queue, next) == \A e \in ToSet(queue) : e.rel => e \in ToSet(next)

LEMMA AppendRetains ==
  ASSUME NEW S, NEW q \in Seq(S), NEW e \in S
  PROVE  Retains(q, Append(q, e)) /\ e \in ToSet(Append(q, e))
<1> DEFINE a == Append(q, e)
<1>1. /\ a \in Seq(S) /\ Len(a) = Len(q) + 1 /\ a[Len(q) + 1] = e
      /\ \A i \in 1 .. Len(q) : a[i] = q[i]
  BY AppendProperties
<1>2. Len(q) \in Nat /\ DOMAIN q = 1 .. Len(q) /\ DOMAIN a = 1 .. Len(a)
  BY <1>1, LenProperties
<1> HIDE DEF a
<1>3. \A i \in DOMAIN q : i \in DOMAIN a /\ a[i] = q[i]
  BY <1>1, <1>2
<1>4. Len(q) + 1 \in DOMAIN a
  BY <1>1, <1>2
<1>5. Retains(q, a) /\ e \in ToSet(a)
  BY <1>1, <1>3, <1>4 DEF Retains, ToSet
<1>6. QED
  BY <1>5 DEF a

\* The entries behind the one that is removed move up.
LEMMA DropAtIs ==
  ASSUME NEW S, NEW q \in Seq(S), NEW k \in 1 .. Len(q)
  PROVE  /\ DropAt(q, k) \in Seq(S) /\ Len(DropAt(q, k)) = Len(q) - 1
         /\ \A i \in 1 .. Len(q) - 1 : DropAt(q, k)[i] = IF i < k THEN q[i] ELSE q[i + 1]
<1> DEFINE n == Len(q)
           s == SubSeq(q, 1, k - 1)
           t == SubSeq(q, k + 1, n)
           d == s \o t
<1>1. n \in Nat /\ k \in 1 .. n /\ \A j \in 1 .. n : q[j] \in S
  BY LenProperties, ElementOfSeq
<1> HIDE DEF n
<1>2. s \in Seq(S) /\ Len(s) = k - 1 /\ \A j \in 1 .. k - 1 : s[j] = q[j]
  <2>1. 1 \in Int /\ k - 1 \in Int /\ \A j \in 1 .. k - 1 : q[j] \in S
    BY <1>1
  <2>2. /\ s \in Seq(S) /\ Len(s) = IF 1 <= k - 1 THEN (k - 1) - 1 + 1 ELSE 0
        /\ \A j \in 1 .. (k - 1) - 1 + 1 : s[j] = q[1 + j - 1]
    BY <2>1, SubSeqProperties
  <2> HIDE DEF s
  <2>3. QED
    BY <1>1, <2>2
<1>3. t \in Seq(S) /\ Len(t) = n - k /\ \A j \in 1 .. n - k : t[j] = q[k + j]
  <2>1. k + 1 \in Int /\ n \in Int /\ \A j \in k + 1 .. n : q[j] \in S
    BY <1>1
  <2>2. /\ t \in Seq(S) /\ Len(t) = IF k + 1 <= n THEN n - (k + 1) + 1 ELSE 0
        /\ \A j \in 1 .. n - (k + 1) + 1 : t[j] = q[k + 1 + j - 1]
    BY <2>1, SubSeqProperties
  <2> HIDE DEF t
  <2>3. n - (k + 1) + 1 = n - k /\ Len(t) = n - k
    BY <1>1, <2>2
  <2>4. ASSUME NEW j \in 1 .. n - k PROVE t[j] = q[k + j]
    <3>1. j \in 1 .. n - (k + 1) + 1 /\ k + 1 + j - 1 = k + j
      BY <1>1
    <3>2. t[j] = q[k + 1 + j - 1]
      BY <2>2, <3>1
    <3>3. QED
      BY <3>1, <3>2
  <2>5. QED
    BY <2>2, <2>3, <2>4
<1>4. DropAt(q, k) = d
  BY DEF DropAt, d, s, t, n
<1> HIDE DEF s, t
<1>5. /\ d \in Seq(S) /\ Len(d) = Len(s) + Len(t)
      /\ \A j \in 1 .. Len(s) + Len(t) : d[j] = IF j <= Len(s) THEN s[j] ELSE t[j - Len(s)]
  BY <1>2, <1>3, ConcatProperties
<1>6. DOMAIN d = 1 .. Len(d)
  BY <1>5, LenProperties
<1> HIDE DEF d
<1>7. ASSUME NEW i \in 1 .. n - 1 PROVE d[i] = IF i < k THEN q[i] ELSE q[i + 1]
  <2>1. CASE i < k
    <3>1. i \in 1 .. Len(s) + Len(t) /\ i <= Len(s) /\ i \in 1 .. k - 1
      BY <1>1, <1>2, <1>3, <2>1
    <3>2. QED
      BY <1>2, <1>5, <2>1, <3>1
  <2>2. CASE ~(i < k)
    <3>1. i \in 1 .. Len(s) + Len(t) /\ ~(i <= Len(s)) /\ i - Len(s) = i + 1 - k
      BY <1>1, <1>2, <1>3, <2>2
    <3>2. i + 1 - k \in 1 .. n - k /\ k + (i + 1 - k) = i + 1
      BY <1>1, <2>2
    <3>3. d[i] = t[i + 1 - k] /\ t[i + 1 - k] = q[i + 1]
      BY <1>3, <1>5, <3>1, <3>2
    <3>4. QED
      BY <2>2, <3>3
  <2>3. QED
    BY <2>1, <2>2
<1>8. Len(d) = n - 1
  BY <1>1, <1>2, <1>3, <1>5
<1>9. QED
  BY <1>4, <1>5, <1>7, <1>8 DEF n

\* VecDeque::remove loses the one entry.
LEMMA DropAtRetains ==
  ASSUME NEW S, NEW q \in Seq(S), NEW k \in 1 .. Len(q)
  PROVE  \A i \in 1 .. Len(q) : i # k => q[i] \in ToSet(DropAt(q, k))
<1> DEFINE d == DropAt(q, k)
<1>1. /\ d \in Seq(S) /\ Len(d) = Len(q) - 1
      /\ \A i \in 1 .. Len(q) - 1 : d[i] = IF i < k THEN q[i] ELSE q[i + 1]
  BY DropAtIs
<1>2. Len(q) \in Nat /\ DOMAIN d = 1 .. Len(q) - 1
  BY <1>1, LenProperties
<1> HIDE DEF d
<1>3. ASSUME NEW i \in 1 .. Len(q), i # k PROVE q[i] \in ToSet(d)
  <2>1. CASE i < k
    <3>1. i \in DOMAIN d /\ d[i] = q[i]
      BY <1>1, <1>2, <2>1
    <3>2. QED
      BY <3>1 DEF ToSet
  <2>2. CASE i > k
    <3>1. i - 1 \in DOMAIN d /\ d[i - 1] = q[i]
      BY <1>1, <1>2, <2>2
    <3>2. QED
      BY <3>1 DEF ToSet
  <2>3. QED
    BY <1>2, <1>3, <2>1, <2>2
<1>4. QED
  BY <1>3 DEF d

\* The lemmas combine along a chain of queues.
LEMMA RetainsOnward ==
  /\ \A q : Retains(q, q)
  /\ \A q, r, t : Retains(q, r) /\ Retains(r, t) => Retains(q, t)
BY DEF Retains

\* queue_qos0 drops the packet when the queue is full.
LEMMA Queue0Entries ==
  ASSUME NEW M, NEW q \in Seq(EntryOf(M)), NEW pkt, Queued(FALSE, pkt) \in EntryOf(M),
         Len(q) <= WRITE_QUEUE_CAP
  PROVE  /\ Queue0(q, pkt) \in Seq(EntryOf(M)) /\ Len(Queue0(q, pkt)) <= WRITE_QUEUE_CAP
         /\ Retains(q, Queue0(q, pkt))
<1>1. Len(q) \in Nat /\ WRITE_QUEUE_CAP \in Nat
  BY LenProperties, CapAssumption
<1>2. /\ Append(q, Queued(FALSE, pkt)) \in Seq(EntryOf(M))
      /\ Len(Append(q, Queued(FALSE, pkt))) = Len(q) + 1
  BY AppendEntry
<1>3. CASE Accepts0(q)
  <2> DEFINE a == Append(q, Queued(FALSE, pkt))
  <2>1. a \in Seq(EntryOf(M)) /\ Len(a) = Len(q) + 1 /\ Retains(q, a)
    BY <1>2, AppendRetains
  <2>2. Len(q) < WRITE_QUEUE_CAP /\ Queue0(q, pkt) = a
    BY <1>3 DEF Queue0, Accepts0
  <2> HIDE DEF a
  <2>3. QED
    BY <1>1, <2>1, <2>2
<1>4. CASE ~Accepts0(q)
  BY <1>4, RetainsOnward DEF Queue0
<1>5. QED
  BY <1>3, <1>4

\* queue_qos1 evicts an entry for the packet it admits to a full queue.
LEMMA Queue1Entries ==
  ASSUME NEW M, NEW q \in Seq(EntryOf(M)), NEW pkt, Queued(TRUE, pkt) \in EntryOf(M),
         Len(q) <= WRITE_QUEUE_CAP, Accepts1(q)
  PROVE  /\ Queue1(q, pkt) \in Seq(EntryOf(M)) /\ Len(Queue1(q, pkt)) <= WRITE_QUEUE_CAP
         /\ Retains(q, Queue1(q, pkt))
         /\ Queued(TRUE, pkt) \in ToSet(Queue1(q, pkt))
<1>1. Len(q) \in Nat /\ WRITE_QUEUE_CAP \in Nat
  BY LenProperties, CapAssumption
<1>2. Evict(q) \in Seq(EntryOf(M)) /\ Len(Evict(q)) < WRITE_QUEUE_CAP /\ Retains(q, Evict(q))
  <2>1. CASE Accepts0(q)
    BY <2>1, RetainsOnward DEF Evict, Accepts0
  <2>2. CASE ~Accepts0(q)
    <3>1. \E i \in DOMAIN q : ~q[i].rel
      BY <2>2 DEF Accepts1
    <3>2. FirstQos0(q) \in 1 .. Len(q) /\ ~q[FirstQos0(q)].rel
      BY <3>1, EntryQueue, FirstQos0Found
    <3>3. /\ DropAt(q, FirstQos0(q)) \in Seq(EntryOf(M))
          /\ Len(DropAt(q, FirstQos0(q))) = Len(q) - 1
      BY <3>2, DropAtShorter
    <3>4. Evict(q) = DropAt(q, FirstQos0(q))
      BY <2>2 DEF Evict
    <3>5. Retains(q, DropAt(q, FirstQos0(q)))
      <4>1. DOMAIN q = 1 .. Len(q)
        BY LenProperties
      <4>2. QED
        BY <3>2, <4>1, DropAtRetains DEF Retains, ToSet
    <3>6. QED
      BY <1>1, <3>3, <3>4, <3>5
  <2>3. QED
    BY <2>1, <2>2
<1> DEFINE r == Evict(q)
           a == Append(r, Queued(TRUE, pkt))
<1>3. Queue1(q, pkt) = a
  BY DEF Queue1
<1>4. /\ a \in Seq(EntryOf(M)) /\ Len(a) = Len(r) + 1
      /\ Retains(r, a) /\ Queued(TRUE, pkt) \in ToSet(a)
  BY <1>2, AppendEntry, AppendRetains
<1> HIDE DEF a
<1>5. Len(r) \in Nat
  BY <1>2, LenProperties
<1> HIDE DEF r
<1>6. Len(r) < WRITE_QUEUE_CAP /\ Retains(q, a)
  BY <1>2, <1>4, RetainsOnward DEF r
<1>7. Len(a) <= WRITE_QUEUE_CAP
  BY <1>1, <1>4, <1>5, <1>6
<1>8. QED
  BY <1>3, <1>4, <1>6, <1>7

\* What is known of the client a token stands for, if it has one.
LEMMA ConnectedClient ==
  ASSUME NEW M, NEW client \in GoodClient(M), client.connected
  PROVE  /\ client \in ConnectedOf(M)
         /\ Len(client.write_queue) <= WRITE_QUEUE_CAP
         /\ IsFiniteSet(client.in_flight) /\ Cardinality(client.in_flight) <= IN_FLIGHT_CAP
<1>1. client # Gone
  BY DEF Gone
<1>2. QED
  BY <1>1 DEF GoodClient

\* A token without a client is in good order.
LEMMA GoneGood == \A M : Gone \in GoodClient(M) /\ ~Gone.connected
BY DEF Gone, GoodClient

\* The entry of a token in the table of clients.
LEMMA ClientOf ==
  ASSUME NEW x, NEW b \in Keeps(x), NEW t \in Token
  PROVE  /\ b.clients[t] \in GoodClient(x.msgs)
         /\ Connected(b, t) = b.clients[t].connected
         /\ b.clients[t].connected =>
              /\ t \in x.live /\ t < b.next_token
              /\ b.clients[t].clean_disconnect => t \in x.leaving
         /\ b.clients[t].connected =>
              \A p \in x.kept.queued : p[1] = t => p[2] \in Cid /\ Awaits(b.clients[t], p[2], p[3])
BY DEF Keeps, GoodBroker, Connected, IsQueued

\* What is known of a connected client.
LEMMA LiveClient ==
  ASSUME NEW x, NEW b \in Keeps(x), NEW t \in Token, Connected(b, t)
  PROVE  /\ b.clients[t] \in ConnectedOf(x.msgs)
         /\ Len(b.clients[t].write_queue) <= WRITE_QUEUE_CAP
         /\ IsFiniteSet(b.clients[t].in_flight)
         /\ Cardinality(b.clients[t].in_flight) <= IN_FLIGHT_CAP
BY ClientOf, ConnectedClient

\* clients.remove.
LEMMA DropKeeps ==
  ASSUME NEW x, NEW b \in Keeps(x), NEW t \in Token
  PROVE  /\ Drop(b, t) \in Keeps(x)
         /\ Drop(b, t).subs = b.subs
         /\ ~Connected(Drop(b, t), t)
<1>1. Drop(b, t) \in Keeps(x)
  BY GoneGood, KeepsClient DEF Drop
<1>2. b \in GoodBroker(x.msgs)
  BY DEF Keeps
<1>3. Drop(b, t).subs = b.subs /\ Drop(b, t).clients[t] = Gone
  BY <1>2 DEF Drop, GoodBroker
<1>4. QED
  BY <1>1, <1>3, GoneGood DEF Connected

\* The same connection, some calls later: its queue has lost nothing of what is
\* reliable.
Continues(client, next) ==
  /\ next.cid = client.cid /\ next.clean_session = client.clean_session
  /\ Retains(client.write_queue, next.write_queue)

LEMMA StillAwaits ==
  ASSUME NEW client, NEW next, Continues(client, next), NEW c, NEW m, Awaits(client, c, m)
  PROVE  Awaits(next, c, m)
BY DEF Continues, Retains, Awaits

\* A client record may be replaced by one that is within the limits and of the
\* same standing.
LEMMA ReplaceKeeps ==
  ASSUME NEW x, NEW b \in Keeps(x), NEW t \in Token, Connected(b, t),
         NEW client \in ConnectedOf(x.msgs),
         Len(client.write_queue) <= WRITE_QUEUE_CAP,
         IsFiniteSet(client.in_flight), Cardinality(client.in_flight) <= IN_FLIGHT_CAP,
         client.clean_disconnect = b.clients[t].clean_disconnect,
         \A p \in x.kept.queued : p[1] # t \/ Continues(b.clients[t], client)
  PROVE  /\ [b EXCEPT !.clients[t] = client] \in Keeps(x)
         /\ [b EXCEPT !.clients[t] = client].subs = b.subs
         /\ Connected([b EXCEPT !.clients[t] = client], t)
<1> DEFINE a == [b EXCEPT !.clients[t] = client]
<1>1. client \in GoodClient(x.msgs) /\ client.connected
  BY DEF GoodClient, ConnectedOf
<1>2. a \in Keeps(x)
  <2>1. \A p \in x.kept.queued : p[1] = t => Awaits(client, p[2], p[3])
    BY ClientOf, StillAwaits
  <2>2. QED
    BY <1>1, <2>1, ClientOf, KeepsClient
<1>3. b \in GoodBroker(x.msgs)
  BY DEF Keeps
<1>4. a.subs = b.subs /\ a.clients[t] = client
  BY <1>3 DEF GoodBroker
<1>5. QED
  BY <1>1, <1>2, <1>4 DEF Connected

\* The same when only the queue is replaced.
LEMMA QueueKeeps ==
  ASSUME NEW x, NEW b \in Keeps(x), NEW t \in Token, Connected(b, t),
         NEW q \in Seq(EntryOf(x.msgs)), Len(q) <= WRITE_QUEUE_CAP,
         \A p \in x.kept.queued : p[1] # t \/ Retains(b.clients[t].write_queue, q)
  PROVE  /\ [b EXCEPT !.clients[t].write_queue = q] \in Keeps(x)
         /\ [b EXCEPT !.clients[t].write_queue = q].subs = b.subs
         /\ Connected([b EXCEPT !.clients[t].write_queue = q], t)
<1> DEFINE client == [b.clients[t] EXCEPT !.write_queue = q]
<1>1. b \in GoodBroker(x.msgs)
  BY DEF Keeps
<1>2. [b EXCEPT !.clients[t].write_queue = q] = [b EXCEPT !.clients[t] = client]
  BY <1>1 DEF GoodBroker
<1>3. b.clients[t] \in ConnectedOf(x.msgs)
  BY LiveClient
<1>4. /\ client \in ConnectedOf(x.msgs) /\ client.write_queue = q
      /\ client.in_flight = b.clients[t].in_flight
      /\ client.clean_disconnect = b.clients[t].clean_disconnect
  BY <1>3 DEF ConnectedOf
<1>5. IsFiniteSet(client.in_flight) /\ Cardinality(client.in_flight) <= IN_FLIGHT_CAP
  BY <1>4, LiveClient
<1>6. \A p \in x.kept.queued : p[1] # t \/ Continues(b.clients[t], client)
  BY <1>3 DEF Continues, ConnectedOf
<1> HIDE DEF client
<1>7. QED
  BY <1>2, <1>4, <1>5, <1>6, ReplaceKeeps

\* An acknowledgement is queued, or dropped by a full queue.
LEMMA QueueReplyKeeps ==
  ASSUME NEW x, NEW b \in Keeps(x), NEW t \in Token, Connected(b, t)
  PROVE  /\ QueueReply(b, t) \in Keeps(x)
         /\ QueueReply(b, t).subs = b.subs
         /\ Connected(QueueReply(b, t), t)
<1> DEFINE q == Queue0(b.clients[t].write_queue, Reply)
<1>1. b.clients[t].write_queue \in Seq(EntryOf(x.msgs)) /\ Len(b.clients[t].write_queue) <= WRITE_QUEUE_CAP
  BY LiveClient DEF ConnectedOf
<1>2. Queued(FALSE, Reply) \in EntryOf(x.msgs)
  BY DEF Queued, EntryOf
<1>3. q \in Seq(EntryOf(x.msgs)) /\ Len(q) <= WRITE_QUEUE_CAP /\ Retains(b.clients[t].write_queue, q)
  BY <1>1, <1>2, Queue0Entries
<1>4. QueueReply(b, t) = [b EXCEPT !.clients[t].write_queue = q]
  BY DEF QueueReply
<1> HIDE DEF q
<1>5. QED
  BY <1>3, <1>4, QueueKeeps

\* It costs the client nothing that is reliable.
LEMMA QueueReplyContinues ==
  ASSUME NEW x, NEW b \in Keeps(x), NEW t \in Token, Connected(b, t)
  PROVE  Continues(b.clients[t], QueueReply(b, t).clients[t])
<1> DEFINE q == Queue0(b.clients[t].write_queue, Reply)
<1>1. b.clients[t].write_queue \in Seq(EntryOf(x.msgs)) /\ Len(b.clients[t].write_queue) <= WRITE_QUEUE_CAP
  BY LiveClient DEF ConnectedOf
<1>2. Queued(FALSE, Reply) \in EntryOf(x.msgs)
  BY DEF Queued, EntryOf
<1>3. Retains(b.clients[t].write_queue, q)
  BY <1>1, <1>2, Queue0Entries
<1>4. QueueReply(b, t).clients[t] = [b.clients[t] EXCEPT !.write_queue = q]
  BY DEF QueueReply, Keeps, GoodBroker
<1> HIDE DEF q
<1>5. b.clients[t] \in ConnectedOf(x.msgs)
  BY LiveClient
<1>6. QED
  BY <1>3, <1>4, <1>5 DEF Continues, ConnectedOf

\* deliver_to keeps the broker in good order, leaves the subscriptions to its
\* caller, and when it returns Ok has not dropped the client.
LEMMA DeliverToKeeps ==
  ASSUME NEW x, NEW b \in Keeps(x), NEW t \in Token,
         NEW m \in Msg, NEW qos \in 0..2, qos > 0 => m \in x.msgs
  PROVE  /\ DeliverTo(b, t, m, qos).b \in Keeps(x)
         /\ DeliverTo(b, t, m, qos).b.subs = b.subs
         /\ DeliverTo(b, t, m, qos).ok \in BOOLEAN
         /\ DeliverTo(b, t, m, qos).ok => Connected(DeliverTo(b, t, m, qos).b, t)
<1> DEFINE client == b.clients[t]
           pkt == Forward(m, qos, client.next_pid)
           queued == [client EXCEPT !.write_queue = Queue1(@, pkt),
                                    !.in_flight = @ \cup {pkt},
                                    !.next_pid = @ + 1]
           done == DeliverTo(b, t, m, qos)
<1>1. CASE ~client.connected
  BY <1>1 DEF DeliverTo
<1>2. CASE client.connected /\ qos = 0
  <2> DEFINE q == Queue0(client.write_queue, Forward(m, 0, 0))
             a == [b EXCEPT !.clients[t].write_queue = q]
  <2>1. Connected(b, t)
    BY <1>2 DEF Connected
  <2>2. client.write_queue \in Seq(EntryOf(x.msgs)) /\ Len(client.write_queue) <= WRITE_QUEUE_CAP
    BY <2>1, LiveClient DEF ConnectedOf
  <2>3. Queued(FALSE, Forward(m, 0, 0)) \in EntryOf(x.msgs)
    BY DEF Queued, EntryOf, Forward
  <2>4. q \in Seq(EntryOf(x.msgs)) /\ Len(q) <= WRITE_QUEUE_CAP /\ Retains(b.clients[t].write_queue, q)
    BY <2>2, <2>3, Queue0Entries
  <2>5. done.b = a /\ done.ok \in BOOLEAN
    <3>1. ~(qos > 0)
      BY <1>2
    <3>2. done = [b |-> a, ok |-> Accepts0(client.write_queue)]
      BY <1>2, <3>1 DEF DeliverTo
    <3>3. Accepts0(client.write_queue) \in BOOLEAN
      BY DEF Accepts0
    <3>4. QED
      BY <3>2, <3>3
  <2> HIDE DEF q, client, done
  <2>6. a \in Keeps(x) /\ a.subs = b.subs /\ Connected(a, t)
    BY <2>1, <2>4, QueueKeeps
  <2>7. QED
    BY <2>5, <2>6 DEF done
<1>3. CASE client.connected /\ qos > 0 /\ ~(HasPid(client) /\ Accepts1(client.write_queue))
  <2>1. done = [b |-> Drop(b, t), ok |-> FALSE]
    BY <1>3 DEF DeliverTo
  <2>2. QED
    BY <2>1, DropKeeps
<1>4. CASE client.connected /\ qos > 0 /\ HasPid(client) /\ Accepts1(client.write_queue)
  <2> DEFINE q == Queue1(client.write_queue, pkt)
             next == client.next_pid + 1
  <2>1. Connected(b, t)
    BY <1>4 DEF Connected
  <2>2. /\ client \in ConnectedOf(x.msgs)
        /\ Len(client.write_queue) <= WRITE_QUEUE_CAP
        /\ IsFiniteSet(client.in_flight)
    BY <2>1, LiveClient
  <2>3. pkt \in PacketOf(x.msgs) /\ pkt \in PacketOf(Msg)
    <3>1. client.next_pid \in Pid
      <4>1. client.next_pid \in Nat \ {0} /\ client.next_pid <= MAX_PID /\ MAX_PID \in Nat
        BY <1>4, <2>2, CapAssumption DEF ConnectedOf, HasPid
      <4>2. QED
        BY <4>1 DEF Pid
    <3>2. m \in x.msgs /\ qos \in 1..2
      BY <1>4
    <3>3. QED
      BY <3>1, <3>2 DEF PacketOf, Forward
  <2>4. Queued(TRUE, pkt) \in EntryOf(x.msgs)
    BY <2>3 DEF Queued, EntryOf
  <2>5. client.write_queue \in Seq(EntryOf(x.msgs)) /\ Accepts1(client.write_queue)
    BY <1>4, <2>2 DEF ConnectedOf
  <2>6. q \in Seq(EntryOf(x.msgs)) /\ Len(q) <= WRITE_QUEUE_CAP /\ Retains(client.write_queue, q)
    BY <2>2, <2>4, <2>5, Queue1Entries
  <2>7. next \in Nat \ {0}
    <3>1. client.next_pid \in Nat
      BY <2>2 DEF ConnectedOf
    <3>2. QED
      BY <3>1
  <2> HIDE DEF pkt, q, next
  <2>8. queued = [client EXCEPT !.write_queue = q, !.in_flight = @ \cup {pkt}, !.next_pid = next]
    BY DEF q, next
  <2> HIDE DEF queued
  <2>9. /\ queued \in ConnectedOf(x.msgs)
        /\ queued.write_queue = q /\ queued.in_flight = client.in_flight \cup {pkt}
        /\ queued.clean_disconnect = client.clean_disconnect
        /\ queued.cid = client.cid /\ queued.clean_session = client.clean_session
    BY <2>2, <2>3, <2>6, <2>8, <2>7 DEF ConnectedOf
  <2>10. /\ IsFiniteSet(client.in_flight \cup {pkt})
        /\ Cardinality(client.in_flight \cup {pkt}) <= IN_FLIGHT_CAP
    <3>1. Cardinality(client.in_flight) \in Nat /\ Cardinality(client.in_flight) < IN_FLIGHT_CAP
      BY <1>4, <2>2, FS_CardinalityType DEF HasPid
    <3> DEFINE w == client.in_flight
    <3>2. IsFiniteSet(w)
      BY <2>2
    <3> HIDE DEF w, client
    <3>3. /\ IsFiniteSet(w \cup {pkt})
          /\ Cardinality(w \cup {pkt}) = IF pkt \in w THEN Cardinality(w) ELSE Cardinality(w) + 1
      BY <3>2, FS_AddElement
    <3>4. QED
      BY <3>1, <3>3, CapAssumption DEF w
  <2>11. done = [b |-> [b EXCEPT !.clients[t] = queued], ok |-> TRUE]
    BY <1>4 DEF DeliverTo, pkt, queued
  <2> DEFINE a == [b EXCEPT !.clients[t] = queued]
  <2> HIDE DEF done
  <2>12. /\ [b EXCEPT !.clients[t] = queued] \in Keeps(x)
         /\ [b EXCEPT !.clients[t] = queued].subs = b.subs
         /\ Connected([b EXCEPT !.clients[t] = queued], t)
    <3>1. Continues(client, queued)
      BY <2>6, <2>9 DEF Continues
    <3>2. QED
      BY <2>1, <2>6, <2>9, <2>10, <2>2, <3>1, ReplaceKeeps
  <2>13. done.b = a /\ done.ok = TRUE
    BY <2>11
  <2> HIDE DEF a
  <2>14. a \in Keeps(x) /\ a.subs = b.subs /\ Connected(a, t)
    BY <2>12 DEF a
  <2>15. QED
    BY <2>13, <2>14 DEF done
<1>5. QED
  BY <1>1, <1>2, <1>3, <1>4

\* When deliver_to returns Ok, the client has kept what it had, and a message at
\* QoS1/2 is in its queue.
LEMMA DeliverToHands ==
  ASSUME NEW x, NEW b \in Keeps(x), NEW t \in Token,
         NEW m \in Msg, NEW qos \in 0..2, qos > 0 => m \in x.msgs,
         DeliverTo(b, t, m, qos).ok
  PROVE  /\ Continues(b.clients[t], DeliverTo(b, t, m, qos).b.clients[t])
         /\ qos > 0 => \E e \in ToSet(DeliverTo(b, t, m, qos).b.clients[t].write_queue) :
                         e.rel /\ e.pkt.msg = m
<1> DEFINE client == b.clients[t]
           pkt == Forward(m, qos, client.next_pid)
           q0 == Queue0(client.write_queue, Forward(m, 0, 0))
           q1 == Queue1(client.write_queue, pkt)
           queued == [client EXCEPT !.write_queue = Queue1(@, pkt),
                                    !.in_flight = @ \cup {pkt},
                                    !.next_pid = @ + 1]
           done == DeliverTo(b, t, m, qos)
<1>1. client.connected
  BY DEF DeliverTo
<1>2. /\ client \in ConnectedOf(x.msgs)
      /\ client.write_queue \in Seq(EntryOf(x.msgs)) /\ Len(client.write_queue) <= WRITE_QUEUE_CAP
  BY <1>1, LiveClient DEF Connected, ConnectedOf
<1>3. CASE qos = 0
  <2>1. ~(qos > 0)
    BY <1>3
  <2>2. done.b = [b EXCEPT !.clients[t].write_queue = Queue0(@, Forward(m, 0, 0))]
    BY <1>1, <1>3, <2>1 DEF DeliverTo
  <2>3. done.b.clients[t] = [client EXCEPT !.write_queue = q0]
    BY <2>2 DEF Keeps, GoodBroker
  <2>4. Queued(FALSE, Forward(m, 0, 0)) \in EntryOf(x.msgs)
    BY DEF Queued, EntryOf, Forward
  <2>5. Retains(client.write_queue, q0)
    BY <1>2, <2>4, Queue0Entries
  <2> HIDE DEF done, q0, client
  <2>6. Continues(client, done.b.clients[t])
    BY <1>2, <2>3, <2>5 DEF Continues, ConnectedOf
  <2>7. QED
    BY <2>1, <2>6 DEF done, client
<1>4. CASE qos > 0
  <2>1. HasPid(client) /\ Accepts1(client.write_queue)
    BY <1>1, <1>4 DEF DeliverTo
  <2>2. done.b = [b EXCEPT !.clients[t] = queued]
    BY <1>1, <1>4, <2>1 DEF DeliverTo
  <2>3. done.b.clients[t] = queued
    <3>1. b \in GoodBroker(x.msgs)
      BY DEF Keeps
    <3> HIDE DEF queued, done
    <3>2. QED
      BY <2>2, <3>1 DEF GoodBroker
  <2>4. pkt \in PacketOf(x.msgs)
    <3>1. client.next_pid \in Pid
      <4>1. client.next_pid \in Nat \ {0} /\ client.next_pid <= MAX_PID /\ MAX_PID \in Nat
        BY <1>2, <2>1, CapAssumption DEF ConnectedOf, HasPid
      <4>2. QED
        BY <4>1 DEF Pid
    <3>2. m \in x.msgs /\ qos \in 1..2
      BY <1>4
    <3>3. QED
      BY <3>1, <3>2 DEF PacketOf, Forward
  <2>5. Queued(TRUE, pkt) \in EntryOf(x.msgs) /\ Queued(TRUE, pkt).rel /\ Queued(TRUE, pkt).pkt.msg = m
    BY <2>4 DEF Queued, EntryOf, Forward
  <2>6. Retains(client.write_queue, q1) /\ Queued(TRUE, pkt) \in ToSet(q1)
    BY <1>2, <2>1, <2>5, Queue1Entries
  <2>7. queued.write_queue = q1 /\ queued.cid = client.cid /\ queued.clean_session = client.clean_session
    BY <1>2 DEF ConnectedOf
  <2> HIDE DEF done, queued, q1, client, pkt
  <2>8. Continues(client, done.b.clients[t])
    BY <2>3, <2>6, <2>7 DEF Continues
  <2>9. \E e \in ToSet(done.b.clients[t].write_queue) : e.rel /\ e.pkt.msg = m
    BY <2>3, <2>5, <2>6, <2>7
  <2>10. QED
    BY <2>8, <2>9 DEF done, client
<1>5. QED
  BY <1>3, <1>4

----------------------------------------------------------------------------
(* publish.                                                                *)

\* A forward is reliable only if the message was published so.
LEMMA LesserQosType ==
  ASSUME NEW a \in 0..2, NEW c \in 0..2
  PROVE  LesserQos(a, c) \in 0..2 /\ (LesserQos(a, c) > 0 => a > 0)
BY DEF LesserQos

\* The retained message of a topic is replaced or removed.
LEMMA RetainKeeps ==
  ASSUME NEW x, NEW b \in Keeps(x), NEW m \in Msg, NEW qos \in 0..2
  PROVE  Retain(b, m, qos) \in Keeps(x)
<1> DEFINE r == [b.retained EXCEPT ![TopicOf[m]] = IF m \in Empty THEN Held(NoMsg, 0) ELSE Held(m, qos)]
<1>1. b \in GoodBroker(x.msgs)
  BY DEF Keeps
<1>2. b.retained \in RetainedType
  BY <1>1 DEF GoodBroker
<1>3. r \in RetainedType
  BY <1>2 DEF RetainedType, HeldType, Held
<1>4. Retain(b, m, qos) = [b EXCEPT !.retained = r, !.dirty = TRUE]
  BY DEF Retain
<1> HIDE DEF r
<1>5. [b EXCEPT !.retained = r, !.dirty = TRUE] \in Keeps(x)
  BY <1>3, KeepsRetained, Zenon
<1>6. QED
  BY <1>4, <1>5

\* The first subscription of a session that matches exists if one does.
LEMMA SessionQosType ==
  ASSUME NEW M, NEW session \in StoredOf(M), NEW m, Wants(session, m)
  PROVE  SessionQos(session, m) \in 0..2
<1> DEFINE subs == session.subs
           I == {i \in 1 .. Len(subs) : Matches(subs[i].filter, m)}
<1>1. subs \in Seq(FilterQos)
  BY DEF StoredOf
<1>2. Len(subs) \in Nat /\ DOMAIN subs = 1 .. Len(subs) /\ \A i \in 1 .. Len(subs) : subs[i] \in FilterQos
  BY <1>1, LenProperties, ElementOfSeq
<1>3. I # {} /\ I \subseteq Nat
  BY <1>2 DEF Wants
<1>4. SessionQos(session, m) = subs[Min(I)].qos
  BY <1>3 DEF SessionQos, SelectInSeq
<1> HIDE DEF I, subs
<1>5. \E i \in I : \A j \in I : i <= j
  BY <1>3, NatMin
<1>6. Min(I) \in I
  BY <1>5 DEF Min
<1>7. Min(I) \in 1 .. Len(subs)
  BY <1>6 DEF I
<1>8. QED
  BY <1>2, <1>4, <1>7 DEF FilterQos

\* What is known of a session that is stored.
LEMMA StoredSession ==
  ASSUME NEW M, NEW session \in GoodSession(M), session.stored
  PROVE  session \in StoredOf(M) /\ Len(session.offline) <= OFFLINE_CAP
<1>1. session # NoSession
  BY DEF NoSession
<1>2. QED
  BY <1>1 DEF GoodSession

\* Offline delivery appends, and only where there is room.
LEMMA StoreOfflineKeeps ==
  ASSUME NEW x, NEW b \in Keeps(x), NEW m \in Msg, NEW qos \in 0..2, qos > 0 => m \in x.msgs
  PROVE  StoreOffline(b, m, qos) \in Keeps(x)
<1> DEFINE takers == {c \in Cid : Wants(b.sessions[c], m) /\ HasRoom(b.sessions[c])}
           held(c) == Held(m, LesserQos(qos, SessionQos(b.sessions[c], m)))
           store(c) == [b.sessions[c] EXCEPT !.offline = Append(@, held(c))]
           sessions == [c \in Cid |-> IF c \in takers THEN store(c) ELSE b.sessions[c]]
           H == [msg : x.msgs, qos : 0..2]
<1>1. CASE qos = 0 \/ takers = {}
  BY <1>1 DEF StoreOffline
<1>2. CASE qos # 0 /\ takers # {}
  <2>1. StoreOffline(b, m, qos) = [b EXCEPT !.sessions = sessions, !.dirty = TRUE]
    BY <1>2 DEF StoreOffline
  <2>2. b \in GoodBroker(x.msgs) /\ \A c \in Cid : b.sessions[c] \in GoodSession(x.msgs)
    BY DEF Keeps, GoodBroker
  <2>3. ASSUME NEW c \in takers
        PROVE  /\ store(c) \in GoodSession(x.msgs) /\ store(c).stored
               /\ \A n, q : Has(b.sessions[c], n, q) => Has(store(c), n, q)
    <3> DEFINE session == b.sessions[c]
               off == session.offline
               new == Append(off, held(c))
    <3>1. session \in StoredOf(x.msgs) /\ Len(off) < OFFLINE_CAP
      BY <2>2, StoredSession DEF Wants, HasRoom
    <3>2. held(c) \in H
      <4>1. LesserQos(qos, SessionQos(session, m)) \in 0..2
        BY <3>1, SessionQosType, LesserQosType
      <4>2. m \in x.msgs
        BY <1>2
      <4>3. QED
        BY <4>1, <4>2 DEF Held
    <3>3. off \in Seq(H)
      BY <3>1 DEF StoredOf
    <3> HIDE DEF H, held
    <3>4. /\ new \in Seq(H) /\ Len(new) = Len(off) + 1
          /\ \A i \in 1 .. Len(off) : new[i] = off[i]
      BY <3>2, <3>3, AppendProperties
    <3>5. Len(off) \in Nat /\ DOMAIN off = 1 .. Len(off) /\ DOMAIN new = 1 .. Len(new)
      BY <3>3, <3>4, LenProperties
    <3> HIDE DEF new
    <3>6. store(c) = [session EXCEPT !.offline = new]
      BY DEF new
    <3>7. store(c) \in StoredOf(x.msgs) /\ store(c).offline = new /\ store(c).stored
      BY <3>1, <3>4, <3>6 DEF StoredOf, H
    <3>8. Len(new) <= OFFLINE_CAP
      BY <3>1, <3>4, <3>5, BrokerAssumption
    <3>9. ASSUME NEW n, NEW q, Has(session, n, q) PROVE Has(store(c), n, q)
      <4>1. PICK i \in 1 .. Len(off) : off[i].msg = n /\ off[i].qos >= q
        BY <3>5, <3>9 DEF Has
      <4>2. i \in DOMAIN new /\ new[i].msg = n /\ new[i].qos >= q
        BY <3>4, <3>5, <4>1
      <4>3. QED
        BY <3>7, <4>2 DEF Has
    <3> HIDE DEF store
    <3>10. QED
      BY <3>7, <3>8, <3>9 DEF GoodSession
  <2> HIDE DEF store
  <2>4. sessions \in [Cid -> GoodSession(x.msgs)]
    BY <2>2, <2>3
  <2>5. \A p \in x.kept.stored : p[1] \in Cid /\ Has(b.sessions[p[1]], p[2], p[3])
    BY DEF Keeps, IsStored
  <2>6. \A p \in x.kept.stored : IsStored(sessions, p)
    BY <2>3, <2>5 DEF IsStored
  <2> HIDE DEF sessions
  <2>7. [b EXCEPT !.sessions = sessions, !.dirty = TRUE] \in Keeps(x)
    BY <2>4, <2>6, KeepsSessions, Zenon
  <2>8. QED
    BY <2>1, <2>7
<1>3. QED
  BY <1>1, <1>2

\* One round of the loop over the matched subscriptions.
Deliver(b, m, qos, i) ==
  LET sub == b.subs[i]
      done == DeliverTo(b, sub.token, m, LesserQos(qos, sub.qos))
  IN  IF done.ok THEN done.b ELSE [done.b EXCEPT !.subs = SwapRemove(@, i)]

\* A round removes at most one subscription.
LEMMA DeliverStep ==
  ASSUME NEW x, NEW b \in Keeps(x), NEW m \in Msg, NEW qos \in 0..2, qos > 0 => m \in x.msgs,
         NEW i \in 1 .. Len(b.subs)
  PROVE  /\ Deliver(b, m, qos, i) \in Keeps(x)
         /\ Len(Deliver(b, m, qos, i).subs) \in {Len(b.subs) - 1, Len(b.subs)}
<1> DEFINE sub == b.subs[i]
           q == LesserQos(qos, sub.qos)
           done == DeliverTo(b, sub.token, m, q)
           a == done.b
           pruned == [a EXCEPT !.subs = SwapRemove(@, i)]
<1>1. b.subs \in Seq(SubType)
  BY DEF Keeps, GoodBroker
<1>2. sub.token \in Token /\ sub.qos \in 0..2
  <2>1. sub \in SubType
    BY <1>1, ElementOfSeq
  <2>2. QED
    BY <2>1 DEF SubType
<1>3. q \in 0..2 /\ (q > 0 => m \in x.msgs)
  BY <1>2, LesserQosType
<1>4. Deliver(b, m, qos, i) = IF done.ok THEN a ELSE pruned
  BY DEF Deliver
<1> HIDE DEF q, sub
<1>5. a \in Keeps(x) /\ a.subs = b.subs
  BY <1>2, <1>3, DeliverToKeeps
<1> HIDE DEF done
<1>6. SwapRemove(b.subs, i) \in Seq(SubType) /\ Len(SwapRemove(b.subs, i)) = Len(b.subs) - 1
  BY <1>1, SwapRemoveType
<1>7. pruned = [a EXCEPT !.subs = SwapRemove(b.subs, i)]
  BY <1>5
<1> HIDE DEF a
<1>8. pruned \in Keeps(x)
  BY <1>5, <1>6, <1>7, KeepsSubs
<1>9. pruned.subs = SwapRemove(b.subs, i)
  BY <1>5, <1>7 DEF Keeps, GoodBroker
<1> HIDE DEF pruned
<1>10. QED
  BY <1>4, <1>5, <1>6, <1>8, <1>9

\* The loop as a run through all positions, the highest first: after k of n
\* positions at least n - k subscriptions are left, so that the positions still
\* to come are in range.
Delivering(run, b, m, qos, x) ==
  /\ run[0] = b /\ run[Len(b.subs)] = DeliverAll(b, m, qos)
  /\ \A k \in 0 .. Len(b.subs) : run[k] \in Keeps(x) /\ Len(run[k].subs) >= Len(b.subs) - k
  /\ \A k \in 1 .. Len(b.subs) :
       run[k] = IF Len(b.subs) + 1 - k \in MatchingSubs(b.subs, m)
                THEN Deliver(run[k - 1], m, qos, Len(b.subs) + 1 - k)
                ELSE run[k - 1]

LEMMA DeliverRun ==
  ASSUME NEW x, NEW b \in Keeps(x), NEW m \in Msg, NEW qos \in 0..2, qos > 0 => m \in x.msgs
  PROVE  \E run : Delivering(run, b, m, qos, x)
<1> DEFINE idxs == MatchingSubs(b.subs, m)
           n == Len(b.subs)
           s == Downward(n)
           B == [k \in 0 .. n |-> {a \in Keeps(x) : Len(a.subs) >= n - k}]
           base == b
           Op(acc, i) == IF i \in idxs THEN Deliver(acc, m, qos, i) ELSE acc
           G == [k \in 1 .. n |-> [acc \in B[k - 1] |-> Op(acc, s[k])]]
           Def(g) == [d \in SUBSET DOMAIN s |->
                        IF d = {} THEN base ELSE Op(g[d \ {Max(d)}], s[Max(d)])]
           h == CHOOSE g : g = Def(g)
<1>1. n \in Nat /\ DOMAIN s = 1 .. n /\ \A k \in 1 .. n : s[k] = n + 1 - k
  <2>1. b.subs \in Seq(SubType)
    BY DEF Keeps, GoodBroker
  <2>2. QED
    BY <2>1, LenProperties DEF Downward
<1>2. \A a \in Keeps(x) : Len(a.subs) \in Nat
  <2>1. \A a \in Keeps(x) : a.subs \in Seq(SubType)
    BY DEF Keeps, GoodBroker
  <2>2. QED
    BY <2>1, LenProperties
<1>3. DeliverAll(b, m, qos) = h[DOMAIN s]
  BY DEF DeliverAll, Deliver, FoldLeft, MapThenFoldSet
<1>4. \A k \in 1 .. n : k - 1 \in 0 .. n /\ k \in 0 .. n
  BY <1>1
<1>5. Growing(B, n) /\ base \in B[0] /\ \A k \in 0 .. n : B[k] \subseteq Keeps(x)
  BY <1>1, <1>2, <1>4 DEF Growing
<1>6. ASSUME NEW k \in 1 .. n, NEW acc, acc \in B[k - 1] PROVE Op(acc, s[k]) \in B[k]
  <2>1. acc \in Keeps(x) /\ Len(acc.subs) >= n - k + 1 /\ Len(acc.subs) \in Nat
    BY <1>1, <1>2, <1>4, <1>6
  <2>2. s[k] \in 1 .. Len(acc.subs)
    BY <1>1, <2>1
  <2> DEFINE next == Deliver(acc, m, qos, s[k])
  <2>3. next \in Keeps(x) /\ Len(next.subs) \in {Len(acc.subs) - 1, Len(acc.subs)}
    BY <2>1, <2>2, DeliverStep
  <2> HIDE DEF next
  <2>4. next \in B[k] /\ acc \in B[k]
    BY <1>1, <1>4, <2>1, <2>3
  <2>5. QED
    BY <2>4 DEF next
<1>7. \A k \in 0 .. n : \A a \in B[k] : a \in Keeps(x) /\ Len(a.subs) >= n - k
  OBVIOUS
<1> HIDE DEF s, n, Op, base, B
<1>8. \A k \in 1 .. n : \A acc \in B[k - 1] : G[k][acc] = Op(acc, s[k])
  OBVIOUS
<1>9. Steps(G, B, n)
  BY <1>6 DEF Steps
<1> HIDE DEF G
<1>10. \A d \in SUBSET (1 .. n) : d # {} =>
        Max(d) \in 1 .. n /\ d \ {Max(d)} \in SUBSET (1 .. n)
  BY <1>1, MaxOfPositions
<1>11. \A g : Solution(g, G, base, n, B) => g = Def(g)
  <2>1. SUFFICES ASSUME NEW g, Solution(g, G, base, n, B) PROVE g = Def(g)
    BY Zenon
  <2>2. \A d \in SUBSET (1 .. n) :
          g[d] = IF d = {} THEN base ELSE Op(g[d \ {Max(d)}], s[Max(d)])
    BY <1>8, <1>10, <2>1 DEF Solution
  <2>3. QED
    BY <1>1, <2>1, <2>2 DEF Solution
<1>12. h = Def(h)
  BY <1>1, <1>5, <1>9, <1>11, FoldExists, Zenon
<1> HIDE DEF h
<1>13. \A d \in SUBSET (1 .. n) :
         h[d] = IF d = {} THEN base ELSE Op(h[d \ {Max(d)}], s[Max(d)])
  BY <1>1, <1>12
<1>14. PICK run : Chain(run, G, base, n, B, h[1 .. n])
  <2>1. h[{}] = base
    BY <1>13
  <2>2. ASSUME NEW d \in SUBSET (1 .. n), d # {}, h[d \ {Max(d)}] \in B[Max(d) - 1]
        PROVE  h[d] = G[Max(d)][h[d \ {Max(d)}]]
    <3>1. Max(d) \in 1 .. n
      BY <1>10, <2>2
    <3>2. h[d] = Op(h[d \ {Max(d)}], s[Max(d)])
      BY <1>13, <2>2
    <3>3. QED
      BY <1>8, <2>2, <3>1, <3>2
  <2>3. QED
    BY <1>1, <1>5, <1>9, <2>1, <2>2, FoldRun, Zenon
<1>15. run[0] = b /\ run[n] = DeliverAll(b, m, qos) /\ \A k \in 0 .. n : run[k] \in B[k]
  BY <1>1, <1>3, <1>14 DEF Chain, base
<1>16. \A k \in 1 .. n : run[k] = Op(run[k - 1], s[k])
  BY <1>4, <1>8, <1>14, <1>15 DEF Chain
<1>17. \A k \in 0 .. n : run[k] \in Keeps(x) /\ Len(run[k].subs) >= n - k
  BY <1>7, <1>15
<1>18. Delivering(run, b, m, qos, x)
  BY <1>1, <1>15, <1>16, <1>17 DEF Delivering, Op, n
<1>19. QED
  BY <1>18

\* The loop keeps the broker in good order.
LEMMA DeliverAllKeeps ==
  ASSUME NEW x, NEW b \in Keeps(x), NEW m \in Msg, NEW qos \in 0..2, qos > 0 => m \in x.msgs
  PROVE  DeliverAll(b, m, qos) \in Keeps(x)
<1>1. PICK run : Delivering(run, b, m, qos, x)
  BY DeliverRun
<1>2. Len(b.subs) \in 0 .. Len(b.subs)
  <2>1. b.subs \in Seq(SubType)
    BY DEF Keeps, GoodBroker
  <2>2. QED
    BY <2>1, LenProperties
<1>3. QED
  BY <1>1, <1>2 DEF Delivering

\* publish: the retained message, the subscriptions, the stored sessions.
LEMMA PublishKeeps ==
  ASSUME NEW x, NEW b \in Keeps(x), NEW m \in Msg, NEW qos \in 0..2, qos > 0 => m \in x.msgs,
         NEW retain \in BOOLEAN
  PROVE  Publish(b, m, qos, retain) \in Keeps(x)
<1> DEFINE kept == IF retain THEN Retain(b, m, qos) ELSE b
           sent == DeliverAll(kept, m, qos)
<1>1. kept \in Keeps(x)
  BY RetainKeeps
<1> HIDE DEF kept
<1>2. sent \in Keeps(x)
  BY <1>1, DeliverAllKeeps
<1> HIDE DEF sent
<1>3. StoreOffline(sent, m, qos) \in Keeps(x)
  BY <1>2, StoreOfflineKeeps
<1>4. QED
  BY <1>3 DEF Publish, sent, kept

\* Nothing but a publication is left to do about a will.
LEMMA FarewellKeeps ==
  ASSUME NEW x, NEW b \in Keeps(x), NEW t \in Token, x.msgs \subseteq Msg
  PROVE  Farewell(b, t) \in Keeps(x)
<1>1. CASE Connected(b, t) /\ b.clients[t].will # NoMsg
  <2>1. b.clients[t].will \in x.msgs
    <3>1. b.clients[t] \in ConnectedOf(x.msgs)
      BY <1>1, LiveClient
    <3>2. QED
      BY <1>1, <3>1 DEF ConnectedOf
  <2> DEFINE m == b.clients[t].will
  <2>2. m \in Msg /\ m \in x.msgs /\ WILL_QOS \in 0..2 /\ WillRetain \in BOOLEAN
    BY <2>1, BrokerAssumption
  <2> HIDE DEF m
  <2>3. Publish(b, m, WILL_QOS, WillRetain) \in Keeps(x)
    BY <2>2, PublishKeeps
  <2>4. QED
    BY <2>3 DEF Farewell, PublishLwt, m
<1>2. CASE ~(Connected(b, t) /\ b.clients[t].will # NoMsg)
  BY <1>2 DEF Farewell, PublishLwt
<1>3. QED
  BY <1>1, <1>2

\* publish_sys_topics is a series of publications: it does not leave a set of
\* brokers that none of them leaves.
LEMMA SysPublishedIn ==
  ASSUME NEW V, NEW b \in V, \A acc \in V : \A m \in Msg : Publish(acc, m, 0, TRUE) \in V
  PROVE  SysPublished(b) \in V
<1> DEFINE s == SYS
           n == Len(SYS)
           B == [k \in 0 .. n |-> V]
           base == b
           Op(acc, m) == Publish(acc, m, 0, TRUE)
           G == [k \in 1 .. n |-> [acc \in V |-> Op(acc, s[k])]]
           Def(g) == [d \in SUBSET DOMAIN s |->
                        IF d = {} THEN base ELSE Op(g[d \ {Max(d)}], s[Max(d)])]
           h == CHOOSE g : g = Def(g)
<1>1. n \in Nat /\ DOMAIN s = 1 .. n /\ \A k \in 1 .. n : s[k] \in Msg
  BY BrokerAssumption, LenProperties, ElementOfSeq
<1>2. SysPublished(b) = h[DOMAIN s]
  BY DEF SysPublished, FoldLeft, MapThenFoldSet
<1>3. base \in V
  OBVIOUS
<1>4. ASSUME NEW k \in 1 .. n, NEW acc \in V PROVE Op(acc, s[k]) \in V
  BY <1>1
<1> HIDE DEF s, n, Op, base
<1>5. \A k \in 1 .. n : k - 1 \in 0 .. n /\ k \in 0 .. n
  BY <1>1
<1>6. Growing(B, n) /\ base \in B[0] /\ \A k \in 1 .. n : B[k - 1] = V /\ B[k] = V
  BY <1>1, <1>3, <1>5 DEF Growing
<1>7. B[n] = V
  BY <1>1
<1> HIDE DEF B
<1>8. Steps(G, B, n) /\ \A k \in 1 .. n : \A acc \in V : G[k][acc] = Op(acc, s[k])
  BY <1>4, <1>6 DEF Steps
<1> HIDE DEF G
<1>9. \A d \in SUBSET (1 .. n) : d # {} => Max(d) \in 1 .. n
  BY <1>1, MaxOfPositions
<1>10. \A g : Solution(g, G, base, n, B) => g = Def(g)
  <2>1. SUFFICES ASSUME NEW g, Solution(g, G, base, n, B) PROVE g = Def(g)
    BY Zenon
  <2>2. ASSUME NEW d \in SUBSET (1 .. n), d # {}
        PROVE  g[d] = Op(g[d \ {Max(d)}], s[Max(d)])
    <3>1. Max(d) \in 1 .. n
      BY <1>9, <2>2
    <3>2. g[d \ {Max(d)}] \in V /\ g[d] = G[Max(d)][g[d \ {Max(d)}]]
      BY <1>6, <2>1, <2>2, <3>1 DEF Solution
    <3>3. QED
      BY <1>8, <3>1, <3>2
  <2>3. QED
    BY <1>1, <2>1, <2>2 DEF Solution
<1>11. h = Def(h)
  BY <1>1, <1>6, <1>8, <1>10, FoldExists, Zenon
<1> HIDE DEF h
<1>12. \A d \in SUBSET (1 .. n) :
         h[d] = IF d = {} THEN base ELSE Op(h[d \ {Max(d)}], s[Max(d)])
  BY <1>1, <1>11
<1>13. \E run : Chain(run, G, base, n, B, h[1 .. n])
  <2>1. h[{}] = base
    BY <1>12
  <2>2. ASSUME NEW d \in SUBSET (1 .. n), d # {}, h[d \ {Max(d)}] \in B[Max(d) - 1]
        PROVE  h[d] = G[Max(d)][h[d \ {Max(d)}]]
    <3>1. Max(d) \in 1 .. n
      BY <1>9, <2>2
    <3>2. h[d \ {Max(d)}] \in V
      BY <1>6, <2>2, <3>1
    <3>3. h[d] = Op(h[d \ {Max(d)}], s[Max(d)])
      BY <1>12, <2>2
    <3>4. QED
      BY <1>8, <3>1, <3>2, <3>3
  <2>3. QED
    BY <1>1, <1>6, <1>8, <2>1, <2>2, FoldRun, Zenon
<1>14. h[1 .. n] \in V
  BY <1>1, <1>7, <1>13 DEF Chain
<1>15. QED
  BY <1>1, <1>2, <1>14

\* So it keeps the broker in good order.
LEMMA SysPublishedKeeps ==
  ASSUME NEW x, NEW b \in Keeps(x)
  PROVE  SysPublished(b) \in Keeps(x)
<1>1. \A acc \in Keeps(x) : \A m \in Msg : Publish(acc, m, 0, TRUE) \in Keeps(x)
  <2>1. 0 \in 0..2 /\ TRUE \in BOOLEAN /\ ~(0 > 0)
    OBVIOUS
  <2>2. QED
    BY <2>1, PublishKeeps, Zenon
<1>2. QED
  BY <1>1, SysPublishedIn

----------------------------------------------------------------------------
(* remove_client.                                                          *)

\* The subscriptions of a session, with those of a client added.
LEMMA MergedType ==
  ASSUME NEW A, NEW old \in Seq(A), NEW more \in Seq(A)
  PROVE  Merged(old, more) \in Seq(A)
<1> DEFINE s == more
           n == Len(more)
           V == Seq(A)
           B == [k \in 0 .. n |-> V]
           base == old
           Op(acc, e) == IF Contains(acc, e) THEN acc ELSE Append(acc, e)
           G == [k \in 1 .. n |-> [acc \in V |-> Op(acc, s[k])]]
           Def(g) == [d \in SUBSET DOMAIN s |->
                        IF d = {} THEN base ELSE Op(g[d \ {Max(d)}], s[Max(d)])]
           h == CHOOSE g : g = Def(g)
<1>1. n \in Nat /\ DOMAIN s = 1 .. n /\ \A k \in 1 .. n : s[k] \in A
  BY LenProperties, ElementOfSeq
<1>2. Merged(old, more) = h[DOMAIN s]
  BY DEF Merged, FoldLeft, MapThenFoldSet
<1>3. base \in V
  OBVIOUS
<1>4. ASSUME NEW k \in 1 .. n, NEW acc \in V PROVE Op(acc, s[k]) \in V
  BY <1>1, AppendProperties
<1> HIDE DEF s, n, Op, base, V
<1>5. \A k \in 1 .. n : k - 1 \in 0 .. n /\ k \in 0 .. n
  BY <1>1
<1>6. Growing(B, n) /\ base \in B[0] /\ \A k \in 1 .. n : B[k - 1] = V /\ B[k] = V
  BY <1>1, <1>3, <1>5 DEF Growing
<1>7. B[n] = V
  BY <1>1
<1> HIDE DEF B
<1>8. Steps(G, B, n) /\ \A k \in 1 .. n : \A acc \in V : G[k][acc] = Op(acc, s[k])
  BY <1>4, <1>6 DEF Steps
<1> HIDE DEF G
<1>9. \A d \in SUBSET (1 .. n) : d # {} => Max(d) \in 1 .. n
  BY <1>1, MaxOfPositions
<1>10. \A g : Solution(g, G, base, n, B) => g = Def(g)
  <2>1. SUFFICES ASSUME NEW g, Solution(g, G, base, n, B) PROVE g = Def(g)
    BY Zenon
  <2>2. ASSUME NEW d \in SUBSET (1 .. n), d # {}
        PROVE  g[d] = Op(g[d \ {Max(d)}], s[Max(d)])
    <3>1. Max(d) \in 1 .. n
      BY <1>9, <2>2
    <3>2. g[d \ {Max(d)}] \in V /\ g[d] = G[Max(d)][g[d \ {Max(d)}]]
      BY <1>6, <2>1, <2>2, <3>1 DEF Solution
    <3>3. QED
      BY <1>8, <3>1, <3>2
  <2>3. QED
    BY <1>1, <2>1, <2>2 DEF Solution
<1>11. h = Def(h)
  BY <1>1, <1>6, <1>8, <1>10, FoldExists, Zenon
<1> HIDE DEF h
<1>12. \A d \in SUBSET (1 .. n) :
         h[d] = IF d = {} THEN base ELSE Op(h[d \ {Max(d)}], s[Max(d)])
  BY <1>1, <1>11
<1>13. \E run : Chain(run, G, base, n, B, h[1 .. n])
  <2>1. h[{}] = base
    BY <1>12
  <2>2. ASSUME NEW d \in SUBSET (1 .. n), d # {}, h[d \ {Max(d)}] \in B[Max(d) - 1]
        PROVE  h[d] = G[Max(d)][h[d \ {Max(d)}]]
    <3>1. Max(d) \in 1 .. n
      BY <1>9, <2>2
    <3>2. h[d \ {Max(d)}] \in V
      BY <1>6, <2>2, <3>1
    <3>3. h[d] = Op(h[d \ {Max(d)}], s[Max(d)])
      BY <1>12, <2>2
    <3>4. QED
      BY <1>8, <3>1, <3>2, <3>3
  <2>3. QED
    BY <1>1, <1>6, <1>8, <2>1, <2>2, FoldRun, Zenon
<1>14. h[1 .. n] \in V
  BY <1>1, <1>7, <1>13 DEF Chain
<1>15. QED
  BY <1>1, <1>2, <1>14 DEF V

\* A sequence over part of a set is one over the set.
LEMMA NarrowSeq ==
  ASSUME NEW A, NEW S, NEW s \in Seq(A \cap S)
  PROVE  s \in Seq(A)
<1>1. Len(s) \in Nat /\ s = [i \in 1 .. Len(s) |-> s[i]] /\ \A i \in 1 .. Len(s) : s[i] \in A
  BY LenProperties, ElementOfSeq
<1>2. QED
  BY <1>1

\* A sequence built position by position.
LEMMA MappedSeq ==
  ASSUME NEW A, NEW s \in Seq(A), NEW C, NEW f, f = [i \in DOMAIN s |-> f[i]],
         \A i \in 1 .. Len(s) : f[i] \in C
  PROVE  f \in Seq(C) /\ Len(f) = Len(s)
<1>1. Len(s) \in Nat /\ DOMAIN s = 1 .. Len(s)
  BY LenProperties
<1> DEFINE n == Len(s)
<1>2. n \in Nat /\ f \in [1 .. n -> C]
  BY <1>1
<1> HIDE DEF n
<1>3. f \in Seq(C) /\ DOMAIN f = 1 .. n
  BY <1>2
<1>4. Len(f) = n
  BY <1>2, <1>3, LenProperties
<1>5. QED
  BY <1>3, <1>4 DEF n

\* The subscriptions of a token, as a session keeps them.
LEMMA SubsOfType ==
  ASSUME NEW x, NEW b \in Keeps(x), NEW t \in Token
  PROVE  SubsOf(b, t) \in Seq(FilterQos)
<1> DEFINE own == Only(b.subs, OwnSubs(b, t))
           f == [i \in DOMAIN own |-> [filter |-> own[i].filter, qos |-> own[i].qos]]
<1>1. b.subs \in Seq(SubType)
  BY DEF Keeps, GoodBroker
<1>2. own \in Seq(SubType \cap OwnSubs(b, t))
  BY <1>1, OnlyType
<1> DEFINE A == SubType \cap OwnSubs(b, t)
<1>3. \A e \in A : [filter |-> e.filter, qos |-> e.qos] \in FilterQos
  BY DEF SubType, FilterQos
<1>4. SubsOf(b, t) = f
  BY DEF SubsOf
<1> HIDE DEF A, own
<1>5. own \in Seq(A)
  BY <1>2 DEF A
<1>6. DOMAIN own = 1 .. Len(own) /\ \A i \in 1 .. Len(own) : own[i] \in A
  BY <1>5, LenProperties, ElementOfSeq
<1>7. \A i \in 1 .. Len(own) : f[i] \in FilterQos
  BY <1>3, <1>6
<1>8. f = [i \in DOMAIN own |-> f[i]]
  OBVIOUS
<1> HIDE DEF f
<1>9. f \in Seq(FilterQos)
  BY <1>5, <1>7, <1>8, MappedSeq, ZenonT(30)
<1>10. QED
  BY <1>4, <1>9

\* Reliable entries hold messages, so what is unsent can be stored.
LEMMA UnsentType ==
  ASSUME NEW x, NEW b \in Keeps(x), NEW t \in Token, Connected(b, t)
  PROVE  Unsent(b, t) \in Seq([msg : x.msgs, qos : 0..2])
<1> DEFINE queue == b.clients[t].write_queue
           R == {e \in ToSet(queue) : e.rel}
           rel == Only(queue, R)
           f == [i \in DOMAIN rel |-> Held(rel[i].pkt.msg, rel[i].pkt.qos)]
           A == EntryOf(x.msgs) \cap R
           H == [msg : x.msgs, qos : 0..2]
<1>1. queue \in Seq(EntryOf(x.msgs))
  <2>1. b.clients[t] \in ConnectedOf(x.msgs)
    BY LiveClient
  <2>2. QED
    BY <2>1 DEF ConnectedOf
<1>2. Unsent(b, t) = f
  BY DEF Unsent
<1>3. ASSUME NEW e \in A PROVE Held(e.pkt.msg, e.pkt.qos) \in H
  <2>1. e \in EntryOf(x.msgs) /\ e.rel
    OBVIOUS
  <2>2. e.pkt \in PacketOf(x.msgs)
    BY <2>1 DEF EntryOf
  <2>3. e.pkt.msg \in x.msgs /\ e.pkt.qos \in 0..2
    BY <2>2 DEF PacketOf
  <2>4. QED
    BY <2>3 DEF Held
<1> HIDE DEF queue, R
<1>4. rel \in Seq(A)
  BY <1>1, OnlyType
<1> HIDE DEF A, H, rel
<1>5. DOMAIN rel = 1 .. Len(rel) /\ \A i \in 1 .. Len(rel) : rel[i] \in A
  BY <1>4, LenProperties, ElementOfSeq
<1>6. \A i \in 1 .. Len(rel) : f[i] \in H
  BY <1>3, <1>5
<1>7. f = [i \in DOMAIN rel |-> f[i]]
  OBVIOUS
<1> HIDE DEF f
<1>8. f \in Seq(H)
  BY <1>4, <1>6, <1>7, MappedSeq
<1>9. QED
  BY <1>2, <1>8 DEF H

\* What is added to an offline queue fills it at most to its limit, and
\* leaves what is there.
LEMMA WithMoreType ==
  ASSUME NEW H, NEW offline \in Seq(H), NEW more \in Seq(H), Len(offline) <= OFFLINE_CAP
  PROVE  /\ WithMore(offline, more) \in Seq(H)
         /\ Len(WithMore(offline, more)) <= OFFLINE_CAP
         /\ Len(offline) <= Len(WithMore(offline, more))
         /\ \A i \in 1 .. Len(offline) : WithMore(offline, more)[i] = offline[i]
<1> DEFINE room == OFFLINE_CAP - Len(offline)
           taken == UpTo(more, room)
<1>1. Len(offline) \in Nat /\ Len(more) \in Nat /\ room \in Nat /\ OFFLINE_CAP \in Nat
  BY LenProperties, BrokerAssumption
<1>2. WithMore(offline, more) = offline \o taken
  BY DEF WithMore
<1>3. taken \in Seq(H) /\ Len(taken) <= room
  <2>1. CASE Len(more) <= room
    BY <2>1 DEF UpTo
  <2>2. CASE ~(Len(more) <= room)
    <3>1. \A i \in 1 .. room : more[i] \in H
      BY <1>1, <2>2, ElementOfSeq
    <3>2. taken = SubSeq(more, 1, room)
      BY <2>2 DEF UpTo
    <3> HIDE DEF room
    <3>3. SubSeq(more, 1, room) \in Seq(H) /\ Len(SubSeq(more, 1, room)) = IF 1 <= room THEN room - 1 + 1 ELSE 0
      BY <1>1, <3>1, SubSeqProperties
    <3> DEFINE q == SubSeq(more, 1, room)
    <3> HIDE DEF q
    <3>4. q \in Seq(H) /\ Len(q) = IF 1 <= room THEN room - 1 + 1 ELSE 0
      BY <3>3 DEF q
    <3>5. Len(q) <= room
      BY <1>1, <3>4
    <3>6. QED
      BY <3>2, <3>4, <3>5 DEF q
  <2>3. QED
    BY <2>1, <2>2
<1> HIDE DEF taken
<1>4. /\ offline \o taken \in Seq(H)
      /\ Len(offline \o taken) = Len(offline) + Len(taken)
      /\ \A i \in 1 .. Len(offline) + Len(taken) :
           (offline \o taken)[i] = IF i <= Len(offline) THEN offline[i] ELSE taken[i - Len(offline)]
  BY <1>3, ConcatProperties
<1>5. Len(taken) \in Nat
  BY <1>3, LenProperties
<1> DEFINE r == offline \o taken
<1> HIDE DEF r
<1>6. r \in Seq(H) /\ Len(r) = Len(offline) + Len(taken)
      /\ \A i \in 1 .. Len(offline) + Len(taken) :
           r[i] = IF i <= Len(offline) THEN offline[i] ELSE taken[i - Len(offline)]
  BY <1>4 DEF r
<1>7. \A i \in 1 .. Len(offline) : r[i] = offline[i]
  BY <1>1, <1>5, <1>6
<1>8. Len(r) <= OFFLINE_CAP /\ Len(offline) <= Len(r)
  BY <1>1, <1>3, <1>5, <1>6
<1>9. QED
  BY <1>2, <1>6, <1>7, <1>8 DEF r

\* The session of a client that leaves takes what it had queued, and loses
\* nothing it held.
LEMMA PersistKeeps ==
  ASSUME NEW x, NEW b \in Keeps(x), NEW t \in Token, Persistent(b, t)
  PROVE  Persist(b, t) \in Keeps(x)
<1> DEFINE c == b.clients[t].cid
           old == IF b.sessions[c].stored THEN b.sessions[c] ELSE Stored(<<>>, <<>>)
           H == [msg : x.msgs, qos : 0..2]
           subs == Merged(old.subs, SubsOf(b, t))
           more == Unsent(b, t)
           offline == WithMore(old.offline, more)
           new == Stored(subs, offline)
           sessions == [b.sessions EXCEPT ![c] = new]
<1>1. Connected(b, t) /\ c \in Cid
  <2>1. Connected(b, t) /\ c # NoCid
    BY DEF Persistent
  <2>2. b.clients[t] \in ConnectedOf(x.msgs)
    BY <2>1, LiveClient
  <2>3. QED
    BY <2>1, <2>2 DEF ConnectedOf
<1>2. b.sessions \in [Cid -> GoodSession(x.msgs)]
  BY DEF Keeps, GoodBroker
<1>3. b.sessions[c] \in GoodSession(x.msgs)
  BY <1>1, <1>2
<1>4. /\ old.subs \in Seq(FilterQos) /\ old.offline \in Seq(H)
      /\ Len(old.offline) <= OFFLINE_CAP
      /\ b.sessions[c].stored => old.offline = b.sessions[c].offline
  <2>1. CASE b.sessions[c].stored
    <3>1. b.sessions[c] \in StoredOf(x.msgs) /\ Len(b.sessions[c].offline) <= OFFLINE_CAP
      BY <1>3, <2>1, StoredSession
    <3>2. QED
      BY <2>1, <3>1 DEF StoredOf
  <2>2. CASE ~b.sessions[c].stored
    <3>1. old.subs = <<>> /\ old.offline = <<>>
      BY <2>2 DEF Stored
    <3>2. <<>> \in Seq(FilterQos) /\ <<>> \in Seq(H)
      BY EmptySeq
    <3>3. Len(<<>>) = 0
      BY EmptySeq
    <3>4. 0 <= OFFLINE_CAP
      BY BrokerAssumption
    <3> HIDE DEF H, old
    <3>5. QED
      BY <2>2, <3>1, <3>2, <3>3, <3>4
  <2>3. QED
    BY <2>1, <2>2
<1>5. subs \in Seq(FilterQos)
  BY <1>4, SubsOfType, MergedType
<1>6. more \in Seq(H)
  BY <1>1, UnsentType
<1>7. Persist(b, t) = [b EXCEPT !.sessions = sessions, !.dirty = TRUE]
  BY DEF Persist
<1> HIDE DEF H, old, more
<1>8. /\ offline \in Seq(H) /\ Len(offline) <= OFFLINE_CAP
      /\ Len(old.offline) <= Len(offline)
      /\ \A i \in 1 .. Len(old.offline) : offline[i] = old.offline[i]
  BY <1>4, <1>6, WithMoreType
<1> HIDE DEF subs, offline
<1>9. new \in GoodSession(x.msgs) /\ new.stored /\ new.offline = offline
  BY <1>5, <1>8 DEF GoodSession, StoredOf, Stored, H
<1>10. ASSUME NEW n, NEW q, Has(b.sessions[c], n, q) PROVE Has(new, n, q)
  <2>1. Len(old.offline) \in Nat /\ DOMAIN old.offline = 1 .. Len(old.offline)
        /\ Len(offline) \in Nat /\ DOMAIN offline = 1 .. Len(offline)
    BY <1>4, <1>8, LenProperties
  <2>2. PICK i \in DOMAIN old.offline : old.offline[i].msg = n /\ old.offline[i].qos >= q
    BY <1>4, <1>10 DEF Has
  <2>3. i \in DOMAIN offline /\ offline[i].msg = n /\ offline[i].qos >= q
    BY <1>8, <2>1, <2>2
  <2>4. QED
    BY <1>9, <2>3 DEF Has
<1> HIDE DEF new, c
<1>11. sessions \in [Cid -> GoodSession(x.msgs)]
  BY <1>1, <1>2, <1>9
<1>12. \A p \in x.kept.stored : p[1] \in Cid /\ Has(b.sessions[p[1]], p[2], p[3])
  BY DEF Keeps, IsStored
<1>13. \A p \in x.kept.stored : IsStored(sessions, p)
  BY <1>1, <1>2, <1>10, <1>12 DEF IsStored
<1> HIDE DEF sessions
<1>14. [b EXCEPT !.sessions = sessions, !.dirty = TRUE] \in Keeps(x)
  BY <1>11, <1>13, KeepsSessions, Zenon
<1>15. QED
  BY <1>7, <1>14

\* remove_client: whatever the will does to the client or to others, the broker
\* is in good order, and the client is gone.
LEMMA RemoveClientKeeps ==
  ASSUME NEW x, NEW b \in Keeps(x), NEW t \in Token, x.msgs \subseteq Msg
  PROVE  /\ RemoveClient(b, t) \in Keeps(x)
         /\ ~Connected(RemoveClient(b, t), t)
<1> DEFINE said == Farewell(b, t)
           kept == IF Persistent(said, t) THEN Persist(said, t) ELSE said
           rest == Unsubscribed(kept, t)
<1>1. said \in Keeps(x)
  BY FarewellKeeps
<1> HIDE DEF said
<1>2. kept \in Keeps(x)
  BY <1>1, PersistKeeps
<1> HIDE DEF kept
<1>3. rest \in Keeps(x)
  <2> DEFINE subs == Only(kept.subs, ToSet(kept.subs) \ OwnSubs(kept, t))
  <2>1. kept.subs \in Seq(SubType)
    BY <1>2 DEF Keeps, GoodBroker
  <2>2. subs \in Seq(SubType)
    <3> DEFINE S == ToSet(kept.subs) \ OwnSubs(kept, t)
    <3>1. Only(kept.subs, S) \in Seq(SubType \cap S)
      BY <2>1, OnlyType
    <3> HIDE DEF S
    <3>2. Only(kept.subs, S) \in Seq(SubType)
      BY <3>1, NarrowSeq
    <3>3. QED
      BY <3>2 DEF S
  <2>3. rest = [kept EXCEPT !.subs = subs]
    BY DEF Unsubscribed
  <2> HIDE DEF subs
  <2>4. QED
    BY <1>2, <2>2, <2>3, KeepsSubs
<1> HIDE DEF rest
<1>4. RemoveClient(b, t) = Drop(rest, t)
  BY DEF RemoveClient, said, kept, rest
<1>5. QED
  BY <1>3, <1>4, DropKeeps

----------------------------------------------------------------------------
(* CONNECT and SUBSCRIBE: deliveries to one connection, until one fails.   *)

\* The outcome of such a series: when it is Ok, the client is still there.
Outcome(x, t) == {done \in [b : Keeps(x), ok : BOOLEAN] : done.ok => Connected(done.b, t)}

\* deliver_to is such a series of length one.
LEMMA DeliverToOutcome ==
  ASSUME NEW x, NEW b \in Keeps(x), NEW t \in Token,
         NEW m \in Msg, NEW qos \in 0..2, qos > 0 => m \in x.msgs
  PROVE  DeliverTo(b, t, m, qos) \in Outcome(x, t)
<1> DEFINE done == DeliverTo(b, t, m, qos)
<1>1. done.b \in Keeps(x) /\ done.ok \in BOOLEAN /\ (done.ok => Connected(done.b, t))
  BY DeliverToKeeps
<1>2. done = [b |-> done.b, ok |-> done.ok]
  <2>1. qos = 0 \/ qos > 0
    OBVIOUS
  <2>2. QED
    BY <2>1 DEF DeliverTo
<1> HIDE DEF done
<1>3. done \in [b : Keeps(x), ok : BOOLEAN]
  BY <1>1, <1>2
<1>4. QED
  BY <1>1, <1>3 DEF Outcome, done

\* Subscriptions may be added for any token.
LEMMA AddSubsKeeps ==
  ASSUME NEW x, NEW b \in Keeps(x), NEW t \in Token, NEW subs \in Seq(FilterQos)
  PROVE  AddSubs(b, t, subs) \in Keeps(x) /\ AddSubs(b, t, subs).clients = b.clients
<1> DEFINE more == [i \in DOMAIN subs |-> Sub(subs[i].filter, t, subs[i].qos)]
<1>1. b.subs \in Seq(SubType) /\ b \in GoodBroker(x.msgs)
  BY DEF Keeps, GoodBroker
<1>2. \A i \in 1 .. Len(subs) : more[i] \in SubType
  <2>1. DOMAIN subs = 1 .. Len(subs) /\ \A i \in 1 .. Len(subs) : subs[i] \in FilterQos
    BY LenProperties, ElementOfSeq
  <2>2. QED
    BY <2>1 DEF FilterQos, SubType, Sub
<1>3. more = [i \in DOMAIN subs |-> more[i]]
  OBVIOUS
<1>4. AddSubs(b, t, subs) = [b EXCEPT !.subs = b.subs \o more]
  BY <1>1 DEF AddSubs, GoodBroker
<1> HIDE DEF more
<1>5. more \in Seq(SubType)
  BY <1>2, <1>3, MappedSeq
<1> DEFINE all == b.subs \o more
<1>6. all \in Seq(SubType)
  BY <1>1, <1>5, ConcatProperties
<1> HIDE DEF all
<1>7. [b EXCEPT !.subs = all] \in Keeps(x)
  BY <1>6, KeepsSubs
<1>8. [b EXCEPT !.subs = all].clients = b.clients
  BY <1>1 DEF GoodBroker
<1>9. QED
  BY <1>4, <1>7, <1>8 DEF all

\* A session may be taken out of the store, if nothing is to be kept in it: the
\* dirty flag is raised when there was one.
LEMMA ForgetKeeps ==
  ASSUME NEW x, NEW b \in Keeps(x), NEW c \in Cid, \A p \in x.kept.stored : p[1] # c
  PROVE  Forget(b, c) \in Keeps(x) /\ Forget(b, c).clients = b.clients
<1> DEFINE sessions == [b.sessions EXCEPT ![c] = NoSession]
           a == Forget(b, c)
<1>1. b \in GoodBroker(x.msgs) /\ b.sessions \in [Cid -> GoodSession(x.msgs)]
  BY DEF Keeps, GoodBroker
<1>2. sessions \in [Cid -> GoodSession(x.msgs)]
  BY <1>1 DEF GoodSession
<1>3. a = [b EXCEPT !.sessions = sessions, !.dirty = b.dirty \/ b.sessions[c].stored]
  BY <1>1 DEF Forget, GoodBroker
<1>4. b.sessions[c].stored \in BOOLEAN /\ (~b.sessions[c].stored => b.sessions[c] = NoSession)
  <2>1. b.sessions[c] \in GoodSession(x.msgs)
    BY <1>1
  <2>2. NoSession.stored = FALSE
    BY DEF NoSession
  <2>3. \A session \in StoredOf(x.msgs) : session.stored = TRUE
    BY DEF StoredOf
  <2>4. b.sessions[c] = NoSession \/ b.sessions[c] \in StoredOf(x.msgs)
    BY <2>1 DEF GoodSession
  <2>5. QED
    BY <2>2, <2>3, <2>4
<1>5. CASE b.sessions[c].stored
  <2>1. \A p \in x.kept.stored : IsStored(sessions, p)
    BY <1>1 DEF Keeps, IsStored
  <2>2. a = [b EXCEPT !.sessions = sessions, !.dirty = TRUE]
    BY <1>3, <1>5
  <2> HIDE DEF sessions, a
  <2>3. [b EXCEPT !.sessions = sessions, !.dirty = TRUE] \in Keeps(x)
    BY <1>2, <2>1, KeepsSessions, Zenon
  <2>4. [b EXCEPT !.sessions = sessions, !.dirty = TRUE].clients = b.clients
    BY <1>1 DEF GoodBroker
  <2>5. QED
    BY <2>2, <2>3, <2>4 DEF a
<1>6. CASE ~b.sessions[c].stored
  <2>1. b.sessions[c] = NoSession
    BY <1>4, <1>6
  <2>2. sessions = b.sessions
    BY <1>1, <2>1
  <2>3. (b.dirty \/ b.sessions[c].stored) = b.dirty
    <3>1. b.dirty \in BOOLEAN
      BY <1>1 DEF GoodBroker
    <3>2. QED
      BY <1>6, <3>1
  <2>4. a = [b EXCEPT !.sessions = b.sessions, !.dirty = b.dirty]
    BY <1>3, <2>2, <2>3
  <2> HIDE DEF a
  <2>5. a = b
    BY <1>1, <2>4 DEF GoodBroker
  <2>6. QED
    BY <2>5 DEF a
<1>7. QED
  BY <1>5, <1>6

\* The QoS at which an offline message is handed to the connection.
FlushQos(session, held) ==
  IF Wants(session, held.msg) THEN LesserQos(held.qos, SessionQos(session, held.msg)) ELSE held.qos

\* The flush of an offline queue as a run through its messages: the outcome
\* after each.
Flushing(run, b, t, session, x) ==
  /\ run[0] = [b |-> b, ok |-> TRUE] /\ run[Len(session.offline)] = FlushSession(b, t, session)
  /\ \A k \in 0 .. Len(session.offline) : run[k] \in Outcome(x, t)
  /\ \A k \in 1 .. Len(session.offline) :
       run[k] = IF run[k - 1].ok
                THEN DeliverTo(run[k - 1].b, t, session.offline[k].msg, FlushQos(session, session.offline[k]))
                ELSE run[k - 1]

LEMMA FlushRun ==
  ASSUME NEW x, NEW b \in Keeps(x), NEW t \in Token, Connected(b, t),
         NEW session \in StoredOf(x.msgs), x.msgs \subseteq Msg
  PROVE  \E run : Flushing(run, b, t, session, x)
<1> DEFINE dqos(held) == FlushQos(session, held)
           s == session.offline
           n == Len(session.offline)
           V == Outcome(x, t)
           B == [k \in 0 .. n |-> V]
           base == [b |-> b, ok |-> TRUE]
           Op(acc, held) == IF acc.ok THEN DeliverTo(acc.b, t, held.msg, dqos(held)) ELSE acc
           G == [k \in 1 .. n |-> [acc \in V |-> Op(acc, s[k])]]
           Def(g) == [d \in SUBSET DOMAIN s |->
                        IF d = {} THEN base ELSE Op(g[d \ {Max(d)}], s[Max(d)])]
           h == CHOOSE g : g = Def(g)
<1>1. n \in Nat /\ DOMAIN s = 1 .. n /\ \A k \in 1 .. n : s[k] \in [msg : x.msgs, qos : 0..2]
  <2>1. s \in Seq([msg : x.msgs, qos : 0..2])
    BY DEF StoredOf
  <2>2. QED
    BY <2>1, LenProperties, ElementOfSeq
<1>2. FlushSession(b, t, session) = h[DOMAIN s]
  BY DEF FlushSession, FlushQos, FoldLeft, MapThenFoldSet
<1>3. base \in V
  BY DEF Outcome
<1>4. ASSUME NEW k \in 1 .. n, NEW acc \in V PROVE Op(acc, s[k]) \in V
  <2>1. s[k].msg \in x.msgs /\ s[k].msg \in Msg /\ s[k].qos \in 0..2
    BY <1>1
  <2>2. dqos(s[k]) \in 0..2
    BY <2>1, SessionQosType, LesserQosType DEF FlushQos
  <2> HIDE DEF dqos, s
  <2>3. CASE acc.ok
    <3>1. acc.b \in Keeps(x)
      BY DEF Outcome
    <3>2. DeliverTo(acc.b, t, s[k].msg, dqos(s[k])) \in Outcome(x, t)
      BY <2>1, <2>2, <3>1, DeliverToOutcome
    <3>3. QED
      BY <2>3, <3>2
  <2>4. CASE ~acc.ok
    BY <2>4
  <2>5. QED
    BY <2>3, <2>4
<1> HIDE DEF s, n, Op, base, V, dqos
<1>5. \A k \in 1 .. n : k - 1 \in 0 .. n /\ k \in 0 .. n
  BY <1>1
<1>6. Growing(B, n) /\ base \in B[0] /\ \A k \in 1 .. n : B[k - 1] = V /\ B[k] = V
  BY <1>1, <1>3, <1>5 DEF Growing
<1>7. B[n] = V
  BY <1>1
<1> HIDE DEF B
<1>8. Steps(G, B, n) /\ \A k \in 1 .. n : \A acc \in V : G[k][acc] = Op(acc, s[k])
  BY <1>4, <1>6 DEF Steps
<1> HIDE DEF G
<1>9. \A d \in SUBSET (1 .. n) : d # {} => Max(d) \in 1 .. n
  BY <1>1, MaxOfPositions
<1>10. \A g : Solution(g, G, base, n, B) => g = Def(g)
  <2>1. SUFFICES ASSUME NEW g, Solution(g, G, base, n, B) PROVE g = Def(g)
    BY Zenon
  <2>2. ASSUME NEW d \in SUBSET (1 .. n), d # {}
        PROVE  g[d] = Op(g[d \ {Max(d)}], s[Max(d)])
    <3>1. Max(d) \in 1 .. n
      BY <1>9, <2>2
    <3>2. g[d \ {Max(d)}] \in V /\ g[d] = G[Max(d)][g[d \ {Max(d)}]]
      BY <1>6, <2>1, <2>2, <3>1 DEF Solution
    <3>3. QED
      BY <1>8, <3>1, <3>2
  <2>3. QED
    BY <1>1, <2>1, <2>2 DEF Solution
<1>11. h = Def(h)
  BY <1>1, <1>6, <1>8, <1>10, FoldExists, Zenon
<1> HIDE DEF h
<1>12. \A d \in SUBSET (1 .. n) :
         h[d] = IF d = {} THEN base ELSE Op(h[d \ {Max(d)}], s[Max(d)])
  BY <1>1, <1>11
<1>13. PICK run : Chain(run, G, base, n, B, h[1 .. n])
  <2>1. h[{}] = base
    BY <1>12
  <2>2. ASSUME NEW d \in SUBSET (1 .. n), d # {}, h[d \ {Max(d)}] \in B[Max(d) - 1]
        PROVE  h[d] = G[Max(d)][h[d \ {Max(d)}]]
    <3> DEFINE k == Max(d)
               e == h[d \ {k}]
    <3>1. k \in 1 .. n /\ e \in V
      BY <1>6, <1>9, <2>2
    <3>2. h[d] = Op(e, s[k])
      BY <1>12, <2>2
    <3> HIDE DEF k, e
    <3>3. G[k][e] = Op(e, s[k])
      BY <1>8, <3>1
    <3>4. QED
      BY <3>2, <3>3 DEF k, e
  <2>3. QED
    BY <1>1, <1>6, <1>8, <2>1, <2>2, FoldRun, Zenon
<1>14. run[0] = base /\ run[n] = FlushSession(b, t, session) /\ \A k \in 0 .. n : run[k] \in V
  <2>1. \A k \in 0 .. n : B[k] = V
    BY <1>1 DEF B
  <2>2. QED
    BY <1>1, <1>2, <1>13, <2>1 DEF Chain
<1>15. \A k \in 1 .. n : run[k] = Op(run[k - 1], s[k])
  BY <1>5, <1>8, <1>13, <1>14 DEF Chain
<1>16. Flushing(run, b, t, session, x)
  BY <1>14, <1>15 DEF Flushing, V, base, Op, dqos, s, n
<1>17. QED
  BY <1>16

\* The offline queue of a session is delivered.
LEMMA FlushSessionKeeps ==
  ASSUME NEW x, NEW b \in Keeps(x), NEW t \in Token, Connected(b, t),
         NEW session \in StoredOf(x.msgs), x.msgs \subseteq Msg
  PROVE  FlushSession(b, t, session) \in Outcome(x, t)
<1>1. PICK run : Flushing(run, b, t, session, x)
  BY FlushRun
<1>2. Len(session.offline) \in 0 .. Len(session.offline)
  <2>1. session.offline \in Seq([msg : x.msgs, qos : 0..2])
    BY DEF StoredOf
  <2>2. QED
    BY <2>1, LenProperties
<1>3. QED
  BY <1>1, <1>2 DEF Flushing

\* When all of it could be handed over, what was to go at QoS1/2 is in the queue of
\* the connection.
LEMMA FlushHands ==
  ASSUME NEW x, NEW b \in Keeps(x), NEW t \in Token, Connected(b, t),
         NEW session \in StoredOf(x.msgs), x.msgs \subseteq Msg,
         NEW c, b.clients[t].cid = c, ~b.clients[t].clean_session,
         FlushSession(b, t, session).ok,
         NEW i \in 1 .. Len(session.offline), FlushQos(session, session.offline[i]) > 0
  PROVE  Awaits(FlushSession(b, t, session).b.clients[t], c, session.offline[i].msg)
<1> DEFINE off == session.offline
           n == Len(off)
           m == off[i].msg
<1>1. n \in Nat /\ i \in 1 .. n /\ \A k \in 1 .. n : off[k] \in [msg : x.msgs, qos : 0..2]
  <2>1. off \in Seq([msg : x.msgs, qos : 0..2])
    BY DEF StoredOf
  <2>2. QED
    BY <2>1, LenProperties, ElementOfSeq
<1>2. \A k \in 1 .. n : /\ off[k].msg \in Msg /\ off[k].msg \in x.msgs
                        /\ FlushQos(session, off[k]) \in 0..2
  BY <1>1, SessionQosType, LesserQosType DEF FlushQos
<1>3. PICK run : Flushing(run, b, t, session, x)
  BY FlushRun
<1>4. /\ run[0] = [b |-> b, ok |-> TRUE] /\ run[n] = FlushSession(b, t, session)
      /\ \A k \in 0 .. n : run[k] \in Outcome(x, t)
      /\ \A k \in 1 .. n :
           run[k] = IF run[k - 1].ok
                    THEN DeliverTo(run[k - 1].b, t, off[k].msg, FlushQos(session, off[k]))
                    ELSE run[k - 1]
  BY <1>3 DEF Flushing
<1> DEFINE Ours(client) == client.cid = c /\ ~client.clean_session
           Done(k) == run[k].ok =>
                        /\ Ours(run[k].b.clients[t])
                        /\ k >= i => Awaits(run[k].b.clients[t], c, m)
           S == {k \in 0 .. n : Done(k)}
<1>5. 0 \in S
  <2>1. ~(0 >= i) /\ 0 \in 0 .. n
    BY <1>1
  <2>2. run[0].b = b
    BY <1>4
  <2>3. QED
    BY <2>1, <2>2
<1>6. ASSUME NEW k \in 0 .. n - 1, k \in S PROVE k + 1 \in S
  <2> DEFINE j == k + 1
             q == FlushQos(session, off[j])
             a == run[k].b
             done == DeliverTo(a, t, off[j].msg, q)
  <2>1. j \in 1 .. n /\ j \in 0 .. n /\ j - 1 = k /\ k \in 0 .. n /\ (j >= i <=> k >= i \/ j = i)
    BY <1>1
  <2>2. SUFFICES ASSUME run[j].ok PROVE Done(j)
    BY <2>1
  <2>3. run[k].ok /\ run[j] = done
    BY <1>4, <2>1, <2>2
  <2>4. a \in Keeps(x)
    BY <1>4, <2>1 DEF Outcome
  <2>5. off[j].msg \in Msg /\ off[j].msg \in x.msgs /\ q \in 0..2
    BY <1>2, <2>1
  <2>6. j = i => off[j].msg = m /\ q > 0
    OBVIOUS
  <2> HIDE DEF j, q, a, m
  <2>7. /\ Continues(a.clients[t], done.b.clients[t])
        /\ q > 0 => \E e \in ToSet(done.b.clients[t].write_queue) : e.rel /\ e.pkt.msg = off[j].msg
    BY <2>2, <2>3, <2>4, <2>5, DeliverToHands
  <2> HIDE DEF done
  <2>8. Ours(a.clients[t]) /\ (k >= i => Awaits(a.clients[t], c, m))
    BY <1>6, <2>3 DEF a
  <2>9. Ours(done.b.clients[t])
    BY <2>7, <2>8 DEF Continues
  <2>10. j >= i => Awaits(done.b.clients[t], c, m)
    <3>1. CASE k >= i
      BY <2>7, <2>8, <3>1, StillAwaits
    <3>2. CASE j = i
      BY <2>6, <2>7, <2>9, <3>2 DEF Awaits
    <3>3. QED
      BY <2>1, <3>1, <3>2
  <2>11. QED
    BY <2>3, <2>9, <2>10
<1> HIDE DEF S
<1>7. n \in S
  <2>1. \A k \in 0 .. n : k \in S
    BY <1>1, <1>5, <1>6, IntervalInduction, Zenon
  <2>2. n \in 0 .. n
    BY <1>1
  <2>3. QED
    BY <2>1, <2>2
<1>8. QED
  BY <1>1, <1>4, <1>7 DEF S

\* The retained messages that a new subscription matches are delivered: a set of
\* outcomes that the subscription enters and no delivery leaves has the result.
LEMMA SubscribeOneIn ==
  ASSUME NEW V, NEW b, NEW t, NEW request, NEW retained, NEW A, NEW seq \in Seq(A),
         [b |-> AddSubs(b, t, <<request>>), ok |-> TRUE] \in V,
         \A acc \in V : \A topic \in A :
           acc.ok => DeliverTo(acc.b, t, retained[topic].msg,
                               LesserQos(retained[topic].qos, request.qos)) \in V
  PROVE  SubscribeOne(b, t, request, retained, seq) \in V
<1> DEFINE s == Only(seq, request.filter)
           n == Len(s)
           B == [k \in 0 .. n |-> V]
           base == [b |-> AddSubs(b, t, <<request>>), ok |-> TRUE]
           Op(done, topic) == IF done.ok
                             THEN DeliverTo(done.b, t, retained[topic].msg,
                                            LesserQos(retained[topic].qos, request.qos))
                             ELSE done
           G == [k \in 1 .. n |-> [acc \in V |-> Op(acc, s[k])]]
           Def(g) == [d \in SUBSET DOMAIN s |->
                        IF d = {} THEN base ELSE Op(g[d \ {Max(d)}], s[Max(d)])]
           h == CHOOSE g : g = Def(g)
<1>1. n \in Nat /\ DOMAIN s = 1 .. n /\ \A k \in 1 .. n : s[k] \in A
  <2>1. s \in Seq(A \cap request.filter)
    BY OnlyType
  <2> HIDE DEF s
  <2>2. QED
    BY <2>1, LenProperties, ElementOfSeq
<1>2. SubscribeOne(b, t, request, retained, seq) = h[DOMAIN s]
  BY DEF SubscribeOne, FoldLeft, MapThenFoldSet
<1>3. base \in V
  OBVIOUS
<1>4. ASSUME NEW k \in 1 .. n, NEW acc \in V PROVE Op(acc, s[k]) \in V
  BY <1>1
<1> HIDE DEF s, n, Op, base
<1>5. \A k \in 1 .. n : k - 1 \in 0 .. n /\ k \in 0 .. n
  BY <1>1
<1>6. Growing(B, n) /\ base \in B[0] /\ \A k \in 1 .. n : B[k - 1] = V /\ B[k] = V
  BY <1>1, <1>3, <1>5 DEF Growing
<1>7. B[n] = V
  BY <1>1
<1> HIDE DEF B
<1>8. Steps(G, B, n) /\ \A k \in 1 .. n : \A acc \in V : G[k][acc] = Op(acc, s[k])
  BY <1>4, <1>6 DEF Steps
<1> HIDE DEF G
<1>9. \A d \in SUBSET (1 .. n) : d # {} => Max(d) \in 1 .. n
  BY <1>1, MaxOfPositions
<1>10. \A g : Solution(g, G, base, n, B) => g = Def(g)
  <2>1. SUFFICES ASSUME NEW g, Solution(g, G, base, n, B) PROVE g = Def(g)
    BY Zenon
  <2>2. ASSUME NEW d \in SUBSET (1 .. n), d # {}
        PROVE  g[d] = Op(g[d \ {Max(d)}], s[Max(d)])
    <3>1. Max(d) \in 1 .. n
      BY <1>9, <2>2
    <3>2. g[d \ {Max(d)}] \in V /\ g[d] = G[Max(d)][g[d \ {Max(d)}]]
      BY <1>6, <2>1, <2>2, <3>1 DEF Solution
    <3>3. QED
      BY <1>8, <3>1, <3>2
  <2>3. QED
    BY <1>1, <2>1, <2>2 DEF Solution
<1>11. h = Def(h)
  BY <1>1, <1>6, <1>8, <1>10, FoldExists, Zenon
<1> HIDE DEF h
<1>12. \A d \in SUBSET (1 .. n) :
         h[d] = IF d = {} THEN base ELSE Op(h[d \ {Max(d)}], s[Max(d)])
  BY <1>1, <1>11
<1>13. \E run : Chain(run, G, base, n, B, h[1 .. n])
  <2>1. h[{}] = base
    BY <1>12
  <2>2. ASSUME NEW d \in SUBSET (1 .. n), d # {}, h[d \ {Max(d)}] \in B[Max(d) - 1]
        PROVE  h[d] = G[Max(d)][h[d \ {Max(d)}]]
    <3> DEFINE k == Max(d)
               e == h[d \ {k}]
    <3>1. k \in 1 .. n /\ e \in V
      BY <1>6, <1>9, <2>2
    <3>2. h[d] = Op(e, s[k])
      BY <1>12, <2>2
    <3> HIDE DEF k, e
    <3>3. G[k][e] = Op(e, s[k])
      BY <1>8, <3>1
    <3>4. QED
      BY <3>2, <3>3 DEF k, e
  <2>3. QED
    BY <1>1, <1>6, <1>8, <2>1, <2>2, FoldRun, Zenon
<1>14. h[1 .. n] \in V
  BY <1>1, <1>7, <1>13 DEF Chain
<1>15. QED
  BY <1>1, <1>2, <1>14

\* So the broker stays in good order.
LEMMA SubscribeOneKeeps ==
  ASSUME NEW x, NEW b \in Keeps(x), NEW t \in Token, Connected(b, t),
         NEW request \in FilterQos, NEW retained, x.msgs \subseteq Msg,
         NEW seq \in Seq({topic \in Topic : retained[topic] \in [msg : x.msgs, qos : 0..2]})
  PROVE  SubscribeOne(b, t, request, retained, seq) \in Outcome(x, t)
<1> DEFINE A == {topic \in Topic : retained[topic] \in [msg : x.msgs, qos : 0..2]}
<1>1. [b |-> AddSubs(b, t, <<request>>), ok |-> TRUE] \in Outcome(x, t)
  <2> DEFINE a == AddSubs(b, t, <<request>>)
  <2>1. <<request>> \in Seq(FilterQos)
    OBVIOUS
  <2>2. a \in Keeps(x) /\ a.clients = b.clients
    BY <2>1, AddSubsKeeps
  <2> HIDE DEF a
  <2>3. Connected(a, t)
    BY <2>2 DEF Connected
  <2>4. [b |-> a, ok |-> TRUE] \in Outcome(x, t)
    BY <2>2, <2>3 DEF Outcome
  <2>5. QED
    BY <2>4 DEF a
<1>2. ASSUME NEW acc \in Outcome(x, t), NEW topic \in A, acc.ok
      PROVE  DeliverTo(acc.b, t, retained[topic].msg, LesserQos(retained[topic].qos, request.qos))
               \in Outcome(x, t)
  <2> DEFINE held == retained[topic]
             q == LesserQos(held.qos, request.qos)
  <2>1. held.msg \in x.msgs /\ held.msg \in Msg /\ held.qos \in 0..2 /\ request.qos \in 0..2
    BY DEF FilterQos
  <2>2. q \in 0..2
    BY <2>1, LesserQosType
  <2> HIDE DEF q, held
  <2>3. acc.b \in Keeps(x)
    BY DEF Outcome
  <2>4. DeliverTo(acc.b, t, held.msg, q) \in Outcome(x, t)
    BY <2>1, <2>2, <2>3, DeliverToOutcome
  <2>5. QED
    BY <2>4 DEF q, held
<1> HIDE DEF A
<1>3. seq \in Seq(A)
  BY DEF A
<1>4. QED
  BY <1>1, <1>2, <1>3, SubscribeOneIn

\* The filters of a SUBSCRIBE are served one after the other, in a set of outcomes
\* that serving one does not leave.
LEMMA SubscribeAllIn ==
  ASSUME NEW V, NEW b, NEW t, NEW F, NEW topics \in Seq(F), NEW seq,
         [b |-> b, ok |-> TRUE] \in V,
         \A acc \in V : \A request \in F :
           acc.ok => SubscribeOne(acc.b, t, request, b.retained, seq) \in V
  PROVE  SubscribeAll(b, t, topics, seq) \in V
<1> DEFINE s == topics
           n == Len(topics)
           B == [k \in 0 .. n |-> V]
           base == [b |-> b, ok |-> TRUE]
           Op(acc, request) == IF acc.ok THEN SubscribeOne(acc.b, t, request, b.retained, seq) ELSE acc
           G == [k \in 1 .. n |-> [acc \in V |-> Op(acc, s[k])]]
           Def(g) == [d \in SUBSET DOMAIN s |->
                        IF d = {} THEN base ELSE Op(g[d \ {Max(d)}], s[Max(d)])]
           h == CHOOSE g : g = Def(g)
<1>1. n \in Nat /\ DOMAIN s = 1 .. n /\ \A k \in 1 .. n : s[k] \in F
  BY LenProperties, ElementOfSeq
<1>2. SubscribeAll(b, t, topics, seq) = h[DOMAIN s]
  BY DEF SubscribeAll, FoldLeft, MapThenFoldSet
<1>3. base \in V
  OBVIOUS
<1>4. ASSUME NEW k \in 1 .. n, NEW acc \in V PROVE Op(acc, s[k]) \in V
  BY <1>1
<1> HIDE DEF s, n, Op, base
<1>5. \A k \in 1 .. n : k - 1 \in 0 .. n /\ k \in 0 .. n
  BY <1>1
<1>6. Growing(B, n) /\ base \in B[0] /\ \A k \in 1 .. n : B[k - 1] = V /\ B[k] = V
  BY <1>1, <1>3, <1>5 DEF Growing
<1>7. B[n] = V
  BY <1>1
<1> HIDE DEF B
<1>8. Steps(G, B, n) /\ \A k \in 1 .. n : \A acc \in V : G[k][acc] = Op(acc, s[k])
  BY <1>4, <1>6 DEF Steps
<1> HIDE DEF G
<1>9. \A d \in SUBSET (1 .. n) : d # {} => Max(d) \in 1 .. n
  BY <1>1, MaxOfPositions
<1>10. \A g : Solution(g, G, base, n, B) => g = Def(g)
  <2>1. SUFFICES ASSUME NEW g, Solution(g, G, base, n, B) PROVE g = Def(g)
    BY Zenon
  <2>2. ASSUME NEW d \in SUBSET (1 .. n), d # {}
        PROVE  g[d] = Op(g[d \ {Max(d)}], s[Max(d)])
    <3>1. Max(d) \in 1 .. n
      BY <1>9, <2>2
    <3>2. g[d \ {Max(d)}] \in V /\ g[d] = G[Max(d)][g[d \ {Max(d)}]]
      BY <1>6, <2>1, <2>2, <3>1 DEF Solution
    <3>3. QED
      BY <1>8, <3>1, <3>2
  <2>3. QED
    BY <1>1, <2>1, <2>2 DEF Solution
<1>11. h = Def(h)
  BY <1>1, <1>6, <1>8, <1>10, FoldExists, Zenon
<1> HIDE DEF h
<1>12. \A d \in SUBSET (1 .. n) :
         h[d] = IF d = {} THEN base ELSE Op(h[d \ {Max(d)}], s[Max(d)])
  BY <1>1, <1>11
<1>13. \E run : Chain(run, G, base, n, B, h[1 .. n])
  <2>1. h[{}] = base
    BY <1>12
  <2>2. ASSUME NEW d \in SUBSET (1 .. n), d # {}, h[d \ {Max(d)}] \in B[Max(d) - 1]
        PROVE  h[d] = G[Max(d)][h[d \ {Max(d)}]]
    <3>1. Max(d) \in 1 .. n
      BY <1>9, <2>2
    <3>2. h[d \ {Max(d)}] \in V
      BY <1>6, <2>2, <3>1
    <3>3. h[d] = Op(h[d \ {Max(d)}], s[Max(d)])
      BY <1>12, <2>2
    <3>4. QED
      BY <1>8, <3>1, <3>2, <3>3
  <2>3. QED
    BY <1>1, <1>6, <1>8, <2>1, <2>2, FoldRun, Zenon
<1>14. h[1 .. n] \in V
  BY <1>1, <1>7, <1>13 DEF Chain
<1>15. QED
  BY <1>1, <1>2, <1>14

\* So the broker stays in good order.
LEMMA SubscribeAllKeeps ==
  ASSUME NEW x, NEW b \in Keeps(x), NEW t \in Token, Connected(b, t),
         NEW topics \in Seq(FilterQos), x.msgs \subseteq Msg,
         NEW seq \in Seq({topic \in Topic : b.retained[topic] \in [msg : x.msgs, qos : 0..2]})
  PROVE  SubscribeAll(b, t, topics, seq) \in Outcome(x, t)
<1>1. [b |-> b, ok |-> TRUE] \in Outcome(x, t)
  BY DEF Outcome
<1>2. ASSUME NEW acc \in Outcome(x, t), NEW request \in FilterQos, acc.ok
      PROVE  SubscribeOne(acc.b, t, request, b.retained, seq) \in Outcome(x, t)
  <2>1. acc.b \in Keeps(x) /\ Connected(acc.b, t)
    BY <1>2 DEF Outcome
  <2>2. QED
    BY <2>1, SubscribeOneKeeps
<1>3. QED
  BY <1>1, <1>2, SubscribeAllIn

----------------------------------------------------------------------------
(* The inductive invariant.                                                *)

\* The context of the state between two steps.
Context(file, kept, leaving) ==
  [msgs |-> Msg, file |-> file, kept |-> kept, leaving |-> leaving,
   live |-> Token, next |-> 1 .. MAX_TOKEN + 1]

GoodFile(kept) ==
  {Corrupt} \cup {state \in GoodState(Msg) : \A p \in kept.filed : IsStored(state.sessions, p)}

\* What is to stay in the file has to stay in memory, which overwrites it.
Placed(kept) ==
  /\ kept.filed \subseteq kept.stored
  /\ \A p \in kept.queued : p[1] \in Token /\ p[2] \in Cid

\* The broker, if it runs, and the state file, if it can be read, are in good
\* order; what is kept is where it was.
Standing(kept) ==
  /\ Placed(kept)
  /\ broker = Stopped \/ broker \in Keeps(Context(disk, kept, {}))
  /\ disk \in GoodFile(kept)
  /\ crashes \in 0 .. MAX_CRASH
  /\ order \in Seq(Msg)

IInv == Standing(Nothing)

\* Nothing has to stay.
LEMMA NothingStays ==
  /\ Nothing.filed = {} /\ Nothing.stored = {} /\ Nothing.queued = {} /\ Placed(Nothing)
BY DEF Nothing, Staying, Placed

\* The context of Standing, field by field.
LEMMA ContextFields ==
  \A file, kept, leaving :
    /\ Context(file, kept, leaving).msgs = Msg /\ Context(file, kept, leaving).file = file
    /\ Context(file, kept, leaving).kept = kept /\ Context(file, kept, leaving).leaving = leaving
    /\ Context(file, kept, leaving).live = Token
    /\ Context(file, kept, leaving).next = 1 .. MAX_TOKEN + 1
BY DEF Context

\* A snapshot is a readable state.
LEMMA SnapshotGood ==
  ASSUME NEW file, NEW kept, NEW leaving, NEW b \in Keeps(Context(file, kept, leaving)), Placed(kept)
  PROVE  Snapshot(b) \in GoodFile(kept)
<1> DEFINE x == Context(file, kept, leaving)
<1>1. b \in GoodBroker(Msg) /\ \A p \in kept.filed : IsStored(b.sessions, p)
  BY ContextFields DEF Keeps, Placed
<1>2. Snapshot(b) \in GoodState(Msg) /\ Snapshot(b).sessions = b.sessions
  BY <1>1 DEF Snapshot, GoodBroker, GoodState
<1>3. QED
  BY <1>1, <1>2 DEF GoodFile

\* A broker whose clients have not sent DISCONNECT, or have gone since, is in
\* good order for more, or for fewer, clients that leave.
LEMMA StillLeaving ==
  ASSUME NEW file, NEW kept, NEW t \in Token
  PROVE  /\ Keeps(Context(file, kept, {})) \subseteq Keeps(Context(file, kept, {t}))
         /\ \A b \in Keeps(Context(file, kept, {t})) :
              ~Connected(b, t) => b \in Keeps(Context(file, kept, {}))
BY ContextFields DEF Keeps

\* With the dirty flag up, the broker may differ from any file.
LEMMA DirtyKeeps ==
  ASSUME NEW file, NEW kept, NEW leaving, NEW b \in Keeps(Context(file, kept, leaving)),
         b.dirty, NEW file2
  PROVE  b \in Keeps(Context(file2, kept, leaving))
BY ContextFields DEF Keeps

\* save() keeps the file readable and the dirty flag true, or fails as a whole.
LEMMA SavedStep ==
  ASSUME NEW kept, NEW b \in Keeps(Context(disk, kept, {})), disk \in GoodFile(kept), Placed(kept),
         crashes \in 0 .. MAX_CRASH, order \in Seq(Msg), order' = order, Saved(b)
  PROVE  Standing(kept)'
<1>1. CASE b.dirty /\ broker' = [b EXCEPT !.dirty = FALSE] /\ disk' = Snapshot(b) /\ UNCHANGED crashes
  <2> DEFINE x == Context(disk, kept, {})
             y == Context(disk', kept, {})
             a == [b EXCEPT !.dirty = FALSE]
  <2>1. x.msgs = Msg /\ x.kept = kept /\ x.leaving = {} /\ x.live = Token /\ x.next = 1 .. MAX_TOKEN + 1
    BY ContextFields
  <2>2. /\ y.msgs = Msg /\ y.kept = kept /\ y.leaving = {} /\ y.file = Snapshot(b)
        /\ y.live = Token /\ y.next = 1 .. MAX_TOKEN + 1
    BY <1>1, ContextFields
  <2>3. b \in GoodBroker(Msg)
    BY <2>1 DEF Keeps
  <2>4. /\ a \in GoodBroker(Msg) /\ a.clients = b.clients /\ a.next_token = b.next_token
        /\ a.sessions = b.sessions /\ a.retained = b.retained
    BY <2>3 DEF GoodBroker
  <2>5. Snapshot(a) = Snapshot(b) /\ \A u \in Token : Connected(a, u) = Connected(b, u)
    BY <2>4 DEF Snapshot, Connected
  <2> HIDE DEF x, y, a
  <2>6. a \in Keeps(y)
    BY <2>1, <2>2, <2>4, <2>5 DEF Keeps, x
  <2>7. Snapshot(b) \in GoodFile(kept)
    BY SnapshotGood
  <2>8. QED
    BY <1>1, <2>6, <2>7 DEF Standing, a, y
<1>2. CASE ~b.dirty /\ broker' = b /\ UNCHANGED <<disk, crashes>>
  BY <1>2 DEF Standing
<1>3. CASE b.dirty /\ broker' = b /\ disk' \in {disk, Corrupt} /\ UNCHANGED crashes
  <2>1. b \in Keeps(Context(disk', kept, {}))
    BY <1>3, DirtyKeeps
  <2>2. disk' \in GoodFile(kept)
    BY <1>3 DEF GoodFile
  <2>3. QED
    BY <1>3, <2>1, <2>2 DEF Standing
<1>4. CASE crashes < MAX_CRASH /\ broker' = Stopped /\ disk' = Corrupt /\ crashes' = crashes + 1
  <2>1. disk' \in GoodFile(kept)
    BY <1>4 DEF GoodFile
  <2>2. crashes' \in 0 .. MAX_CRASH
    BY <1>4, BrokerAssumption
  <2>3. QED
    BY <1>4, <2>1, <2>2 DEF Standing
<1>5. QED
  BY <1>1, <1>2, <1>3, <1>4 DEF Saved

\* A handler that only changes the broker.
LEMMA BecomesStep ==
  ASSUME NEW kept, NEW b \in Keeps(Context(disk, kept, {})), disk \in GoodFile(kept), Placed(kept),
         crashes \in 0 .. MAX_CRASH, order' \in Seq(Msg), Becomes(b)
  PROVE  Standing(kept)'
BY DEF Becomes, Standing

\* The connection is closed: remove_client and save, or a panic.
LEMMA ClosesStep ==
  ASSUME NEW kept, NEW t \in Token, NEW b \in Keeps(Context(disk, kept, {t})),
         disk \in GoodFile(kept), Placed(kept), crashes \in 0 .. MAX_CRASH,
         order \in Seq(Msg), order' = order, Closes(b, t)
  PROVE  Standing(kept)'
<1>1. CASE Dies
  BY <1>1 DEF Dies, Standing
<1>2. CASE Saved(RemoveClient(b, t))
  <2> DEFINE a == RemoveClient(b, t)
             x == Context(disk, kept, {t})
  <2>1. b \in Keeps(x) /\ x.msgs \subseteq Msg
    BY ContextFields
  <2> HIDE DEF x
  <2>2. a \in Keeps(x) /\ ~Connected(a, t)
    BY <2>1, RemoveClientKeeps
  <2> HIDE DEF a
  <2>3. a \in Keeps(Context(disk, kept, {}))
    BY <2>2, StillLeaving DEF x
  <2>4. Saved(a)
    BY <1>2 DEF a
  <2>5. QED
    BY <2>3, <2>4, SavedStep
<1>3. QED
  BY <1>1, <1>2 DEF Closes

\* handle_packets returned: on Err the connection is closed.
LEMMA HandledStep ==
  ASSUME NEW kept, NEW t \in Token, NEW done, done.b \in Keeps(Context(disk, kept, {})),
         disk \in GoodFile(kept), Placed(kept), crashes \in 0 .. MAX_CRASH,
         order \in Seq(Msg), order' = order, Handled(done, t)
  PROVE  Standing(kept)'
<1>1. CASE Becomes(done.b)
  BY <1>1, BecomesStep
<1>2. CASE Closes(done.b, t)
  <2>1. done.b \in Keeps(Context(disk, kept, {t}))
    BY StillLeaving
  <2>2. QED
    BY <1>2, <2>1, ClosesStep
<1>3. QED
  BY <1>1, <1>2 DEF Handled

\* main: the process serves what it has read, and will write it again.
LEMMA BootGood ==
  ASSUME NEW kept, NEW state \in GoodFile(kept), state # Corrupt, NEW file,
         Placed(kept), kept.stored \subseteq kept.filed
  PROVE  Boot(state) \in Keeps(Context(file, kept, {}))
<1> DEFINE a == Boot(state)
           x == Context(file, kept, {})
<1>1. state \in GoodState(Msg) /\ \A p \in kept.stored : IsStored(state.sessions, p)
  BY DEF GoodFile
<1>2. 1 \in 1 .. MAX_TOKEN + 1
  BY BrokerAssumption
<1>3. [t \in Token |-> Gone] \in [Token -> GoodClient(Msg)]
  BY GoneGood
<1>4. a \in GoodBroker(Msg) /\ a.dirty /\ a.sessions = state.sessions /\ a.next_token = 1
  <2>1. <<>> \in Seq(SubType)
    BY EmptySeq
  <2>2. state.retained \in RetainedType /\ state.sessions \in [Cid -> GoodSession(Msg)]
    BY <1>1 DEF GoodState
  <2>3. QED
    BY <1>2, <1>3, <2>1, <2>2 DEF Boot, GoodBroker
<1>5. \A u \in Token : ~Connected(a, u)
  BY DEF Boot, Connected, Gone
<1> HIDE DEF a
<1>6. \A p \in kept.queued : IsQueued(a.clients, p)
  BY <1>5 DEF Placed, IsQueued, Connected
<1>7. a \in Keeps(x)
  <2>1. x.msgs = Msg /\ x.kept = kept /\ x.live = Token /\ x.next = 1 .. MAX_TOKEN + 1
    BY ContextFields
  <2> HIDE DEF x
  <2>2. QED
    BY <1>1, <1>2, <1>4, <1>5, <1>6, <2>1 DEF Keeps
<1>8. QED
  BY <1>7 DEF a

\* What main starts from when there is no file.
LEMMA EmptyStateGood ==
  /\ EmptyState # Corrupt
  /\ \A kept : kept.filed = {} => EmptyState \in GoodFile(kept)
<1>1. EmptyState \in GoodState(Msg)
  BY DEF EmptyState, GoodState, RetainedType, GoodSession
<1>2. EmptyState # Corrupt
  <2>1. DOMAIN EmptyState = {"retained", "sessions"} /\ DOMAIN Corrupt = {"readable"}
    BY DEF EmptyState, Corrupt
  <2>2. QED
    BY <2>1
<1>3. QED
  BY <1>1, <1>2 DEF GoodFile

\* The first start finds no file.
LEMMA InitStanding == Init => IInv
<1>1. EmptyState \in GoodFile(Nothing)
  BY EmptyStateGood, NothingStays
<1>2. Boot(EmptyState) \in Keeps(Context(EmptyState, Nothing, {}))
  BY <1>1, EmptyStateGood, NothingStays, BootGood
<1>3. QED
  BY <1>1, <1>2, NothingStays, BrokerAssumption DEF Init, IInv, Standing

----------------------------------------------------------------------------
(* Every action preserves it.  Each lemma is about what is kept for absent *)
(* clients too; the invariant is the case in which that is nothing.        *)

\* While no process runs, what is to stay in the sessions is in the file.
Readable(kept) ==
  Running \/ (IF disk = Corrupt THEN kept.stored = {} ELSE kept.stored \subseteq kept.filed)

\* While it runs, the broker is in good order.
LEMMA RunningStanding ==
  ASSUME NEW kept, Standing(kept), Running
  PROVE  /\ broker \in Keeps(Context(disk, kept, {})) /\ Placed(kept)
         /\ disk \in GoodFile(kept) /\ crashes \in 0 .. MAX_CRASH /\ order \in Seq(Msg)
BY DEF Standing, Running

\* A new client has an empty queue and an empty window.
LEMMA NewClientGood ==
  ASSUME NEW M
  PROVE  NewClient \in GoodClient(M) /\ ~NewClient.clean_disconnect
<1>1. NewClient \in ConnectedOf(M)
  <2>1. <<>> \in Seq(EntryOf(M))
    BY EmptySeq
  <2>2. QED
    BY <2>1 DEF NewClient, ConnectedOf
<1>2. NewClient.write_queue = <<>> /\ NewClient.in_flight = {} /\ ~NewClient.clean_disconnect
  BY DEF NewClient
<1>3. IsFiniteSet({}) /\ Cardinality({}) = 0 /\ Len(<<>>) = 0
  BY FS_EmptySet, EmptySeq
<1>4. 0 <= WRITE_QUEUE_CAP /\ 0 <= IN_FLIGHT_CAP
  BY CapAssumption
<1>5. QED
  BY <1>1, <1>2, <1>3, <1>4 DEF GoodClient

\* accept gives out the next token.
LEMMA AcceptStep ==
  ASSUME NEW kept, Standing(kept), \A p \in kept.queued : p[1] # broker.next_token, Accept
  PROVE  Standing(kept)'
<1> DEFINE x == Context(disk, kept, {})
           t == broker.next_token
           clients == [broker.clients EXCEPT ![t] = NewClient]
           a == [broker EXCEPT !.clients = clients, !.next_token = t + 1]
<1>1. /\ broker \in Keeps(x) /\ disk \in GoodFile(kept) /\ Placed(kept)
      /\ crashes \in 0 .. MAX_CRASH /\ order \in Seq(Msg)
  BY RunningStanding DEF Accept
<1>2. x.msgs = Msg /\ x.live = Token /\ x.next = 1 .. MAX_TOKEN + 1
  BY ContextFields
<1> HIDE DEF x
<1>3. broker \in GoodBroker(Msg)
  BY <1>1, <1>2 DEF Keeps
<1>4. t \in Token /\ t + 1 \in 1 .. MAX_TOKEN + 1 /\ t \in Nat
  <2>1. t \in 1 .. MAX_TOKEN + 1 /\ t <= MAX_TOKEN /\ MAX_TOKEN \in Nat
    BY <1>3, BrokerAssumption DEF GoodBroker, Accept
  <2> HIDE DEF t
  <2>2. QED
    BY <2>1 DEF Token
<1>5. Becomes(a) /\ order' \in Seq(Msg)
  <2>1. a = [broker EXCEPT !.clients[broker.next_token] = NewClient, !.next_token = @ + 1]
    BY <1>3 DEF GoodBroker
  <2>2. QED
    BY <1>1, <2>1 DEF Accept
<1>6. \A u \in Token : Connected(broker, u) => u \in x.live /\ u < t /\ ~broker.clients[u].clean_disconnect
  BY <1>1, ContextFields DEF Keeps, x
<1>7. \A p \in x.kept.queued : IsQueued(broker.clients, p)
  BY <1>1 DEF Keeps
<1>8. broker.clients \in [Token -> GoodClient(Msg)] /\ NewClient \in GoodClient(Msg) /\ ~NewClient.clean_disconnect
  BY <1>3, NewClientGood DEF GoodBroker
<1>9. ~Connected(broker, t)
  BY <1>4, <1>6
<1> HIDE DEF t
<1>10. clients \in [Token -> GoodClient(Msg)] /\ \A u \in Token : clients[u] = IF u = t THEN NewClient ELSE broker.clients[u]
  BY <1>4, <1>8
<1> HIDE DEF clients
<1>11. /\ a \in GoodBroker(Msg) /\ a.clients = clients /\ a.dirty = broker.dirty
       /\ a.sessions = broker.sessions /\ a.retained = broker.retained /\ a.next_token = t + 1
  BY <1>3, <1>4, <1>10 DEF GoodBroker
<1> HIDE DEF a
<1>12. \A u \in Token : Connected(a, u) => u \in x.live /\ u < t + 1 /\ ~a.clients[u].clean_disconnect
  <2>1. ASSUME NEW u \in Token, Connected(a, u)
        PROVE  u \in x.live /\ u < t + 1 /\ ~a.clients[u].clean_disconnect
    <3>1. CASE u = t
      BY <1>2, <1>4, <1>8, <1>10, <1>11, <3>1
    <3>2. CASE u # t
      <4>1. a.clients[u] = broker.clients[u] /\ u \in Nat
        BY <1>10, <1>11, <3>2 DEF Token
      <4>2. Connected(broker, u)
        BY <2>1, <4>1 DEF Connected
      <4>3. u < t
        BY <1>6, <4>2
      <4>4. QED
        BY <1>4, <1>6, <4>1, <4>2, <4>3
    <3>3. QED
      BY <3>1, <3>2
  <2>2. QED
    BY <2>1
<1>13. \A p \in x.kept.queued : IsQueued(a.clients, p)
  <2>1. ASSUME NEW p \in x.kept.queued PROVE IsQueued(a.clients, p)
    <3>1. IsQueued(broker.clients, p) /\ p[1] \in Token
      BY <1>7 DEF IsQueued
    <3>2. p[1] # t => a.clients[p[1]] = broker.clients[p[1]]
      BY <1>10, <1>11, <3>1
    <3>3. p[1] # t
      BY ContextFields DEF t, x
    <3>4. QED
      BY <3>1, <3>2, <3>3 DEF IsQueued
  <2>2. QED
    BY <2>1
<1>14. Snapshot(a) = Snapshot(broker)
  BY <1>11 DEF Snapshot
<1>15. a \in Keeps(x)
  BY <1>1, <1>2, <1>4, <1>11, <1>12, <1>13, <1>14 DEF Keeps
<1>16. QED
  BY <1>1, <1>5, <1>15, BecomesStep DEF x

\* The save of the loop tail.
LEMMA SaveStep ==
  ASSUME NEW kept, Standing(kept), Save
  PROVE  Standing(kept)'
<1>1. /\ broker \in Keeps(Context(disk, kept, {})) /\ disk \in GoodFile(kept) /\ Placed(kept)
      /\ crashes \in 0 .. MAX_CRASH /\ order \in Seq(Msg)
  BY RunningStanding DEF Save
<1>2. Saved(broker) /\ order' = order
  BY DEF Save
<1>3. QED
  BY <1>1, <1>2, SavedStep

\* A crash leaves the file.
LEMMA CrashStep ==
  ASSUME NEW kept, Standing(kept), Crash
  PROVE  Standing(kept)'
<1>1. disk' \in GoodFile(kept) /\ broker' = Stopped /\ order' \in Seq(Msg)
  BY DEF Standing, Crash
<1>2. crashes' \in 0 .. MAX_CRASH
  BY BrokerAssumption DEF Standing, Crash
<1>3. QED
  BY <1>1, <1>2 DEF Standing

\* The process reads the file, or starts empty.
LEMMA StartStep ==
  ASSUME NEW kept, Standing(kept), Readable(kept), Start
  PROVE  Standing(kept)'
<1>1. disk \in GoodFile(kept) /\ disk' = disk /\ Placed(kept)
  BY DEF Standing, Start
<1>2. broker' \in Keeps(Context(disk, kept, {}))
  <2>1. CASE disk = Corrupt
    <3>1. kept.stored = {} /\ broker' = Boot(EmptyState)
      BY <2>1 DEF Readable, Start, Running
    <3>2. kept.filed = {}
      BY <1>1, <3>1 DEF Placed
    <3>3. QED
      BY <1>1, <3>1, <3>2, EmptyStateGood, BootGood
  <2>2. CASE disk # Corrupt
    <3>1. broker' = Boot(disk) /\ kept.stored \subseteq kept.filed
      BY <2>2 DEF Readable, Start, Running
    <3>2. QED
      BY <1>1, <2>2, <3>1, BootGood
  <2>3. QED
    BY <2>1, <2>2
<1>3. crashes' \in 0 .. MAX_CRASH /\ order' \in Seq(Msg)
  BY DEF Standing, Start
<1>4. QED
  BY <1>1, <1>2, <1>3 DEF Standing

\* The $SYS messages go through publish like all others.
LEMMA PublishSysStep ==
  ASSUME NEW kept, Standing(kept), PublishSys
  PROVE  Standing(kept)'
<1>1. /\ broker \in Keeps(Context(disk, kept, {})) /\ disk \in GoodFile(kept) /\ Placed(kept)
      /\ crashes \in 0 .. MAX_CRASH /\ order \in Seq(Msg)
  BY RunningStanding DEF PublishSys
<1>2. Becomes(SysPublished(broker)) /\ order' = order
  BY DEF PublishSys
<1>3. SysPublished(broker) \in Keeps(Context(disk, kept, {}))
  BY <1>1, SysPublishedKeeps
<1>4. QED
  BY <1>1, <1>2, <1>3, BecomesStep

\* CONNECT names the connection and answers it.
Greet(b, t, c, clean) ==
  QueueReply([b EXCEPT !.clients[t] =
                [@ EXCEPT !.cid = c, !.clean_session = clean, !.will = WillOf[c]]], t)

LEMMA GreetKeeps ==
  ASSUME NEW x, NEW b \in Keeps(x), NEW t \in Token, Connected(b, t), b.clients[t].cid = NoCid,
         NEW c \in Cid, NEW clean \in BOOLEAN, WillOf[c] \in x.msgs \cup {NoMsg}
  PROVE  /\ Greet(b, t, c, clean) \in Keeps(x) /\ Connected(Greet(b, t, c, clean), t)
         /\ Greet(b, t, c, clean).clients[t].cid = c
         /\ Greet(b, t, c, clean).clients[t].clean_session = clean
<1> DEFINE client == [b.clients[t] EXCEPT !.cid = c, !.clean_session = clean, !.will = WillOf[c]]
           named == [b EXCEPT !.clients[t] = client]
           greeted == QueueReply(named, t)
<1>1. /\ b.clients[t] \in ConnectedOf(x.msgs)
      /\ Len(b.clients[t].write_queue) <= WRITE_QUEUE_CAP
      /\ IsFiniteSet(b.clients[t].in_flight)
      /\ Cardinality(b.clients[t].in_flight) <= IN_FLIGHT_CAP
  BY LiveClient
<1>2. /\ client \in ConnectedOf(x.msgs)
      /\ client.cid = c /\ client.clean_session = clean
      /\ client.write_queue = b.clients[t].write_queue
      /\ client.in_flight = b.clients[t].in_flight
      /\ client.clean_disconnect = b.clients[t].clean_disconnect
  BY <1>1 DEF ConnectedOf
<1>3. Greet(b, t, c, clean) = greeted
  BY DEF Greet, Keeps, GoodBroker
<1>4. b.clients[t].cid \notin Cid
  BY BrokerAssumption
<1> HIDE DEF client
<1>5. named \in Keeps(x) /\ Connected(named, t)
  <2>1. \A p \in x.kept.queued : p[1] # t
    BY <1>4, ClientOf DEF Connected, Awaits
  <2>2. QED
    BY <1>1, <1>2, <2>1, ReplaceKeeps
<1>6. named.clients[t] = client
  BY DEF Keeps, GoodBroker
<1> HIDE DEF named
<1>7. greeted \in Keeps(x) /\ Connected(greeted, t)
  BY <1>5, QueueReplyKeeps
<1>8. Continues(named.clients[t], greeted.clients[t])
  BY <1>5, QueueReplyContinues
<1>9. QED
  BY <1>2, <1>3, <1>6, <1>7, <1>8 DEF Continues

\* CONNECT, of a client for which nothing is stored: its session may be resumed
\* and taken out of the store.
LEMMA ConnectResult ==
  ASSUME NEW x, x.msgs \subseteq Msg, broker \in Keeps(x),
         NEW t \in Token, NEW c \in Cid, NEW clean \in BOOLEAN,
         WillOf[c] \in x.msgs \cup {NoMsg}, \A p \in x.kept.stored : p[1] # c, Connect(t, c, clean)
  PROVE  \E done : done.b \in Keeps(x) /\ Handled(done, t)
<1> DEFINE session == broker.sessions[c]
           resumes == ~clean /\ session.stored
           cleared == IF clean THEN Forget(broker, c) ELSE broker
           restored == IF resumes THEN AddSubs(cleared, t, session.subs) ELSE cleared
           greeted == Greet(restored, t, c, clean)
           flushed == IF resumes THEN FlushSession(greeted, t, session)
                      ELSE [b |-> greeted, ok |-> TRUE]
           done == IF flushed.ok /\ resumes THEN [flushed EXCEPT !.b = Forget(@, c)] ELSE flushed
<1>1. Connected(broker, t) /\ broker.clients[t].cid = NoCid /\ Handled(done, t)
  BY DEF Connect, Greet
<1>2. session \in GoodSession(x.msgs)
  BY DEF Keeps, GoodBroker
<1>3. resumes => session \in StoredOf(x.msgs)
  BY <1>2, StoredSession
<1> HIDE DEF session
<1>4. cleared \in Keeps(x) /\ cleared.clients = broker.clients
  BY ForgetKeeps
<1> HIDE DEF cleared
<1>5. restored \in Keeps(x) /\ restored.clients = broker.clients
  <2>1. CASE resumes
    <3>1. session.subs \in Seq(FilterQos)
      BY <1>3, <2>1 DEF StoredOf
    <3>2. QED
      BY <1>4, <2>1, <3>1, AddSubsKeeps
  <2>2. CASE ~resumes
    BY <1>4, <2>2
  <2>3. QED
    BY <2>1, <2>2
<1> HIDE DEF restored, resumes
<1>6. Connected(restored, t) /\ restored.clients[t].cid = NoCid
  BY <1>1, <1>5 DEF Connected
<1>7. greeted \in Keeps(x) /\ Connected(greeted, t)
  BY <1>5, <1>6, GreetKeeps
<1> HIDE DEF greeted
<1>8. flushed \in Outcome(x, t)
  <2>1. CASE resumes
    <3>1. FlushSession(greeted, t, session) \in Outcome(x, t)
      BY <1>3, <1>7, <2>1, FlushSessionKeeps
    <3>2. QED
      BY <2>1, <3>1
  <2>2. CASE ~resumes
    BY <1>7, <2>2 DEF Outcome
  <2>3. QED
    BY <2>1, <2>2
<1> HIDE DEF flushed
<1>9. flushed \in [b : Keeps(x), ok : BOOLEAN]
  BY <1>8 DEF Outcome
<1>10. Forget(flushed.b, c) \in Keeps(x)
  BY <1>9, ForgetKeeps
<1>11. done.b \in Keeps(x)
  BY <1>9, <1>10
<1> HIDE DEF done
<1>12. QED
  BY <1>1, <1>11

\* The handler as a step: Err closes the connection.
LEMMA ConnectStep ==
  ASSUME NEW kept, Standing(kept), NEW t \in Token, NEW c \in Cid, NEW clean \in BOOLEAN,
         \A p \in kept.stored : p[1] # c, Connect(t, c, clean)
  PROVE  Standing(kept)'
<1> DEFINE x == Context(disk, kept, {})
<1>1. /\ broker \in Keeps(x) /\ disk \in GoodFile(kept) /\ Placed(kept) /\ crashes \in 0 .. MAX_CRASH
      /\ order \in Seq(Msg) /\ order' = order
  BY RunningStanding DEF Connect
<1>2. x.msgs = Msg /\ x.kept = kept
  BY ContextFields
<1>3. WillOf[c] \in Msg \cup {NoMsg}
  BY BrokerAssumption
<1> HIDE DEF x
<1>4. PICK done : done.b \in Keeps(x) /\ Handled(done, t)
  BY <1>1, <1>2, <1>3, ConnectResult
<1>5. QED
  BY <1>1, <1>4, HandledStep DEF x

\* The orders in which a finite set may be gone through.
LEMMA ListsOfSet ==
  ASSUME NEW S, IsFiniteSet(S)
  PROVE  SetToSeqs(S) \subseteq Seq(S)
<1>1. Cardinality(S) \in Nat
  BY FS_CardinalityType
<1>2. QED
  BY <1>1 DEF SetToSeqs

\* Whatever the order in which the retained messages are looked through, they are
\* messages that may be sent.
LEMMA RetainedSeqs ==
  ASSUME NEW M, NEW retained \in RetainedType, M = Msg, NEW stored,
         stored = {topic \in Topic : retained[topic].msg # NoMsg}, NEW seq \in SetToSeqs(stored)
  PROVE  seq \in Seq({topic \in Topic : retained[topic] \in [msg : M, qos : 0..2]})
<1> DEFINE A == {topic \in Topic : retained[topic] \in [msg : M, qos : 0..2]}
<1>1. stored \subseteq A
  BY DEF RetainedType, HeldType, Held
<1>2. SetToSeqs(stored) \subseteq Seq(stored)
  BY BrokerAssumption, FS_Subset, ListsOfSet
<1> HIDE DEF A
<1>3. seq \in Seq(A \cap stored)
  <2>1. A \cap stored = stored
    BY <1>1
  <2>2. QED
    BY <1>2, <2>1
<1>4. seq \in Seq(A)
  BY <1>3, NarrowSeq
<1>5. QED
  BY <1>4 DEF A

\* SUBSCRIBE sends only messages that are retained.
LEMMA SubscribeStep ==
  ASSUME NEW kept, Standing(kept), NEW t \in Token, NEW topics \in Requests, Subscribe(t, topics)
  PROVE  Standing(kept)'
<1> DEFINE x == Context(disk, kept, {})
           stored == {topic \in Topic : broker.retained[topic].msg # NoMsg}
<1>1. Running /\ Connected(broker, t)
  BY DEF Subscribe, Is
<1>2. /\ broker \in Keeps(x) /\ disk \in GoodFile(kept) /\ Placed(kept) /\ crashes \in 0 .. MAX_CRASH
      /\ order \in Seq(Msg) /\ order' = order
  BY <1>1, RunningStanding DEF Subscribe
<1>3. x.msgs = Msg
  BY ContextFields
<1>4. topics \in Seq(FilterQos)
  BY BrokerAssumption DEF FilterQos
<1>5. broker.retained \in RetainedType
  BY <1>2 DEF Keeps, GoodBroker
<1>7. PICK seq \in SetToSeqs(stored) :
        LET sent == SubscribeAll(broker, t, topics, seq)
        IN  Handled(IF sent.ok THEN [sent EXCEPT !.b = QueueReply(@, t)] ELSE sent, t)
  BY DEF Subscribe
<1>8. seq \in Seq({topic \in Topic : broker.retained[topic] \in [msg : x.msgs, qos : 0..2]})
  <2> HIDE DEF x
  <2>1. QED
    BY <1>3, <1>5, RetainedSeqs
<1> DEFINE sent == SubscribeAll(broker, t, topics, seq)
           done == IF sent.ok THEN [sent EXCEPT !.b = QueueReply(@, t)] ELSE sent
<1>9. Handled(done, t)
  BY <1>7
<1> HIDE DEF x, stored
<1>10. sent \in Outcome(x, t)
  BY <1>1, <1>2, <1>3, <1>4, <1>8, SubscribeAllKeeps
<1> HIDE DEF sent
<1>11. sent \in [b : Keeps(x), ok : BOOLEAN] /\ (sent.ok => Connected(sent.b, t))
  BY <1>10 DEF Outcome
<1>12. sent.ok => QueueReply(sent.b, t) \in Keeps(x)
  BY <1>11, QueueReplyKeeps
<1>13. done.b \in Keeps(x)
  BY <1>11, <1>12
<1> HIDE DEF done
<1>14. QED
  BY <1>2, <1>9, <1>13, HandledStep DEF x

\* UNSUBSCRIBE thins the subscriptions out.
LEMMA UnsubscribeStep ==
  ASSUME NEW kept, Standing(kept), NEW t \in Token, NEW filters, Unsubscribe(t, filters)
  PROVE  Standing(kept)'
<1> DEFINE x == Context(disk, kept, {})
           leaving == {s \in OwnSubs(broker, t) : s.filter \in filters}
           S == ToSet(broker.subs) \ leaving
           subs == Only(broker.subs, S)
           a == [broker EXCEPT !.subs = subs]
<1>1. Running /\ Connected(broker, t)
  BY DEF Unsubscribe, Named, Is
<1>2. /\ broker \in Keeps(x) /\ disk \in GoodFile(kept) /\ Placed(kept) /\ crashes \in 0 .. MAX_CRASH
      /\ order \in Seq(Msg) /\ order' = order
  BY <1>1, RunningStanding DEF Unsubscribe
<1> HIDE DEF x
<1>3. broker.subs \in Seq(SubType) /\ broker \in GoodBroker(x.msgs)
  BY <1>2 DEF Keeps, GoodBroker
<1>4. Becomes(QueueReply(a, t))
  BY <1>3 DEF Unsubscribe, GoodBroker
<1> HIDE DEF S
<1>5. subs \in Seq(SubType \cap S)
  BY <1>3, OnlyType
<1> HIDE DEF subs
<1>6. subs \in Seq(SubType)
  BY <1>5, NarrowSeq
<1>7. a \in Keeps(x)
  BY <1>2, <1>6, KeepsSubs
<1>8. Connected(a, t)
  BY <1>1, <1>3 DEF Connected, GoodBroker
<1> HIDE DEF a
<1>9. QueueReply(a, t) \in Keeps(x)
  BY <1>7, <1>8, QueueReplyKeeps
<1>10. QED
  BY <1>2, <1>4, <1>9, BecomesStep DEF x

\* PUBLISH never ends the connection it came from in this step.
LEMMA PublishPacketResult ==
  ASSUME NEW x, broker \in Keeps(x), NEW t \in Token, NEW m \in Msg,
         NEW qos \in 0..2, qos > 0 => m \in x.msgs, NEW retain \in BOOLEAN,
         PublishPacket(t, m, qos, retain)
  PROVE  \E b \in Keeps(x) : Becomes(b)
<1> DEFINE replied == IF qos > 0 THEN QueueReply(broker, t) ELSE broker
<1>1. Connected(broker, t) /\ Becomes(Publish(replied, m, qos, retain))
  BY DEF PublishPacket, Is
<1>2. replied \in Keeps(x)
  BY <1>1, QueueReplyKeeps
<1> HIDE DEF replied
<1>3. Publish(replied, m, qos, retain) \in Keeps(x)
  BY <1>2, PublishKeeps
<1>4. QED
  BY <1>1, <1>3

\* PUBLISH as a step.
LEMMA PublishPacketStep ==
  ASSUME NEW kept, Standing(kept), NEW t \in Token, NEW m \in Msg, NEW qos \in PUB_QOS,
         NEW retain \in BOOLEAN, PublishPacket(t, m, qos, retain)
  PROVE  Standing(kept)'
<1> DEFINE x == Context(disk, kept, {})
<1>1. /\ broker \in Keeps(x) /\ disk \in GoodFile(kept) /\ Placed(kept) /\ crashes \in 0 .. MAX_CRASH
      /\ order \in Seq(Msg) /\ order' = Append(order, m)
  BY RunningStanding DEF PublishPacket, Is
<1>2. x.msgs = Msg /\ qos \in 0..2
  BY ContextFields, BrokerAssumption
<1> HIDE DEF x
<1>3. PICK b \in Keeps(x) : Becomes(b)
  BY <1>1, <1>2, PublishPacketResult
<1>4. order' \in Seq(Msg)
  BY <1>1, AppendProperties
<1>5. QED
  BY <1>1, <1>3, <1>4, BecomesStep DEF x

\* DISCONNECT: the client that is closed is in x.leaving.
LEMMA DisconnectPacketResult ==
  ASSUME NEW x, broker \in Keeps(x), NEW t \in Token, t \in x.leaving, DisconnectPacket(t)
  PROVE  /\ [broker EXCEPT !.clients[t].clean_disconnect = TRUE] \in Keeps(x)
         /\ Closes([broker EXCEPT !.clients[t].clean_disconnect = TRUE], t)
<1> DEFINE client == [broker.clients[t] EXCEPT !.clean_disconnect = TRUE]
           a == [broker EXCEPT !.clients[t].clean_disconnect = TRUE]
<1>1. Connected(broker, t) /\ Closes(a, t)
  BY DEF DisconnectPacket, Named, Is
<1>2. /\ broker.clients[t] \in ConnectedOf(x.msgs)
      /\ Len(broker.clients[t].write_queue) <= WRITE_QUEUE_CAP
      /\ IsFiniteSet(broker.clients[t].in_flight)
      /\ Cardinality(broker.clients[t].in_flight) <= IN_FLIGHT_CAP
  BY <1>1, LiveClient
<1>3. /\ client \in ConnectedOf(x.msgs)
      /\ client.write_queue = broker.clients[t].write_queue
      /\ client.in_flight = broker.clients[t].in_flight
      /\ client.cid = broker.clients[t].cid /\ client.clean_session = broker.clients[t].clean_session
  BY <1>2 DEF ConnectedOf
<1>4. a = [broker EXCEPT !.clients[t] = client]
  BY DEF Keeps, GoodBroker
<1> HIDE DEF client
<1>5. client \in GoodClient(x.msgs) /\ t \in x.live /\ t < broker.next_token
  BY <1>1, <1>2, <1>3, ClientOf DEF GoodClient, Connected
<1> HIDE DEF a
<1>6. [broker EXCEPT !.clients[t] = client] \in Keeps(x)
  <2>1. Continues(broker.clients[t], client)
    BY <1>3, RetainsOnward DEF Continues
  <2>2. \A p \in x.kept.queued : p[1] = t => Awaits(client, p[2], p[3])
    BY <1>1, <2>1, ClientOf, StillAwaits DEF Connected
  <2>3. QED
    BY <1>5, <2>2, KeepsClient
<1>7. QED
  BY <1>1, <1>4, <1>6 DEF a

\* DISCONNECT as a step.
LEMMA DisconnectPacketStep ==
  ASSUME NEW kept, Standing(kept), NEW t \in Token, DisconnectPacket(t)
  PROVE  Standing(kept)'
<1> DEFINE x == Context(disk, kept, {t})
<1>1. /\ broker \in Keeps(Context(disk, kept, {})) /\ disk \in GoodFile(kept) /\ Placed(kept)
      /\ crashes \in 0 .. MAX_CRASH /\ order \in Seq(Msg) /\ order' = order
  BY RunningStanding DEF DisconnectPacket, Named, Is
<1>2. broker \in Keeps(x) /\ t \in x.leaving
  BY <1>1, StillLeaving, ContextFields
<1> HIDE DEF x
<1> DEFINE b == [broker EXCEPT !.clients[t].clean_disconnect = TRUE]
<1>3. b \in Keeps(x) /\ Closes(b, t)
  BY <1>2, DisconnectPacketResult
<1> HIDE DEF b
<1>4. QED
  BY <1>1, <1>3, ClosesStep DEF x

\* A connection that is lost.
LEMMA LoseStep ==
  ASSUME NEW kept, Standing(kept), NEW t \in Token, Lose(t)
  PROVE  Standing(kept)'
<1>1. /\ broker \in Keeps(Context(disk, kept, {})) /\ disk \in GoodFile(kept) /\ Placed(kept)
      /\ crashes \in 0 .. MAX_CRASH /\ order \in Seq(Msg)
  BY RunningStanding DEF Lose
<1>2. broker \in Keeps(Context(disk, kept, {t}))
  BY <1>1, StillLeaving
<1>3. QED
  BY <1>1, <1>2, ClosesStep DEF Lose

\* A packet leaves the queue for the socket.
LEMMA FlushStep ==
  ASSUME NEW kept, Standing(kept), NEW t \in Token, \A p \in kept.queued : p[1] # t, Flush(t)
  PROVE  Standing(kept)'
<1> DEFINE x == Context(disk, kept, {})
           queue == broker.clients[t].write_queue
<1>1. Running /\ Connected(broker, t) /\ queue # <<>>
  BY DEF Flush, Named, Is
<1>2. /\ broker \in Keeps(x) /\ disk \in GoodFile(kept) /\ Placed(kept) /\ crashes \in 0 .. MAX_CRASH
      /\ order \in Seq(Msg) /\ order' = order
  BY <1>1, RunningStanding DEF Flush
<1> HIDE DEF x
<1>3. queue \in Seq(EntryOf(x.msgs)) /\ Len(queue) <= WRITE_QUEUE_CAP
  <2>1. broker.clients[t] \in ConnectedOf(x.msgs) /\ Len(queue) <= WRITE_QUEUE_CAP
    BY <1>1, <1>2, LiveClient
  <2>2. QED
    BY <2>1 DEF ConnectedOf
<1>4. Becomes([broker EXCEPT !.clients[t].write_queue = Tail(queue)])
  <2>1. [broker EXCEPT !.clients[t].write_queue = Tail(@)]
          = [broker EXCEPT !.clients[t].write_queue = Tail(queue)]
    OBVIOUS
  <2>2. QED
    BY <2>1 DEF Flush
<1> DEFINE rest == Tail(queue)
<1> HIDE DEF queue
<1>5. rest \in Seq(EntryOf(x.msgs)) /\ Len(rest) <= WRITE_QUEUE_CAP
  <2>1. Tail(queue) \in Seq(EntryOf(x.msgs)) /\ Len(Tail(queue)) = Len(queue) - 1
    BY <1>1, <1>3, HeadTailProperties
  <2> HIDE DEF rest
  <2>2. rest \in Seq(EntryOf(x.msgs)) /\ Len(rest) = Len(queue) - 1
    BY <2>1 DEF rest
  <2>3. Len(queue) \in Nat
    BY <1>3, LenProperties
  <2>4. QED
    BY <1>3, <2>2, <2>3, CapAssumption
<1> HIDE DEF rest
<1>6. [broker EXCEPT !.clients[t].write_queue = rest] \in Keeps(x)
  <2>1. \A p \in x.kept.queued : p[1] # t
    BY ContextFields DEF x
  <2>2. QED
    BY <1>1, <1>2, <1>5, <2>1, QueueKeeps
<1>7. Becomes([broker EXCEPT !.clients[t].write_queue = rest])
  BY <1>4 DEF rest
<1>8. QED
  BY <1>2, <1>6, <1>7, BecomesStep DEF x

\* A window without one of its packets.
LEMMA FewerInFlight ==
  ASSUME NEW window, IsFiniteSet(window), Cardinality(window) <= IN_FLIGHT_CAP, NEW pkt
  PROVE  IsFiniteSet(window \ {pkt}) /\ Cardinality(window \ {pkt}) <= IN_FLIGHT_CAP
<1>1. IsFiniteSet(window \ {pkt}) /\ Cardinality(window \ {pkt}) <= Cardinality(window)
  BY FS_Subset
<1>2. Cardinality(window \ {pkt}) \in Nat /\ Cardinality(window) \in Nat
  BY <1>1, FS_CardinalityType
<1> DEFINE n == Cardinality(window \ {pkt})
           k == Cardinality(window)
<1> HIDE DEF n, k
<1>3. n \in Nat /\ k \in Nat /\ n <= k /\ k <= IN_FLIGHT_CAP /\ IN_FLIGHT_CAP \in Nat
  BY <1>1, <1>2, CapAssumption DEF n, k
<1>4. n <= IN_FLIGHT_CAP
  BY <1>3
<1>5. QED
  BY <1>1, <1>4 DEF n

\* A packet leaves the window.
LEMMA AcknowledgeStep ==
  ASSUME NEW kept, Standing(kept), NEW t \in Token, NEW pkt, Acknowledge(t, pkt)
  PROVE  Standing(kept)'
<1> DEFINE x == Context(disk, kept, {})
           client == broker.clients[t]
           rest == client.in_flight \ {pkt}
           acked == [client EXCEPT !.in_flight = rest]
<1>1. Running /\ Connected(broker, t)
  BY DEF Acknowledge, Named, Is
<1>2. /\ broker \in Keeps(x) /\ disk \in GoodFile(kept) /\ Placed(kept) /\ crashes \in 0 .. MAX_CRASH
      /\ order \in Seq(Msg) /\ order' = order
  BY <1>1, RunningStanding DEF Acknowledge
<1> HIDE DEF x
<1>3. /\ client \in ConnectedOf(x.msgs)
      /\ Len(client.write_queue) <= WRITE_QUEUE_CAP
      /\ IsFiniteSet(client.in_flight)
      /\ Cardinality(client.in_flight) <= IN_FLIGHT_CAP
  BY <1>1, <1>2, LiveClient
<1>4. IsFiniteSet(rest) /\ Cardinality(rest) <= IN_FLIGHT_CAP
  BY <1>3, FewerInFlight
<1>5. /\ acked \in ConnectedOf(x.msgs) /\ acked.in_flight = rest
      /\ acked.write_queue = client.write_queue /\ acked.clean_disconnect = client.clean_disconnect
      /\ acked.cid = client.cid /\ acked.clean_session = client.clean_session
  BY <1>3 DEF ConnectedOf
<1>6. [broker EXCEPT !.clients[t].in_flight = @ \ {pkt}] = [broker EXCEPT !.clients[t] = acked]
  BY <1>2 DEF Keeps, GoodBroker
<1> HIDE DEF acked
<1>7. [broker EXCEPT !.clients[t] = acked] \in Keeps(x)
  <2>1. Continues(client, acked)
    BY <1>5, RetainsOnward DEF Continues
  <2>2. QED
    BY <1>1, <1>2, <1>3, <1>4, <1>5, <2>1, ReplaceKeeps
<1>8. Becomes([broker EXCEPT !.clients[t] = acked])
  BY <1>6 DEF Acknowledge
<1>9. QED
  BY <1>2, <1>7, <1>8, BecomesStep DEF x

\* What is kept stays: in a session, in memory and in the file, through every
\* action but its owner's CONNECT; in the queue of a connection until that
\* connection ends or sends something.
LEMMA StandingStep ==
  ASSUME NEW kept, Standing(kept), Readable(kept), [Next]_vars,
         \A p \in kept.stored, t \in Token : \A clean \in CleanOf[p[1]] : ~Connect(t, p[1], clean),
         \A p \in kept.queued : p[1] # broker.next_token /\ ~Flush(p[1])
  PROVE  Standing(kept)'
<1>1. CASE UNCHANGED vars
  BY <1>1 DEF Standing, vars
<1>2. CASE Accept
  BY <1>2, AcceptStep
<1>3. CASE Save
  BY <1>3, SaveStep
<1>4. CASE Crash
  BY <1>4, CrashStep
<1>5. CASE Start
  BY <1>5, StartStep
<1>6. CASE PublishSys
  BY <1>6, PublishSysStep
<1>7. ASSUME NEW t \in Token, NEW c \in Cid, NEW clean \in CleanOf[c], Connect(t, c, clean)
      PROVE  Standing(kept)'
  <2>1. clean \in BOOLEAN /\ \A p \in kept.stored : p[1] # c
    BY <1>7, BrokerAssumption
  <2>2. QED
    BY <1>7, <2>1, ConnectStep
<1>8. ASSUME NEW t \in Token, NEW topics \in Requests, Subscribe(t, topics)
      PROVE  Standing(kept)'
  BY <1>8, SubscribeStep
<1>9. ASSUME NEW t \in Token, NEW filters \in SUBSET Filter \ {{}}, Unsubscribe(t, filters)
      PROVE  Standing(kept)'
  BY <1>9, UnsubscribeStep
<1>10. ASSUME NEW t \in Token, NEW m \in Msg \ ToSet(SYS), NEW qos \in PUB_QOS, NEW retain \in RETAIN,
              PublishPacket(t, m, qos, retain)
       PROVE  Standing(kept)'
  <2>1. retain \in BOOLEAN
    BY BrokerAssumption
  <2>2. QED
    BY <1>10, <2>1, PublishPacketStep
<1>11. ASSUME NEW t \in Token, DisconnectPacket(t) PROVE Standing(kept)'
  BY <1>11, DisconnectPacketStep
<1>12. ASSUME NEW t \in Token, Lose(t) PROVE Standing(kept)'
  BY <1>12, LoseStep
<1>13. ASSUME NEW t \in Token, Flush(t) PROVE Standing(kept)'
  BY <1>13, FlushStep
<1>14. ASSUME NEW t \in Token, NEW m \in Msg, NEW qos \in 1..2, NEW pid \in Pid,
              Acknowledge(t, Forward(m, qos, pid))
       PROVE  Standing(kept)'
  BY <1>14, AcknowledgeStep
<1>15. QED
  BY <1>1, <1>2, <1>3, <1>4, <1>5, <1>6, <1>7, <1>8, <1>9, <1>10, <1>11, <1>12, <1>13, <1>14
     DEF Next

\* With nothing kept, the restriction on CONNECT falls away.
LEMMA IInvStep == IInv /\ [Next]_vars => IInv'
<1>1. Readable(Nothing)
  BY NothingStays DEF Readable
<1>2. QED
  BY <1>1, NothingStays, StandingStep DEF IInv

\* The broker of the event loop is in good order in every state: the types are
\* right, every queue is within its limit, the window is finite, and the dirty
\* flag tells the truth.
THEOREM InGoodOrder == Spec => []IInv
BY InitStanding, IInvStep, PTL DEF Spec

----------------------------------------------------------------------------
(* What follows from it.                                                   *)

\* The invariant, while the process runs.
LEMMA RunningGood ==
  ASSUME IInv, Running
  PROVE  /\ broker \in GoodBroker(Msg)
         /\ broker.dirty \/ Snapshot(broker) = disk
         /\ \A t \in Token : Connected(broker, t) =>
              t < broker.next_token /\ ~broker.clients[t].clean_disconnect
<1>1. broker \in Keeps(Context(disk, Nothing, {}))
  BY RunningStanding DEF IInv
<1>2. QED
  BY <1>1, ContextFields DEF Keeps

\* The types of the invariant are within those of TypeOK.
LEMMA StateTypes == GoodState(Msg) \subseteq StateType /\ GoodBroker(Msg) \subseteq BrokerType
<1>1. GoodSession(Msg) \subseteq SessionType
  BY DEF GoodSession, SessionType, StoredOf, StoredType, HeldType
<1>2. GoodClient(Msg) \subseteq ClientType
  <2>1. PacketOf(Msg) = PacketType
    BY DEF PacketOf, PacketType
  <2>2. EntryOf(Msg) = EntryType
    BY <2>1 DEF EntryOf, EntryType
  <2>3. ConnectedOf(Msg) \subseteq ConnectedType
    BY <2>1, <2>2 DEF ConnectedOf, ConnectedType
  <2>4. QED
    BY <2>3 DEF GoodClient, ClientType
<1>3. GoodState(Msg) \subseteq StateType
  BY <1>1 DEF GoodState, StateType
<1>4. GoodBroker(Msg) \subseteq BrokerType
  BY <1>1, <1>2 DEF GoodBroker, BrokerType
<1>5. QED
  BY <1>3, <1>4

\* The invariant gives the types.
LEMMA GoodTypes == IInv => TypeOK
<1> SUFFICES ASSUME IInv PROVE TypeOK
  OBVIOUS
<1>1. Running => broker \in BrokerType /\ \A t \in Token : Connected(broker, t) => ~broker.clients[t].clean_disconnect
  BY RunningGood, StateTypes
<1>2. disk \in StateType \cup {Corrupt}
  BY StateTypes DEF IInv, Standing, GoodFile
<1>3. crashes \in 0 .. MAX_CRASH /\ order \in Seq(Msg)
  BY DEF IInv, Standing
<1>4. QED
  BY <1>1, <1>2, <1>3 DEF TypeOK

\* The types of the broker, of the state file and of what is queued and stored,
\* whatever is published, dropped, saved, lost and started again.
THEOREM BrokerTypes == Spec => []TypeOK
BY GoodTypes, InGoodOrder, PTL

\* A slow, absent or returning client never takes more than its share: the
\* write queue, the window and the offline queue stay within their limits.
THEOREM WithinLimits == Spec => []Bounded
<1>1. IInv => Bounded
  <2> SUFFICES ASSUME IInv, Running
               PROVE  /\ \A t \in Token : Connected(broker, t) =>
                           /\ Len(broker.clients[t].write_queue) <= WRITE_QUEUE_CAP
                           /\ Cardinality(broker.clients[t].in_flight) <= IN_FLIGHT_CAP
                      /\ \A c \in Cid : broker.sessions[c].stored =>
                           Len(broker.sessions[c].offline) <= OFFLINE_CAP
    BY DEF Bounded
  <2>1. ASSUME NEW t \in Token, Connected(broker, t)
        PROVE  /\ Len(broker.clients[t].write_queue) <= WRITE_QUEUE_CAP
               /\ Cardinality(broker.clients[t].in_flight) <= IN_FLIGHT_CAP
    <3>1. broker.clients[t] \in GoodClient(Msg)
      BY RunningGood DEF GoodBroker
    <3>2. QED
      BY <2>1, <3>1, ConnectedClient DEF Connected
  <2>2. ASSUME NEW c \in Cid, broker.sessions[c].stored
        PROVE  Len(broker.sessions[c].offline) <= OFFLINE_CAP
    <3>1. broker.sessions[c] \in GoodSession(Msg)
      BY RunningGood DEF GoodBroker
    <3>2. QED
      BY <2>2, <3>1, StoredSession
  <2>3. QED
    BY <2>1, <2>2
<1>2. QED
  BY <1>1, InGoodOrder, PTL

\* While the dirty flag is down, the state file holds what is in memory: no
\* handler changes the retained table or a session and forgets the flag.
THEOREM FlagTellsTruth == Spec => []SavedWhenClean
<1>1. IInv => SavedWhenClean
  BY RunningGood DEF SavedWhenClean
<1>2. QED
  BY <1>1, InGoodOrder, PTL

\* OnDisk, for a state that can be read.
LEMMA OnDiskHas ==
  ASSUME NEW state, state # Corrupt, NEW c, NEW m
  PROVE  /\ Has(state.sessions[c], m, 0) => m \in OnDisk(state, c)
         /\ c \in Cid /\ state \in GoodState(Msg) /\ m \in OnDisk(state, c) => Has(state.sessions[c], m, 0)
<1> DEFINE session == state.sessions[c]
<1>1. m \in OnDisk(state, c) <=> session.stored /\ \E i \in DOMAIN session.offline : session.offline[i].msg = m
  BY DEF OnDisk, ToSet
<1>2. ASSUME c \in Cid, state \in GoodState(Msg), session.stored, NEW i \in DOMAIN session.offline
      PROVE  session.offline[i].qos >= 0
  <2>1. session \in GoodSession(Msg)
    BY <1>2 DEF GoodState
  <2> HIDE DEF session
  <2>2. session.offline \in Seq([msg : Msg, qos : 0..2])
    BY <1>2, <2>1, StoredSession DEF StoredOf
  <2>3. session.offline[i] \in [msg : Msg, qos : 0..2]
    BY <1>2, <2>2, LenProperties, ElementOfSeq
  <2>4. QED
    BY <2>3
<1> HIDE DEF session
<1>3. QED
  BY <1>1, <1>2 DEF Has, session

\* A snapshot is not a corrupt file.
LEMMA SnapshotReadable ==
  ASSUME NEW b
  PROVE  Snapshot(b) # Corrupt /\ Snapshot(b).sessions = b.sessions
<1>1. DOMAIN Snapshot(b) = {"retained", "sessions"} /\ DOMAIN Corrupt = {"readable"}
  BY DEF Snapshot, Corrupt
<1>2. QED
  BY <1>1 DEF Snapshot

\* A message that is in the file for an absent client, and in its session when
\* the broker runs, stays in both through crashes, restarts, saves and all that
\* other clients do, unless a write of the file is interrupted, until the
\* client connects again.
THEOREM StoredStays == Spec => DurableWhileAway
<1>1. ASSUME IInv, [Next]_vars, NEW c \in Cid, NEW m \in Msg, Safe(c, m), disk' # Corrupt,
             ~ \E t \in Token, clean \in CleanOf[c] : Connect(t, c, clean)
      PROVE  Safe(c, m)'
  <2> DEFINE p0 == <<c, m, 0>>
             kept == Staying({p0}, {p0}, {})
  <2>1. kept.filed = {p0} /\ kept.stored = {p0} /\ kept.queued = {} /\ p0[1] = c /\ p0[2] = m /\ p0[3] = 0
    BY DEF Staying
  <2> HIDE DEF p0, kept
  <2>2. disk # Corrupt /\ Has(disk.sessions[c], m, 0)
    <3>1. m \in OnDisk(disk, c)
      BY <1>1 DEF Safe
    <3>2. disk # Corrupt
      BY <3>1 DEF OnDisk
    <3>3. disk \in GoodState(Msg)
      BY <1>1, <3>2 DEF IInv, Standing, GoodFile
    <3>4. QED
      BY <3>1, <3>2, <3>3, OnDiskHas
  <2>3. Running => Has(broker.sessions[c], m, 0)
    <3>1. SUFFICES ASSUME Running PROVE Has(broker.sessions[c], m, 0)
      OBVIOUS
    <3>2. m \in OnDisk(Snapshot(broker), c)
      BY <1>1, <3>1 DEF Safe
    <3>3. Snapshot(broker) \in GoodState(Msg)
      BY <1>1, <3>1, RunningGood DEF GoodBroker, GoodState, Snapshot
    <3>4. QED
      BY <3>2, <3>3, SnapshotReadable, OnDiskHas
  <2>4. disk \in GoodFile(kept)
    BY <1>1, <2>1, <2>2 DEF IInv, Standing, GoodFile, IsStored
  <2>5. broker = Stopped \/ broker \in Keeps(Context(disk, kept, {}))
    <3>1. CASE Running
      <4>1. broker \in Keeps(Context(disk, Nothing, {}))
        BY <1>1, <3>1, RunningStanding DEF IInv
      <4>2. QED
        BY <2>1, <2>3, <3>1, <4>1, ContextFields DEF Keeps, IsStored
    <3>2. QED
      BY <3>1 DEF Running
  <2>6. Standing(kept) /\ Readable(kept)
    BY <1>1, <2>1, <2>2, <2>4, <2>5 DEF IInv, Standing, Readable, Placed
  <2>7. Standing(kept)'
    <3>1. \A p \in kept.stored, t \in Token : \A clean \in CleanOf[p[1]] : ~Connect(t, p[1], clean)
      BY <1>1, <2>1
    <3>2. \A p \in kept.queued : p[1] # broker.next_token /\ ~Flush(p[1])
      BY <2>1
    <3>3. QED
      BY <1>1, <2>6, <3>1, <3>2, StandingStep
  <2>8. m \in OnDisk(disk', c)
    <3>1. Has(disk'.sessions[c], m, 0)
      BY <1>1, <2>1, <2>7 DEF Standing, GoodFile, IsStored
    <3>2. QED
      BY <1>1, <3>1, OnDiskHas
  <2>9. broker' # Stopped => m \in OnDisk(Snapshot(broker'), c)
    <3>1. broker' # Stopped => Has(broker'.sessions[c], m, 0)
      <4> DEFINE x == Context(disk', kept, {})
      <4>1. broker' # Stopped => broker' \in Keeps(x)
        BY <2>7 DEF Standing
      <4>2. x.kept = kept
        BY ContextFields
      <4> HIDE DEF x
      <4>3. QED
        BY <2>1, <4>1, <4>2 DEF Keeps, IsStored
    <3>2. QED
      BY <3>1, SnapshotReadable, OnDiskHas
  <2>10. QED
    BY <2>8, <2>9 DEF Safe, Running
<1>2. IInv /\ [Next]_vars =>
        [\A c \in Cid, m \in Msg : Safe(c, m) =>
           \/ Safe(c, m)' \/ disk' = Corrupt
           \/ \E t \in Token, clean \in CleanOf[c] : Connect(t, c, clean)]_vars
  BY <1>1
<1>3. QED
  BY <1>2, InGoodOrder, PTL DEF Spec, DurableWhileAway

----------------------------------------------------------------------------
(* What waits for a persistent client.                                     *)

\* Filtering a vector by what it holds loses none of it.
LEMMA OnlySame ==
  ASSUME NEW A, NEW s \in Seq(A), NEW S \in SUBSET ToSet(s)
  PROVE  ToSet(Only(s, S)) = S
<1> DEFINE r == Only(s, S)
<1>1. r \in Seq(A \cap S)
  BY OnlyType
<1>2. DOMAIN r = 1 .. Len(r) /\ DOMAIN s = 1 .. Len(s) /\ \A j \in 1 .. Len(r) : r[j] \in S
  <2>1. \A j \in 1 .. Len(r) : r[j] \in A \cap S
    BY <1>1, ElementOfSeq
  <2>2. QED
    BY <1>1, <2>1, LenProperties
<1>3. ASSUME NEW e \in S PROVE e \in ToSet(r)
  <2>1. PICK i \in 1 .. Len(s) : s[i] = e
    BY <1>2 DEF ToSet
  <2>2. PICK j \in 1 .. Len(r) : r[j] = s[i]
    BY <2>1, OnlyMembers
  <2>3. QED
    BY <1>2, <2>1, <2>2 DEF ToSet
<1> HIDE DEF r
<1>4. ToSet(r) = S
  BY <1>2, <1>3 DEF ToSet
<1>5. QED
  BY <1>4 DEF r

\* A line of Custody names the messages that are held at QoS1/2.
Names(line, m) == \E i \in DOMAIN line : line[i].msg = m

LEMMA KeptNames ==
  ASSUME NEW M, NEW held \in Seq([msg : M, qos : 0..2]), NEW m
  PROVE  Names(Kept(held), m) <=> \E i \in DOMAIN held : held[i].msg = m /\ held[i].qos >= 1
<1> DEFINE S == {h \in ToSet(held) : h.qos > 0}
<1>1. S \in SUBSET ToSet(held) /\ Kept(held) = Only(held, S)
  BY DEF Kept
<1>2. ToSet(Kept(held)) = S
  BY <1>1, OnlySame
<1>3. Names(Kept(held), m) <=> \E h \in ToSet(Kept(held)) : h.msg = m
  BY DEF Names, ToSet
<1>4. \A i \in DOMAIN held : held[i].qos > 0 <=> held[i].qos >= 1
  <2>1. \A i \in DOMAIN held : held[i] \in [msg : M, qos : 0..2]
    BY LenProperties, ElementOfSeq
  <2>2. QED
    BY <2>1
<1>5. QED
  BY <1>2, <1>3, <1>4 DEF ToSet

\* What remove_client would persist of a queue is exactly what is reliable.
LEMMA UnsentNames ==
  ASSUME NEW x, NEW b \in Keeps(x), NEW t \in Token, Connected(b, t), NEW m
  PROVE  (\E i \in DOMAIN Unsent(b, t) : Unsent(b, t)[i].msg = m /\ Unsent(b, t)[i].qos >= 1)
           <=> \E e \in ToSet(b.clients[t].write_queue) : e.rel /\ e.pkt.msg = m
<1> DEFINE queue == b.clients[t].write_queue
           R == {e \in ToSet(queue) : e.rel}
           rel == Only(queue, R)
           f == Unsent(b, t)
<1>1. queue \in Seq(EntryOf(x.msgs))
  BY LiveClient DEF ConnectedOf
<1>2. R \in SUBSET ToSet(queue) /\ f = [i \in DOMAIN rel |-> Held(rel[i].pkt.msg, rel[i].pkt.qos)]
  BY DEF Unsent
<1>3. ASSUME NEW e \in R PROVE e.pkt.qos >= 1
  <2>1. e \in EntryOf(x.msgs) /\ e.rel
    BY <1>1, <1>3, LenProperties, ElementOfSeq DEF ToSet
  <2>2. e.pkt \in PacketOf(x.msgs)
    BY <2>1 DEF EntryOf
  <2>3. QED
    BY <2>2 DEF PacketOf
<1> HIDE DEF queue
<1>4. ToSet(rel) = R
  BY <1>1, <1>2, OnlySame
<1>5. \A i \in DOMAIN rel : rel[i] \in R
  BY <1>4 DEF ToSet
<1> HIDE DEF rel, f
<1>6. DOMAIN f = DOMAIN rel /\ \A i \in DOMAIN rel : f[i].msg = rel[i].pkt.msg /\ f[i].qos = rel[i].pkt.qos
  BY <1>2 DEF Held
<1>7. (\E i \in DOMAIN f : f[i].msg = m /\ f[i].qos >= 1) <=> \E e \in R : e.pkt.msg = m
  BY <1>3, <1>4, <1>5, <1>6 DEF ToSet
<1>8. QED
  BY <1>7 DEF f, queue

\* Custody, in the terms of this module: what a persistent connection awaits, and
\* what the session has.
LEMMA CustodyIs ==
  ASSUME NEW x, NEW b \in Keeps(x), NEW c \in Cid, NEW m
  PROVE  m \in Custody(b, c)
           <=> \/ \E t \in Token : Connected(b, t) /\ Awaits(b.clients[t], c, m)
               \/ Has(b.sessions[c], m, 1)
<1> DEFINE queues == {Kept(Unsent(b, t)) : t \in {t \in Online(b, c) : ~b.clients[t].clean_session}}
           stored == IF b.sessions[c].stored THEN {Kept(b.sessions[c].offline)} ELSE {}
<1>1. m \in Custody(b, c) <=> \E line \in Lines(b, c) : Names(line, m)
  BY DEF Custody, Names, ToSet
<1>2. Lines(b, c) = queues \cup stored
  BY DEF Lines
<1>3. (\E line \in queues : Names(line, m))
        <=> \E t \in Token : Connected(b, t) /\ Awaits(b.clients[t], c, m)
  <2>1. ASSUME NEW t \in Token, Connected(b, t)
        PROVE  Names(Kept(Unsent(b, t)), m)
                 <=> \E e \in ToSet(b.clients[t].write_queue) : e.rel /\ e.pkt.msg = m
    <3>1. Unsent(b, t) \in Seq([msg : x.msgs, qos : 0..2])
      BY <2>1, UnsentType
    <3>2. Names(Kept(Unsent(b, t)), m)
            <=> \E i \in DOMAIN Unsent(b, t) : Unsent(b, t)[i].msg = m /\ Unsent(b, t)[i].qos >= 1
      BY <3>1, KeptNames
    <3>3. QED
      BY <2>1, <3>2, UnsentNames
  <2>2. ASSUME NEW t \in Token
        PROVE  t \in Online(b, c) /\ ~b.clients[t].clean_session /\ Names(Kept(Unsent(b, t)), m)
                 <=> Connected(b, t) /\ Awaits(b.clients[t], c, m)
    BY <2>1 DEF Online, Awaits
  <2>3. \A t \in Online(b, c) : t \in Token
    BY DEF Online
  <2>4. (\E line \in queues : Names(line, m))
          <=> \E t \in Online(b, c) : ~b.clients[t].clean_session /\ Names(Kept(Unsent(b, t)), m)
    OBVIOUS
  <2>5. QED
    BY <2>2, <2>3, <2>4
<1>4. (\E line \in stored : Names(line, m)) <=> Has(b.sessions[c], m, 1)
  <2>1. CASE b.sessions[c].stored
    <3> DEFINE off == b.sessions[c].offline
    <3>1. b.sessions[c] \in GoodSession(x.msgs)
      BY DEF Keeps, GoodBroker
    <3>2. off \in Seq([msg : x.msgs, qos : 0..2])
      BY <2>1, <3>1, StoredSession DEF StoredOf
    <3> HIDE DEF off
    <3>3. Names(Kept(off), m) <=> \E i \in DOMAIN off : off[i].msg = m /\ off[i].qos >= 1
      BY <3>2, KeptNames
    <3>4. QED
      BY <2>1, <3>3 DEF Has, off
  <2>2. CASE ~b.sessions[c].stored
    BY <2>2 DEF Has
  <2>3. QED
    BY <2>1, <2>2
<1> HIDE DEF queues, stored
<1>5. QED
  BY <1>1, <1>2, <1>3, <1>4

\* With room for all of it, the session takes over what its client awaits.
LEMMA PersistTakes ==
  ASSUME NEW x, NEW b \in Keeps(x), NEW t \in Token, Persistent(b, t),
         NEW c \in Cid, NEW m, Awaits(b.clients[t], c, m), ~CutsOff(b, t, c)
  PROVE  Has(Persist(b, t).sessions[c], m, 1)
<1> DEFINE session == b.sessions[c]
           old == IF session.stored THEN session ELSE Stored(<<>>, <<>>)
           H == [msg : x.msgs, qos : 0..2]
           off == old.offline
           more == Unsent(b, t)
           n == Len(off)
           k == Len(more)
           both == off \o more
<1>1. Connected(b, t) /\ c = b.clients[t].cid
  BY DEF Persistent, Awaits
<1>2. session \in GoodSession(x.msgs) /\ b.sessions \in [Cid -> GoodSession(x.msgs)] /\ b \in GoodBroker(x.msgs)
  BY DEF Keeps, GoodBroker
<1>3. off \in Seq(H) /\ n = IF session.stored THEN Len(session.offline) ELSE 0
  <2>1. CASE session.stored
    <3>1. session \in StoredOf(x.msgs)
      BY <1>2, <2>1, StoredSession
    <3>2. QED
      BY <2>1, <3>1 DEF StoredOf
  <2>2. CASE ~session.stored
    <3>1. off = <<>>
      BY <2>2 DEF Stored
    <3>2. QED
      BY <2>2, <3>1, EmptySeq
  <2>3. QED
    BY <2>1, <2>2
<1>4. more \in Seq(H)
  BY <1>1, UnsentType
<1>5. n + k <= OFFLINE_CAP /\ n \in Nat /\ k \in Nat /\ OFFLINE_CAP \in Nat
  <2>1. n \in Nat /\ k \in Nat
    BY <1>3, <1>4, LenProperties
  <2>2. n + k <= OFFLINE_CAP
    BY <1>3, <2>1, BrokerAssumption DEF CutsOff
  <2>3. QED
    BY <2>1, <2>2, BrokerAssumption
<1>6. PICK i \in 1 .. k : more[i].msg = m /\ more[i].qos >= 1
  <2>1. \E e \in ToSet(b.clients[t].write_queue) : e.rel /\ e.pkt.msg = m
    BY DEF Awaits
  <2>2. DOMAIN more = 1 .. k
    BY <1>4, LenProperties
  <2>3. QED
    BY <1>1, <2>1, <2>2, UnsentNames
<1>7. Persist(b, t).sessions[c] = Stored(Merged(old.subs, SubsOf(b, t)), WithMore(off, more))
  BY <1>1, <1>2 DEF Persist, GoodBroker
<1> HIDE DEF H, old, session, more, off
<1>8. WithMore(off, more) = both
  BY <1>5 DEF WithMore, UpTo
<1>9. both \in Seq(H) /\ Len(both) = n + k
      /\ \A j \in 1 .. n + k : both[j] = IF j <= n THEN off[j] ELSE more[j - n]
  BY <1>3, <1>4, ConcatProperties
<1>10. DOMAIN both = 1 .. n + k
  BY <1>9, LenProperties
<1> HIDE DEF both, n, k
<1>11. n + i \in 1 .. n + k /\ ~(n + i <= n) /\ (n + i) - n = i
  BY <1>5
<1>12. n + i \in DOMAIN both /\ both[n + i] = more[i]
  BY <1>9, <1>10, <1>11
<1>13. QED
  BY <1>6, <1>7, <1>8, <1>12 DEF Has, Stored

\* So remove_client loses nothing that is awaited, if the will has not already cost
\* the client its queue and the session has room.
LEMMA RemoveClientTakes ==
  ASSUME NEW x, NEW b \in Keeps(x), NEW t \in Token, x.msgs \subseteq Msg,
         Connected(Farewell(b, t), t), NEW c \in Cid, NEW m,
         Awaits(Farewell(b, t).clients[t], c, m), ~CutsOff(Farewell(b, t), t, c)
  PROVE  Has(RemoveClient(b, t).sessions[c], m, 1)
<1> DEFINE said == Farewell(b, t)
           kept == Persist(said, t)
<1>1. said \in Keeps(x)
  BY FarewellKeeps
<1>2. Persistent(said, t)
  BY BrokerAssumption DEF Persistent, Awaits
<1>3. Has(kept.sessions[c], m, 1)
  BY <1>1, <1>2, PersistTakes
<1>4. kept \in Keeps(x)
  BY <1>1, <1>2, PersistKeeps
<1> DEFINE rest == Unsubscribed(kept, t)
<1>5. RemoveClient(b, t) = Drop(rest, t)
  BY <1>2 DEF RemoveClient
<1> HIDE DEF kept
<1>6. rest.sessions = kept.sessions /\ Drop(rest, t).sessions = rest.sessions
  BY <1>4 DEF Unsubscribed, Drop, Keeps, GoodBroker
<1>7. QED
  BY <1>3, <1>5, <1>6

\* save() does not touch what is in memory.
LEMMA SavedSessions ==
  ASSUME NEW M, NEW b \in GoodBroker(M), Saved(b)
  PROVE  broker' = Stopped \/ broker'.sessions = b.sessions
BY DEF Saved, GoodBroker

\* What stays, stored or queued, is in custody.
LEMMA KeepsCustody ==
  ASSUME NEW file, NEW kept, NEW b \in Keeps(Context(file, kept, {})), NEW c \in Cid, NEW m,
         \/ <<c, m, 1>> \in kept.stored
         \/ \E t \in Token : Connected(b, t) /\ <<t, c, m>> \in kept.queued
  PROVE  m \in Custody(b, c)
<1> DEFINE x == Context(file, kept, {})
<1>1. b \in Keeps(x) /\ x.kept = kept
  BY ContextFields
<1> HIDE DEF x
<1>2. CASE <<c, m, 1>> \in kept.stored
  <2> DEFINE p == <<c, m, 1>>
  <2>1. IsStored(b.sessions, p)
    BY <1>1, <1>2 DEF Keeps
  <2>2. Has(b.sessions[c], m, 1)
    BY <2>1 DEF IsStored
  <2>3. QED
    BY <1>1, <2>2, CustodyIs
<1>3. ASSUME NEW t \in Token, Connected(b, t), <<t, c, m>> \in kept.queued
      PROVE  m \in Custody(b, c)
  <2> DEFINE p == <<t, c, m>>
  <2>1. IsQueued(b.clients, p)
    BY <1>1, <1>3 DEF Keeps
  <2>2. Awaits(b.clients[t], c, m)
    BY <1>3, <2>1 DEF IsQueued, Connected
  <2>3. QED
    BY <1>1, <1>3, <2>2, CustodyIs
<1>4. QED
  BY <1>2, <1>3

\* What waits in a session at QoS1/2 is not handed over at QoS0, unless the session
\* downgrades it.
LEMMA FlushQosStays ==
  ASSUME NEW M, NEW session \in StoredOf(M), ~Downgrades(session),
         NEW i \in 1 .. Len(session.offline), session.offline[i].qos >= 1
  PROVE  FlushQos(session, session.offline[i]) > 0
<1> DEFINE held == session.offline[i]
<1>1. /\ session.stored /\ held \in ToSet(session.offline)
      /\ held \in [msg : M, qos : 0..2]
  <2>1. session.stored /\ session.offline \in Seq([msg : M, qos : 0..2])
    BY DEF StoredOf
  <2>2. QED
    BY <2>1, LenProperties, ElementOfSeq DEF ToSet
<1>2. CASE Wants(session, held.msg)
  <2>1. SessionQos(session, held.msg) \in 0..2 /\ SessionQos(session, held.msg) # 0
    BY <1>1, <1>2, SessionQosType DEF Downgrades
  <2>2. QED
    BY <1>1, <1>2, <2>1 DEF FlushQos, LesserQos
<1>3. CASE ~Wants(session, held.msg)
  BY <1>1, <1>3 DEF FlushQos
<1>4. QED
  BY <1>2, <1>3

\* When the client comes back and the session does not downgrade it, the message is
\* handed to the connection, or is still stored: the session leaves the store only
\* after all of its queue was handed over.
LEMMA ConnectResumes ==
  ASSUME IInv, NEW t \in Token, NEW c \in Cid, Connect(t, c, FALSE), broker' # Stopped,
         NEW m, Has(broker.sessions[c], m, 1), ~Downgrades(broker.sessions[c])
  PROVE  m \in Custody(broker', c)
<1> DEFINE p1 == <<c, m, 1>>
           kept == Staying({}, {p1}, {})
           x == Context(disk, kept, {})
           session == broker.sessions[c]
           restored == AddSubs(broker, t, session.subs)
           greeted == Greet(restored, t, c, FALSE)
           flushed == FlushSession(greeted, t, session)
           taken == Forget(flushed.b, c)
<1>1. /\ Running /\ Connected(broker, t) /\ broker.clients[t].cid = NoCid /\ order' = order
      /\ Handled(IF flushed.ok THEN [flushed EXCEPT !.b = taken] ELSE flushed, t)
  BY DEF Connect, Greet, Has
<1>2. /\ broker \in Keeps(Context(disk, Nothing, {})) /\ broker \in GoodBroker(Msg)
      /\ disk \in GoodFile(Nothing) /\ crashes \in 0 .. MAX_CRASH /\ order \in Seq(Msg)
  BY <1>1, RunningStanding, RunningGood DEF IInv
<1>3. /\ kept.filed = {} /\ kept.stored = {p1} /\ kept.queued = {}
      /\ p1[1] = c /\ p1[2] = m /\ p1[3] = 1 /\ Placed(kept)
  BY DEF Staying, Placed
<1> HIDE DEF p1, kept
<1>4. x.msgs = Msg /\ x.kept = kept
  BY ContextFields
<1>5. broker \in Keeps(x) /\ disk \in GoodFile(kept)
  <2>1. broker \in Keeps(x)
    BY <1>2, <1>3, ContextFields, NothingStays DEF Keeps, IsStored
  <2>2. disk \in GoodFile(kept)
    BY <1>2, <1>3 DEF GoodFile
  <2>3. QED
    BY <2>1, <2>2
<1> HIDE DEF x
<1>6. session \in StoredOf(x.msgs)
  BY <1>2, <1>4, StoredSession DEF GoodBroker, Has
<1> HIDE DEF session
<1>7. restored \in Keeps(x) /\ Connected(restored, t) /\ restored.clients[t].cid = NoCid
  <2>1. session.subs \in Seq(FilterQos)
    BY <1>6 DEF StoredOf
  <2>2. restored \in Keeps(x) /\ restored.clients = broker.clients
    BY <1>5, <2>1, AddSubsKeeps
  <2>3. QED
    BY <1>1, <2>2 DEF Connected
<1> HIDE DEF restored
<1>8. /\ greeted \in Keeps(x) /\ Connected(greeted, t)
      /\ greeted.clients[t].cid = c /\ ~greeted.clients[t].clean_session
  <2> DEFINE clean == FALSE
             g == Greet(restored, t, c, clean)
  <2>1. WillOf[c] \in x.msgs \cup {NoMsg} /\ clean \in BOOLEAN
    BY <1>4, BrokerAssumption
  <2>2. greeted = g /\ ~clean
    OBVIOUS
  <2> HIDE DEF greeted, clean
  <2>3. /\ g \in Keeps(x) /\ Connected(g, t)
        /\ g.clients[t].cid = c /\ g.clients[t].clean_session = clean
    BY <1>7, <2>1, GreetKeeps
  <2>4. QED
    BY <2>2, <2>3
<1> HIDE DEF greeted
<1>9. flushed \in Outcome(x, t)
  BY <1>4, <1>6, <1>8, FlushSessionKeeps
<1> DEFINE a == flushed.b
<1>10. a \in Keeps(x) /\ flushed.ok \in BOOLEAN /\ (flushed.ok => Connected(a, t))
       /\ flushed = [b |-> a, ok |-> flushed.ok]
  BY <1>9 DEF Outcome
<1>11. CASE flushed.ok
  <2>1. PICK i \in 1 .. Len(session.offline) : session.offline[i].msg = m /\ session.offline[i].qos >= 1
    <3>1. session.offline \in Seq([msg : x.msgs, qos : 0..2])
      BY <1>6 DEF StoredOf
    <3>2. QED
      BY <3>1, LenProperties DEF Has, session
  <2>2. FlushQos(session, session.offline[i]) > 0
    BY <1>6, <2>1, FlushQosStays DEF session
  <2>3. Awaits(a.clients[t], c, m)
    BY <1>4, <1>6, <1>8, <1>11, <2>1, <2>2, FlushHands
  <2>4. broker' = taken
    <3>1. Handled([flushed EXCEPT !.b = taken], t)
      BY <1>1, <1>11
    <3>2. [flushed EXCEPT !.b = taken].ok /\ [flushed EXCEPT !.b = taken].b = taken
      BY <1>10, <1>11
    <3>3. QED
      BY <3>1, <3>2 DEF Handled, Becomes
  <2> HIDE DEF flushed, a
  <2>5. taken.clients = a.clients
    BY <1>10 DEF Forget, Keeps, GoodBroker, a
  <2>6. taken \in Keeps(Context(disk, Nothing, {}))
    <3>1. a \in Keeps(Context(disk, Nothing, {}))
      BY <1>10, ContextFields, NothingStays DEF Keeps, x
    <3>2. \A p \in Context(disk, Nothing, {}).kept.stored : p[1] # c
      BY ContextFields, NothingStays
    <3>3. QED
      BY <3>1, <3>2, ForgetKeeps DEF a
  <2> HIDE DEF taken
  <2>7. Connected(taken, t) /\ Awaits(taken.clients[t], c, m)
    BY <1>10, <1>11, <2>3, <2>5 DEF Connected
  <2>8. QED
    BY <2>4, <2>6, <2>7, CustodyIs
<1>12. CASE ~flushed.ok
  <2>1. Closes(a, t)
    BY <1>1, <1>12 DEF Handled
  <2> HIDE DEF flushed, a
  <2>2. a \in Keeps(Context(disk, kept, {t}))
    BY <1>10, StillLeaving DEF x
  <2>3. Standing(kept)'
    BY <1>1, <1>2, <1>3, <1>5, <2>1, <2>2, ClosesStep
  <2>4. broker' \in Keeps(Context(disk', kept, {}))
    BY <2>3 DEF Standing
  <2>5. <<c, m, 1>> \in kept.stored
    BY <1>3 DEF p1
  <2>6. QED
    BY <2>4, <2>5, KeepsCustody
<1>13. QED
  BY <1>10, <1>11, <1>12

\* A connection that is lost, or says goodbye, leaves to the session what it awaited.
LEMMA DepartureTakes ==
  ASSUME IInv, NEW t \in Token, Running, Connected(broker, t), Departs(t), broker' # Stopped,
         NEW c \in Cid, NEW m, Awaits(broker.clients[t], c, m),
         Connected(Said(t), t), ~CutsOff(Said(t), t, c)
  PROVE  Has(broker'.sessions[c], m, 1)
<1> DEFINE p1 == <<t, c, m>>
           kept == Staying({}, {}, {p1})
           x == Context(disk, kept, {t})
<1>1. kept.stored = {} /\ kept.queued = {p1} /\ p1[1] = t /\ p1[2] = c /\ p1[3] = m
  BY DEF Staying
<1> HIDE DEF p1, kept
<1>2. x.msgs = Msg /\ x.kept = kept /\ x.leaving = {t}
  BY ContextFields
<1>3. broker \in Keeps(Context(disk, Nothing, {}))
  BY RunningStanding DEF IInv
<1>4. broker \in Keeps(x)
  BY <1>1, <1>3, ContextFields, NothingStays DEF Keeps, IsQueued, Connected
<1> HIDE DEF x
<1>5. ASSUME NEW b \in Keeps(x), Closes(b, t), Connected(Farewell(b, t), t),
             Awaits(Farewell(b, t).clients[t], c, m), ~CutsOff(Farewell(b, t), t, c)
      PROVE  Has(broker'.sessions[c], m, 1)
  <2> DEFINE a == RemoveClient(b, t)
  <2>1. a \in GoodBroker(x.msgs) /\ Has(a.sessions[c], m, 1)
    BY <1>2, <1>5, RemoveClientKeeps, RemoveClientTakes DEF Keeps
  <2>2. Saved(a)
    BY <1>5 DEF Closes, Dies
  <2> HIDE DEF a
  <2>3. broker'.sessions = a.sessions
    BY <2>1, <2>2, SavedSessions
  <2>4. QED
    BY <2>1, <2>3
<1>6. CASE Lose(t)
  <2> DEFINE said == Farewell(broker, t)
  <2>1. said \in Keeps(x)
    BY <1>2, <1>4, FarewellKeeps
  <2>2. Connected(said, t) /\ ~CutsOff(said, t, c) /\ Closes(broker, t)
    BY <1>6 DEF Said, Lose
  <2> HIDE DEF said
  <2>3. Awaits(said.clients[t], c, m)
    BY <1>1, <1>2, <2>1, <2>2 DEF Keeps, IsQueued, Connected
  <2>4. QED
    BY <1>4, <1>5, <2>2, <2>3 DEF said
<1>7. CASE ~Lose(t)
  <2> DEFINE client == [broker.clients[t] EXCEPT !.clean_disconnect = TRUE]
             a == [broker EXCEPT !.clients[t].clean_disconnect = TRUE]
  <2>1. Closes(a, t) /\ ~CutsOff(broker, t, c)
    BY <1>7 DEF Departs, DisconnectPacket, Said
  <2>2. /\ broker.clients[t] \in ConnectedOf(x.msgs)
        /\ Len(broker.clients[t].write_queue) <= WRITE_QUEUE_CAP
        /\ IsFiniteSet(broker.clients[t].in_flight)
        /\ Cardinality(broker.clients[t].in_flight) <= IN_FLIGHT_CAP
    BY <1>4, LiveClient
  <2>3. /\ client \in ConnectedOf(x.msgs) /\ client.connected /\ client.clean_disconnect
        /\ client.write_queue = broker.clients[t].write_queue
        /\ client.in_flight = broker.clients[t].in_flight
        /\ client.cid = broker.clients[t].cid /\ client.clean_session = broker.clients[t].clean_session
    BY <2>2 DEF ConnectedOf
  <2>4. a = [broker EXCEPT !.clients[t] = client]
    BY <1>4 DEF Keeps, GoodBroker
  <2>5. a.clients[t] = client /\ a.sessions = broker.sessions
    BY <1>4, <2>4 DEF Keeps, GoodBroker
  <2> HIDE DEF client, a
  <2>6. Awaits(client, c, m) /\ Continues(broker.clients[t], client)
    BY <2>3, RetainsOnward DEF Awaits, Continues
  <2>7. a \in Keeps(x)
    <3>1. client \in GoodClient(x.msgs) /\ t \in x.live /\ t < broker.next_token
      BY <1>4, <2>2, <2>3, ClientOf DEF GoodClient, Connected
    <3>2. \A p \in x.kept.queued : p[1] = t => Awaits(client, p[2], p[3])
      BY <1>1, <1>2, <2>6
    <3>3. [broker EXCEPT !.clients[t] = client] \in Keeps(x)
      BY <1>2, <1>4, <3>1, <3>2, KeepsClient
    <3>4. QED
      BY <2>4, <3>3
  <2>8. Farewell(a, t) = a /\ Connected(a, t)
    BY <2>3, <2>5 DEF Farewell, Connected
  <2>9. ~CutsOff(a, t, c)
    <3>1. Unsent(a, t) = Unsent(broker, t)
      BY <2>3, <2>5 DEF Unsent
    <3>2. QED
      BY <2>1, <2>5, <3>1 DEF CutsOff
  <2>10. QED
    BY <1>5, <2>1, <2>5, <2>6, <2>7, <2>8, <2>9
<1>8. QED
  BY <1>6, <1>7

\* Custody, one step on: the message stays where it is, unless its client connects,
\* which hands it over, or departs, which stores it.
LEMMA CustodyStep ==
  ASSUME IInv, [Next]_vars, NEW c \in Cid
  PROVE  Waits(c) \/ GivenUp(c)
<1> SUFFICES ASSUME Running, broker' # Stopped, ~GivenUp(c),
                    ~ \E t \in Token : Connect(t, c, TRUE),
                    ~ \E t \in Online(broker, c) : Flush(t),
                    NEW m \in Custody(broker, c)
             PROVE  m \in Custody(broker', c)
  BY DEF Waits
<1>1. IInv'
  BY IInvStep
<1>2. broker \in Keeps(Context(disk, Nothing, {})) /\ broker' \in Keeps(Context(disk', Nothing, {}))
  <2>1. broker' = Stopped \/ broker' \in Keeps(Context(disk', Nothing, {}))
    BY <1>1 DEF IInv, Standing
  <2>2. QED
    BY <2>1, RunningStanding DEF IInv
<1>3. CASE Has(broker.sessions[c], m, 1)
  <2>1. CASE \E t \in Token : Connect(t, c, FALSE)
    <3>1. PICK t \in Token : Connect(t, c, FALSE)
      BY <2>1
    <3>2. ~Downgrades(broker.sessions[c])
      BY <2>1 DEF GivenUp
    <3>3. QED
      BY <1>3, <3>1, <3>2, ConnectResumes
  <2>2. CASE ~ \E t \in Token : Connect(t, c, FALSE)
    <3> DEFINE p1 == <<c, m, 1>>
               kept == Staying({}, {p1}, {})
    <3>1. /\ kept.filed = {} /\ kept.stored = {p1} /\ kept.queued = {}
          /\ p1[1] = c /\ p1[2] = m /\ p1[3] = 1 /\ Placed(kept)
      BY DEF Staying, Placed
    <3> HIDE DEF p1, kept
    <3>2. broker \in Keeps(Context(disk, kept, {}))
      BY <1>2, <1>3, <3>1, ContextFields, NothingStays DEF Keeps, IsStored
    <3>3. Standing(kept) /\ Readable(kept)
      BY <3>1, <3>2 DEF IInv, Standing, GoodFile, Readable
    <3>4. \A p \in kept.stored, t \in Token : \A clean \in CleanOf[p[1]] : ~Connect(t, p[1], clean)
      <4>1. ASSUME NEW t \in Token, NEW clean \in CleanOf[c] PROVE ~Connect(t, c, clean)
        <5>1. clean \in BOOLEAN
          BY BrokerAssumption
        <5>2. clean = TRUE \/ clean = FALSE
          BY <5>1
        <5>3. QED
          BY <2>2, <5>2
      <4>2. QED
        BY <3>1, <4>1
    <3>5. \A p \in kept.queued : p[1] # broker.next_token /\ ~Flush(p[1])
      BY <3>1
    <3>6. Standing(kept)'
      BY <3>3, <3>4, <3>5, StandingStep
    <3>7. broker' \in Keeps(Context(disk', kept, {})) /\ <<c, m, 1>> \in kept.stored
      BY <3>1, <3>6 DEF Standing, p1
    <3>8. QED
      BY <3>7, KeepsCustody
  <2>3. QED
    BY <2>1, <2>2
<1>4. ASSUME NEW t \in Token, Connected(broker, t), Awaits(broker.clients[t], c, m)
      PROVE  m \in Custody(broker', c)
  <2>1. t \in Online(broker, c) /\ ~Flush(t) /\ t # broker.next_token
    <3>1. t \in Online(broker, c)
      BY <1>4 DEF Online, Awaits
    <3>2. t < broker.next_token /\ t \in Nat
      BY <1>4, RunningGood DEF Token
    <3>3. QED
      BY <3>1, <3>2
  <2>2. CASE Departs(t)
    <3>1. Connected(Said(t), t) /\ ~CutsOff(Said(t), t, c)
      BY <2>1, <2>2 DEF GivenUp
    <3>2. Has(broker'.sessions[c], m, 1)
      BY <1>4, <2>2, <3>1, DepartureTakes
    <3>3. QED
      BY <1>2, <3>2, CustodyIs
  <2>3. CASE ~Departs(t)
    <3> DEFINE p1 == <<t, c, m>>
               kept == Staying({}, {}, {p1})
    <3>1. /\ kept.filed = {} /\ kept.stored = {} /\ kept.queued = {p1}
          /\ p1[1] = t /\ p1[2] = c /\ p1[3] = m /\ Placed(kept)
      BY DEF Staying, Placed
    <3> HIDE DEF p1, kept
    <3>2. Connected(broker', t)
      BY <2>1, <2>3 DEF GivenUp
    <3>3. broker \in Keeps(Context(disk, kept, {}))
      BY <1>2, <1>4, <3>1, ContextFields, NothingStays DEF Keeps, IsQueued, Connected
    <3>4. Standing(kept) /\ Readable(kept)
      BY <3>1, <3>3 DEF IInv, Standing, GoodFile, Readable
    <3>5. \A p \in kept.stored, u \in Token : \A clean \in CleanOf[p[1]] : ~Connect(u, p[1], clean)
      BY <3>1
    <3>6. \A p \in kept.queued : p[1] # broker.next_token /\ ~Flush(p[1])
      BY <2>1, <3>1
    <3>7. Standing(kept)'
      BY <3>4, <3>5, <3>6, StandingStep
    <3>8. broker' \in Keeps(Context(disk', kept, {})) /\ <<t, c, m>> \in kept.queued
      BY <3>1, <3>7 DEF Standing, p1
    <3>9. QED
      BY <3>2, <3>8, KeepsCustody
  <2>4. QED
    BY <2>2, <2>3
<1>5. QED
  BY <1>2, <1>3, <1>4, CustodyIs

\* A QoS1/2 message that waits for a persistent client stays with the broker through
\* every step, in the queue of its connection or in its session, until it is sent
\* or the client asks for a clean session; it is given up only at the limits:
\* with a client that is closed for want of room, beyond the cap of the session,
\* or to a subscription of QoS0.
THEOREM KeptWithinLimits == Spec => KeptToTheLimits
<1>1. IInv /\ [Next]_vars => [\A c \in Cid : Waits(c) \/ GivenUp(c)]_vars
  BY CustodyStep
<1>2. QED
  BY <1>1, InGoodOrder, PTL DEF Spec, KeptToTheLimits

\* Where the limits are not reached, nothing that waits is lost.
THEOREM NothingUnsentLost == Spec /\ [][\A c \in Cid : ~GivenUp(c)]_vars => UnsentKept
<1>1. IInv /\ [Next]_vars /\ [\A c \in Cid : ~GivenUp(c)]_vars => [\A c \in Cid : Waits(c)]_vars
  BY CustodyStep
<1>2. QED
  BY <1>1, InGoodOrder, PTL DEF Spec, UnsentKept

----------------------------------------------------------------------------
(* Absence does not reorder.                                                *)

\* The pairs of messages whose first comes no later than the second in o.
Before(o) == {p \in Msg \X Msg : \E i, j \in DOMAIN o : i <= j /\ p[1] = o[i] /\ p[2] = o[j]}

\* The QoS1/2 messages of a queue, or of a session, stand in the order R.
QueueInLine(R, q) ==
  \A i, j \in DOMAIN q : i <= j /\ q[i].rel /\ q[j].rel => <<q[i].pkt.msg, q[j].pkt.msg>> \in R
HeldInLine(R, s) ==
  \A i, j \in DOMAIN s : i <= j /\ s[i].qos > 0 /\ s[j].qos > 0 => <<s[i].msg, s[j].msg>> \in R

\* The queue of a client is in line, and empty until it has said CONNECT.
ClientInLine(R, client) ==
  client.connected =>
    /\ QueueInLine(R, client.write_queue)
    /\ client.cid = NoCid => client.write_queue = <<>>

\* A subscription is of a client that has said CONNECT, or of one that is gone.
Owned(b, s) ==
  s \in SubType /\ s.token < b.next_token /\ (Connected(b, s.token) => b.clients[s.token].cid # NoCid)

\* y.order is the order kept; the clients in y.alone share their id with no other
\* connection; y.mid is the client that is resuming its session.
Ordered(x, y) ==
  {b \in Keeps(x) :
     /\ \A t \in Token : ClientInLine(y.order, b.clients[t])
     /\ \A t \in Token \ {y.mid} :
          Connected(b, t) /\ b.clients[t].cid # NoCid => ~b.sessions[b.clients[t].cid].stored
     /\ \A t, u \in Token :
          t \in y.alone /\ t # u /\ Connected(b, t) /\ Connected(b, u) /\ b.clients[t].cid # NoCid
            => b.clients[t].cid # b.clients[u].cid
     /\ \A c \in Cid : b.sessions[c].stored => HeldInLine(y.order, b.sessions[c].offline)
     /\ \A i \in DOMAIN b.subs : Owned(b, b.subs[i])
     /\ \A topic \in Topic : b.retained[topic].qos = 0}

\* r is q with some of it left out.
Thinned(q, r) ==
  \E place \in [1 .. Len(r) -> 1 .. Len(q)] :
    /\ \A j \in 1 .. Len(r) : r[j] = q[place[j]]
    /\ \A j, l \in 1 .. Len(r) : j <= l => place[j] <= place[l]

\* What stands in line still does then.
LEMMA ThinnedInLine ==
  ASSUME NEW A, NEW q \in Seq(A), NEW r \in Seq(A), Thinned(q, r), NEW R
  PROVE  /\ QueueInLine(R, q) => QueueInLine(R, r)
         /\ HeldInLine(R, q) => HeldInLine(R, r)
<1>1. DOMAIN q = 1 .. Len(q) /\ DOMAIN r = 1 .. Len(r)
  BY LenProperties
<1>2. PICK place \in [1 .. Len(r) -> 1 .. Len(q)] :
        /\ \A j \in 1 .. Len(r) : r[j] = q[place[j]]
        /\ \A j, l \in 1 .. Len(r) : j <= l => place[j] <= place[l]
  BY DEF Thinned
<1>3. QueueInLine(R, q) => QueueInLine(R, r)
  BY <1>1, <1>2 DEF QueueInLine
<1>4. HeldInLine(R, q) => HeldInLine(R, r)
  BY <1>1, <1>2 DEF HeldInLine
<1>5. QED
  BY <1>3, <1>4

\* retain leaves elements out.
LEMMA OnlyThins ==
  ASSUME NEW A, NEW s \in Seq(A), NEW S
  PROVE  Only(s, S) \in Seq(A) /\ Thinned(s, Only(s, S))
<1> DEFINE r == Only(s, S)
<1>1. r \in Seq(A \cap S)
  BY OnlyType
<1>2. r \in Seq(A)
  BY <1>1, NarrowSeq
<1>3. PICK place \in [1 .. Len(r) -> 1 .. Len(s)] :
        /\ \A j \in 1 .. Len(r) : r[j] = s[place[j]]
        /\ \A j, l \in 1 .. Len(r) : j < l => place[j] < place[l]
  BY OnlyPlaces
<1>4. Len(r) \in Nat /\ Len(s) \in Nat
  BY <1>2, LenProperties
<1> HIDE DEF r
<1>5. ASSUME NEW j \in 1 .. Len(r), NEW l \in 1 .. Len(r), j <= l
      PROVE  place[j] <= place[l]
  <2>1. CASE j = l
    BY <1>4, <2>1
  <2>2. CASE j < l
    BY <1>3, <1>4, <2>2
  <2>3. QED
    BY <1>4, <1>5, <2>1, <2>2
<1>6. Thinned(s, r)
  BY <1>3, <1>5 DEF Thinned
<1>7. QED
  BY <1>2, <1>6 DEF r

\* So does VecDeque::pop_front,
LEMMA TailThins ==
  ASSUME NEW A, NEW s \in Seq(A), s # <<>>
  PROVE  Thinned(s, Tail(s))
<1> DEFINE r == Tail(s)
           place == [j \in 1 .. Len(r) |-> j + 1]
<1>1. r \in Seq(A) /\ Len(r) = Len(s) - 1 /\ \A j \in 1 .. Len(r) : r[j] = s[j + 1]
  BY HeadTailProperties
<1>2. Len(s) \in Nat /\ Len(r) \in Nat
  BY <1>1, LenProperties
<1> HIDE DEF r
<1>3. \A j \in 1 .. Len(r) : place[j] \in 1 .. Len(s) /\ r[j] = s[place[j]]
  BY <1>1, <1>2
<1>4. place \in [1 .. Len(r) -> 1 .. Len(s)]
  BY <1>3
<1>5. \A j, l \in 1 .. Len(r) : j <= l => place[j] <= place[l]
  BY <1>2
<1> HIDE DEF place
<1>6. QED
  BY <1>3, <1>4, <1>5 DEF Thinned, r

\* and VecDeque::truncate,
LEMMA UpToThins ==
  ASSUME NEW A, NEW s \in Seq(A), NEW n \in Nat
  PROVE  UpTo(s, n) \in Seq(A) /\ Thinned(s, UpTo(s, n))
<1> DEFINE r == UpTo(s, n)
           place == [j \in 1 .. Len(r) |-> j]
<1>1. Len(s) \in Nat
  BY LenProperties
<1>2. r \in Seq(A) /\ Len(r) <= Len(s) /\ \A j \in 1 .. Len(r) : r[j] = s[j]
  <2>1. CASE Len(s) <= n
    BY <1>1, <2>1 DEF UpTo
  <2>2. CASE ~(Len(s) <= n)
    <3>1. 1 \in Int /\ n \in Int /\ \A j \in 1 .. n : s[j] \in A
      BY <1>1, <2>2, ElementOfSeq
    <3>2. r = SubSeq(s, 1, n)
      BY <2>2 DEF UpTo
    <3> HIDE DEF r
    <3>3. /\ r \in Seq(A) /\ Len(r) = IF 1 <= n THEN n - 1 + 1 ELSE 0
          /\ \A j \in 1 .. n - 1 + 1 : r[j] = s[1 + j - 1]
      BY <3>1, <3>2, SubSeqProperties
    <3>4. QED
      BY <1>1, <2>2, <3>3
  <2>3. QED
    BY <2>1, <2>2
<1> HIDE DEF r
<1>3. Len(r) \in Nat
  BY <1>2, LenProperties
<1>4. place \in [1 .. Len(r) -> 1 .. Len(s)] /\ \A j \in 1 .. Len(r) : place[j] = j
  BY <1>1, <1>2, <1>3
<1> HIDE DEF place
<1>5. Thinned(s, r)
  BY <1>2, <1>4 DEF Thinned
<1>6. QED
  BY <1>2, <1>5 DEF r

\* and VecDeque::remove.
LEMMA DropAtThins ==
  ASSUME NEW S, NEW q \in Seq(S), NEW k \in 1 .. Len(q)
  PROVE  Thinned(q, DropAt(q, k))
<1> DEFINE d == DropAt(q, k)
           place == [i \in 1 .. Len(d) |-> IF i < k THEN i ELSE i + 1]
<1>1. /\ d \in Seq(S) /\ Len(d) = Len(q) - 1
      /\ \A i \in 1 .. Len(q) - 1 : d[i] = IF i < k THEN q[i] ELSE q[i + 1]
  BY DropAtIs
<1>2. Len(q) \in Nat /\ Len(d) \in Nat
  BY <1>1, LenProperties
<1> HIDE DEF d
<1>3. \A i \in 1 .. Len(d) : place[i] \in 1 .. Len(q) /\ d[i] = q[place[i]]
  BY <1>1, <1>2
<1>4. place \in [1 .. Len(d) -> 1 .. Len(q)]
  BY <1>3
<1>5. \A i, j \in 1 .. Len(d) : i <= j => place[i] <= place[j]
  BY <1>2
<1> HIDE DEF place
<1>6. QED
  BY <1>3, <1>4, <1>5 DEF Thinned, d

\* The messages of a queue that may be followed by m.
After(R, q, m) == <<m, m>> \in R /\ \A i \in DOMAIN q : q[i].rel => <<q[i].pkt.msg, m>> \in R

\* A packet joins the queue at its end.
LEMMA AppendInLine ==
  ASSUME NEW A, NEW q \in Seq(A), NEW e \in A, NEW R, QueueInLine(R, q),
         e.rel => After(R, q, e.pkt.msg)
  PROVE  QueueInLine(R, Append(q, e))
<1> DEFINE a == Append(q, e)
           n == Len(q)
<1>1. /\ a \in Seq(A) /\ Len(a) = n + 1 /\ a[n + 1] = e
      /\ \A i \in 1 .. n : a[i] = q[i]
  BY AppendProperties
<1>2. n \in Nat /\ DOMAIN q = 1 .. n /\ DOMAIN a = 1 .. n + 1
  BY <1>1, LenProperties
<1> HIDE DEF a, n
<1>3. ASSUME NEW i \in 1 .. n + 1, NEW j \in 1 .. n + 1, i <= j, a[i].rel, a[j].rel
      PROVE  <<a[i].pkt.msg, a[j].pkt.msg>> \in R
  <2>1. CASE j \in 1 .. n
    <3>1. i \in 1 .. n
      BY <1>2, <1>3, <2>1
    <3>2. QED
      BY <1>1, <1>2, <1>3, <2>1, <3>1 DEF QueueInLine
  <2>2. CASE j = n + 1
    <3>1. a[j] = e /\ e.rel
      BY <1>1, <1>3, <2>2
    <3>2. CASE i = n + 1
      BY <1>1, <3>1, <3>2 DEF After
    <3>3. CASE i \in 1 .. n
      <4>1. a[i] = q[i] /\ i \in DOMAIN q
        BY <1>1, <1>2, <3>3
      <4>2. QED
        BY <1>3, <3>1, <4>1 DEF After
    <3>4. QED
      BY <1>2, <3>2, <3>3
  <2>3. QED
    BY <1>2, <2>1, <2>2
<1>4. QED
  BY <1>2, <1>3 DEF QueueInLine, a

\* queue_qos0 keeps the order: its packets are not reliable.
LEMMA Queue0InLine ==
  ASSUME NEW A, NEW q \in Seq(A), NEW pkt, Queued(FALSE, pkt) \in A, NEW R, QueueInLine(R, q)
  PROVE  QueueInLine(R, Queue0(q, pkt))
<1> DEFINE e == Queued(FALSE, pkt)
<1>1. e \in A /\ ~e.rel
  BY DEF Queued
<1> HIDE DEF e
<1>2. QueueInLine(R, Append(q, e))
  BY <1>1, AppendInLine
<1>3. QED
  BY <1>2 DEF Queue0, e

\* queue_qos1 keeps it if what it adds comes after what is there.
LEMMA Queue1InLine ==
  ASSUME NEW M, NEW q \in Seq(EntryOf(M)), NEW pkt, Queued(TRUE, pkt) \in EntryOf(M), Accepts1(q),
         NEW R, QueueInLine(R, q), After(R, q, pkt.msg)
  PROVE  QueueInLine(R, Queue1(q, pkt))
<1> DEFINE r == Evict(q)
           e == Queued(TRUE, pkt)
<1>1. r \in Seq(EntryOf(M)) /\ QueueInLine(R, r) /\ After(R, r, pkt.msg)
  <2>1. CASE Accepts0(q)
    BY <2>1 DEF Evict
  <2>2. CASE ~Accepts0(q)
    <3> DEFINE k == FirstQos0(q)
    <3>1. \E i \in DOMAIN q : ~q[i].rel
      BY <2>2 DEF Accepts1
    <3>2. k \in 1 .. Len(q)
      BY <3>1, EntryQueue, FirstQos0Found
    <3> HIDE DEF k
    <3>3. DropAt(q, k) \in Seq(EntryOf(M)) /\ Thinned(q, DropAt(q, k))
      BY <3>2, DropAtIs, DropAtThins
    <3>4. r = DropAt(q, k)
      BY <2>2 DEF Evict, k
    <3> HIDE DEF r
    <3>5. r \in Seq(EntryOf(M)) /\ QueueInLine(R, r)
      BY <3>3, <3>4, ThinnedInLine
    <3>6. After(R, r, pkt.msg)
      <4>1. DOMAIN q = 1 .. Len(q) /\ DOMAIN r = 1 .. Len(r)
        BY <3>5, LenProperties
      <4>2. QED
        BY <3>3, <3>4, <4>1 DEF Thinned, After
    <3>7. QED
      BY <3>5, <3>6
  <2>3. QED
    BY <2>1, <2>2
<1>2. e \in EntryOf(M) /\ e.pkt.msg = pkt.msg
  BY DEF Queued
<1>3. Queue1(q, pkt) = Append(r, e)
  BY DEF Queue1
<1> HIDE DEF r, e
<1>4. QED
  BY <1>1, <1>2, <1>3, AppendInLine

\* What a broker in order is.
LEMMA OrderedIs ==
  ASSUME NEW x, NEW y, NEW b \in Ordered(x, y)
  PROVE  /\ b \in Keeps(x) /\ b \in GoodBroker(x.msgs)
         /\ \A t \in Token : ClientInLine(y.order, b.clients[t])
BY DEF Ordered, Keeps

\* The order is a matter of each client, as long as it keeps its id.
LEMMA OrderedClient ==
  ASSUME NEW x, NEW y, NEW b \in Ordered(x, y), NEW t \in Token, NEW client,
         [b EXCEPT !.clients[t] = client] \in Keeps(x),
         ClientInLine(y.order, client),
         client.connected => Connected(b, t) /\ client.cid = b.clients[t].cid
  PROVE  [b EXCEPT !.clients[t] = client] \in Ordered(x, y)
<1> DEFINE a == [b EXCEPT !.clients[t] = client]
<1>1. b \in GoodBroker(x.msgs)
  BY OrderedIs
<1>2. /\ a.subs = b.subs /\ a.sessions = b.sessions /\ a.next_token = b.next_token
      /\ a.retained = b.retained /\ a.clients[t] = client
      /\ \A u \in Token : u # t => a.clients[u] = b.clients[u]
  BY <1>1 DEF GoodBroker
<1> HIDE DEF a
<1>3. \A u \in Token : Connected(a, u) => Connected(b, u) /\ a.clients[u].cid = b.clients[u].cid
  BY <1>2 DEF Connected
<1>4. \A u \in Token : ClientInLine(y.order, a.clients[u])
  BY <1>2, OrderedIs
<1>5. \A u \in Token \ {y.mid} :
        Connected(a, u) /\ a.clients[u].cid # NoCid => ~a.sessions[a.clients[u].cid].stored
  BY <1>2, <1>3 DEF Ordered
<1>6. \A u, v \in Token :
        u \in y.alone /\ u # v /\ Connected(a, u) /\ Connected(a, v) /\ a.clients[u].cid # NoCid
          => a.clients[u].cid # a.clients[v].cid
  BY <1>3 DEF Ordered
<1>7. \A i \in DOMAIN a.subs : Owned(a, a.subs[i])
  BY <1>2, <1>3 DEF Ordered, Owned, SubType
<1>8. \A c \in Cid : a.sessions[c].stored => HeldInLine(y.order, a.sessions[c].offline)
  BY <1>2 DEF Ordered
<1>9. \A topic \in Topic : a.retained[topic].qos = 0
  BY <1>2 DEF Ordered
<1>10. QED
  BY <1>4, <1>5, <1>6, <1>7, <1>8, <1>9 DEF Ordered, a

\* clients.remove keeps the order.
LEMMA DropOrdered ==
  ASSUME NEW x, NEW y, NEW b \in Ordered(x, y), NEW t \in Token
  PROVE  Drop(b, t) \in Ordered(x, y)
<1>1. [b EXCEPT !.clients[t] = Gone] \in Keeps(x)
  BY OrderedIs, DropKeeps DEF Drop
<1>2. ~Gone.connected /\ ClientInLine(y.order, Gone)
  BY GoneGood DEF ClientInLine
<1>3. QED
  BY <1>1, <1>2, OrderedClient DEF Drop

\* So does a queue in line put in the place of another, once the client has an id.
LEMMA OrderedQueue ==
  ASSUME NEW x, NEW y, NEW b \in Ordered(x, y), NEW t \in Token, Connected(b, t),
         b.clients[t].cid # NoCid, NEW q \in Seq(EntryOf(x.msgs)),
         [b EXCEPT !.clients[t].write_queue = q] \in Keeps(x), QueueInLine(y.order, q)
  PROVE  [b EXCEPT !.clients[t].write_queue = q] \in Ordered(x, y)
<1> DEFINE client == [b.clients[t] EXCEPT !.write_queue = q]
<1>1. b \in GoodBroker(x.msgs)
  BY OrderedIs
<1>2. [b EXCEPT !.clients[t].write_queue = q] = [b EXCEPT !.clients[t] = client]
  BY <1>1 DEF GoodBroker
<1>3. b.clients[t] \in ConnectedOf(x.msgs)
  BY OrderedIs, LiveClient
<1>4. client.write_queue = q /\ client.cid = b.clients[t].cid
  BY <1>3 DEF ConnectedOf
<1> HIDE DEF client
<1>5. ClientInLine(y.order, client)
  BY <1>4 DEF ClientInLine
<1>6. QED
  BY <1>2, <1>4, <1>5, OrderedClient

\* An acknowledgement is no message.
LEMMA QueueReplyOrdered ==
  ASSUME NEW x, NEW y, NEW b \in Ordered(x, y), NEW t \in Token, Connected(b, t),
         b.clients[t].cid # NoCid
  PROVE  QueueReply(b, t) \in Ordered(x, y)
<1> DEFINE queue == b.clients[t].write_queue
           q == Queue0(queue, Reply)
<1>1. b \in Keeps(x) /\ ClientInLine(y.order, b.clients[t])
  BY OrderedIs
<1>2. queue \in Seq(EntryOf(x.msgs)) /\ Len(queue) <= WRITE_QUEUE_CAP
  BY <1>1, LiveClient DEF ConnectedOf
<1>3. Queued(FALSE, Reply) \in EntryOf(x.msgs)
  BY DEF Queued, EntryOf
<1>4. QueueInLine(y.order, queue)
  BY <1>1 DEF ClientInLine, Connected
<1>5. [b EXCEPT !.clients[t].write_queue = q] = QueueReply(b, t)
  BY DEF QueueReply
<1>6. QueueReply(b, t) \in Keeps(x)
  BY <1>1, QueueReplyKeeps
<1> HIDE DEF queue
<1>7. q \in Seq(EntryOf(x.msgs)) /\ QueueInLine(y.order, q)
  BY <1>2, <1>3, <1>4, Queue0Entries, Queue0InLine
<1> HIDE DEF q
<1>8. QED
  BY <1>5, <1>6, <1>7, OrderedQueue

\* deliver_to keeps the order if the message may follow what the client has.
LEMMA DeliverToOrdered ==
  ASSUME NEW x, NEW y, NEW b \in Ordered(x, y), NEW t \in Token,
         NEW m \in Msg, NEW qos \in 0..2, qos > 0 => m \in x.msgs,
         Connected(b, t) => b.clients[t].cid # NoCid,
         Connected(b, t) /\ qos > 0 => After(y.order, b.clients[t].write_queue, m)
  PROVE  DeliverTo(b, t, m, qos).b \in Ordered(x, y)
<1> DEFINE client == b.clients[t]
           queue == client.write_queue
           pkt == Forward(m, qos, client.next_pid)
           queued == [client EXCEPT !.write_queue = Queue1(@, pkt),
                                    !.in_flight = @ \cup {pkt},
                                    !.next_pid = @ + 1]
           done == DeliverTo(b, t, m, qos)
<1>1. b \in Keeps(x) /\ ClientInLine(y.order, client) /\ done.b \in Keeps(x)
  BY OrderedIs, DeliverToKeeps
<1>2. CASE ~client.connected
  BY <1>2 DEF DeliverTo
<1>3. CASE client.connected /\ qos > 0 /\ ~(HasPid(client) /\ Accepts1(queue))
  <2>1. done = [b |-> Drop(b, t), ok |-> FALSE]
    BY <1>3 DEF DeliverTo
  <2>2. QED
    BY <2>1, DropOrdered
<1>4. CASE client.connected /\ qos = 0
  <2> DEFINE q == Queue0(queue, Forward(m, 0, 0))
  <2>1. Connected(b, t) /\ QueueInLine(y.order, queue)
    BY <1>1, <1>4 DEF Connected, ClientInLine
  <2>2. queue \in Seq(EntryOf(x.msgs)) /\ Len(queue) <= WRITE_QUEUE_CAP
    BY <1>1, <2>1, LiveClient DEF ConnectedOf
  <2>3. Queued(FALSE, Forward(m, 0, 0)) \in EntryOf(x.msgs)
    BY DEF Queued, EntryOf, Forward
  <2>4. done.b = [b EXCEPT !.clients[t].write_queue = q]
    <3>1. ~(qos > 0)
      BY <1>4
    <3>2. QED
      BY <1>4, <3>1 DEF DeliverTo
  <2> HIDE DEF queue
  <2>5. q \in Seq(EntryOf(x.msgs)) /\ QueueInLine(y.order, q)
    BY <2>1, <2>2, <2>3, Queue0Entries, Queue0InLine
  <2> HIDE DEF q, done
  <2>6. [b EXCEPT !.clients[t].write_queue = q] \in Keeps(x)
    BY <1>1, <2>4
  <2>7. [b EXCEPT !.clients[t].write_queue = q] \in Ordered(x, y)
    BY <2>1, <2>5, <2>6, OrderedQueue
  <2>8. done.b \in Ordered(x, y)
    BY <2>4, <2>7
  <2>9. QED
    BY <2>8 DEF done
<1>5. CASE client.connected /\ qos > 0 /\ HasPid(client) /\ Accepts1(queue)
  <2>1. Connected(b, t) /\ QueueInLine(y.order, queue)
    BY <1>1, <1>5 DEF Connected, ClientInLine
  <2>2. client \in ConnectedOf(x.msgs) /\ queue \in Seq(EntryOf(x.msgs))
    BY <1>1, <2>1, LiveClient DEF ConnectedOf
  <2>3. Queued(TRUE, pkt) \in EntryOf(x.msgs) /\ pkt.msg = m
    <3>1. client.next_pid \in Pid
      <4>1. client.next_pid \in Nat \ {0} /\ client.next_pid <= MAX_PID /\ MAX_PID \in Nat
        BY <1>5, <2>2, CapAssumption DEF ConnectedOf, HasPid
      <4>2. QED
        BY <4>1 DEF Pid
    <3>2. m \in x.msgs /\ qos \in 1..2
      BY <1>5
    <3>3. QED
      BY <3>1, <3>2 DEF PacketOf, Forward, Queued, EntryOf
  <2>4. done.b = [b EXCEPT !.clients[t] = queued]
    BY <1>5 DEF DeliverTo
  <2>5. queued.write_queue = Queue1(queue, pkt) /\ queued.cid = client.cid
    BY <2>2 DEF ConnectedOf
  <2> HIDE DEF queued, pkt
  <2>6. QueueInLine(y.order, Queue1(queue, pkt))
    BY <1>5, <2>1, <2>2, <2>3, Queue1InLine
  <2>7. ClientInLine(y.order, queued)
    BY <2>1, <2>5, <2>6 DEF ClientInLine
  <2> HIDE DEF done
  <2>8. QED
    BY <1>1, <2>1, <2>4, <2>5, <2>7, OrderedClient DEF done
<1>6. QED
  BY <1>2, <1>3, <1>4, <1>5

\* A step that leaves the clients alone keeps the order if what it leaves behind in
\* the other tables is in order, and it stores no session of a connected client.
LEMMA OrderedTables ==
  ASSUME NEW x, NEW y, NEW b \in Ordered(x, y), NEW a \in Keeps(x),
         a.clients = b.clients, a.next_token = b.next_token,
         \A i \in DOMAIN a.subs : Owned(b, a.subs[i]),
         \A c \in Cid : a.sessions[c].stored =>
           /\ HeldInLine(y.order, a.sessions[c].offline)
           /\ b.sessions[c].stored \/ \A t \in Token : Connected(b, t) => b.clients[t].cid # c,
         \A topic \in Topic : a.retained[topic].qos = 0
  PROVE  a \in Ordered(x, y)
<1>1. \A t \in Token : Connected(a, t) = Connected(b, t)
  BY DEF Connected
<1>2. \A t \in Token : ClientInLine(y.order, a.clients[t])
  BY DEF Ordered
<1>3. \A t \in Token : Connected(b, t) => b.clients[t] \in ConnectedOf(x.msgs)
  BY OrderedIs, LiveClient
<1>4. \A t \in Token : Connected(b, t) /\ b.clients[t].cid # NoCid => b.clients[t].cid \in Cid
  BY <1>3 DEF ConnectedOf
<1>5. \A t \in Token \ {y.mid} :
        Connected(a, t) /\ a.clients[t].cid # NoCid => ~a.sessions[a.clients[t].cid].stored
  BY <1>1, <1>4 DEF Ordered
<1>6. \A i \in DOMAIN a.subs : Owned(a, a.subs[i])
  BY DEF Owned, Connected
<1>7. \A t, u \in Token :
        t \in y.alone /\ t # u /\ Connected(a, t) /\ Connected(a, u) /\ a.clients[t].cid # NoCid
          => a.clients[t].cid # a.clients[u].cid
  BY <1>1 DEF Ordered
<1>8. QED
  BY <1>2, <1>5, <1>6, <1>7 DEF Ordered

\* Whoever is told a message newer than all others may be told it at once.
Newest(R, m) == <<m, m>> \in R /\ \A p \in R : <<p[1], m>> \in R

\* Such a message may go to the end of any queue in line.
LEMMA NewestAfter ==
  ASSUME NEW A, NEW q \in Seq(A), NEW R, QueueInLine(R, q), NEW m, Newest(R, m)
  PROVE  After(R, q, m)
<1>1. DOMAIN q = 1 .. Len(q) /\ Len(q) \in Nat
  BY LenProperties
<1>2. ASSUME NEW i \in DOMAIN q, q[i].rel PROVE <<q[i].pkt.msg, m>> \in R
  <2>1. <<q[i].pkt.msg, q[i].pkt.msg>> \in R
    BY <1>1, <1>2 DEF QueueInLine
  <2>2. QED
    BY <2>1 DEF Newest
<1>3. QED
  BY <1>2 DEF After, Newest

\* The offline queue of a session takes it as well.
LEMMA HeldAppendInLine ==
  ASSUME NEW H, NEW s \in Seq(H), NEW h \in H, NEW R, HeldInLine(R, s), Newest(R, h.msg)
  PROVE  HeldInLine(R, Append(s, h))
<1> DEFINE a == Append(s, h)
           n == Len(s)
<1>1. /\ a \in Seq(H) /\ Len(a) = n + 1 /\ a[n + 1] = h
      /\ \A i \in 1 .. n : a[i] = s[i]
  BY AppendProperties
<1>2. n \in Nat /\ DOMAIN s = 1 .. n /\ DOMAIN a = 1 .. n + 1
  BY <1>1, LenProperties
<1> HIDE DEF a, n
<1>3. ASSUME NEW i \in 1 .. n + 1, NEW j \in 1 .. n + 1, i <= j, a[i].qos > 0, a[j].qos > 0
      PROVE  <<a[i].msg, a[j].msg>> \in R
  <2>1. CASE j \in 1 .. n
    <3>1. i \in 1 .. n
      BY <1>2, <1>3, <2>1
    <3>2. QED
      BY <1>1, <1>2, <1>3, <2>1, <3>1 DEF HeldInLine
  <2>2. CASE j = n + 1
    <3>1. a[j] = h
      BY <1>1, <2>2
    <3>2. CASE i = n + 1
      BY <1>1, <3>1, <3>2 DEF Newest
    <3>3. CASE i \in 1 .. n
      <4>1. a[i] = s[i] /\ i \in DOMAIN s /\ i <= i
        BY <1>1, <1>2, <3>3
      <4>2. <<a[i].msg, a[i].msg>> \in R
        BY <1>3, <4>1 DEF HeldInLine
      <4>3. QED
        BY <3>1, <4>2 DEF Newest
    <3>4. QED
      BY <1>2, <3>2, <3>3
  <2>3. QED
    BY <1>2, <2>1, <2>2
<1>4. QED
  BY <1>2, <1>3 DEF HeldInLine, a

\* One round of fan-out keeps the order.
LEMMA DeliverOrdered ==
  ASSUME NEW x, NEW y, NEW b \in Ordered(x, y), NEW m \in Msg, NEW qos \in 0..2,
         qos > 0 => m \in x.msgs /\ Newest(y.order, m), NEW i \in 1 .. Len(b.subs)
  PROVE  Deliver(b, m, qos, i) \in Ordered(x, y)
<1> DEFINE sub == b.subs[i]
           q == LesserQos(qos, sub.qos)
           done == DeliverTo(b, sub.token, m, q)
           a == done.b
           pruned == [a EXCEPT !.subs = SwapRemove(@, i)]
<1>1. b \in Keeps(x) /\ b.subs \in Seq(SubType) /\ DOMAIN b.subs = 1 .. Len(b.subs)
  BY OrderedIs, LenProperties DEF GoodBroker
<1>2. Owned(b, sub) /\ sub.token \in Token /\ sub.qos \in 0..2
  BY <1>1 DEF Ordered, Owned, SubType
<1>3. q \in 0..2 /\ (q > 0 => qos > 0)
  BY <1>2, LesserQosType
<1>4. Deliver(b, m, qos, i) = IF done.ok THEN a ELSE pruned
  BY DEF Deliver
<1> HIDE DEF q, sub
<1>5. a \in Keeps(x) /\ a.subs = b.subs
  BY <1>1, <1>2, <1>3, DeliverToKeeps
<1>6. a \in Ordered(x, y)
  <2>1. Connected(b, sub.token) => b.clients[sub.token].cid # NoCid
    BY <1>2 DEF Owned
  <2>2. ASSUME Connected(b, sub.token), q > 0
        PROVE  After(y.order, b.clients[sub.token].write_queue, m)
    <3>1. b.clients[sub.token].write_queue \in Seq(EntryOf(x.msgs))
      BY <1>1, <1>2, <2>2, LiveClient DEF ConnectedOf
    <3>2. QueueInLine(y.order, b.clients[sub.token].write_queue)
      BY <1>2, <2>2, OrderedIs DEF ClientInLine, Connected
    <3>3. QED
      BY <1>3, <2>2, <3>1, <3>2, NewestAfter
  <2>3. q > 0 => m \in x.msgs
    BY <1>3
  <2>4. QED
    BY <1>2, <1>3, <2>1, <2>2, <2>3, DeliverToOrdered
<1> HIDE DEF done, a
<1>7. ASSUME ~done.ok PROVE pruned \in Ordered(x, y)
  <2> DEFINE left == SwapRemove(a.subs, i)
             K == {s \in SubType : Owned(a, s)}
  <2>1. a.subs \in Seq(SubType) /\ \A j \in DOMAIN a.subs : Owned(a, a.subs[j])
    BY <1>1, <1>5, <1>6 DEF Ordered
  <2>2. a.subs \in Seq(K)
    BY <2>1 DEF Owned
  <2>3. left \in Seq(K)
    BY <1>5, <2>2, SwapRemoveType
  <2>4. left \in Seq(SubType)
    BY <1>5, <2>1, SwapRemoveType
  <2>5. pruned \in Keeps(x)
    BY <1>5, <2>4, KeepsSubs
  <2>6. /\ pruned.subs = left /\ pruned.clients = a.clients /\ pruned.sessions = a.sessions
        /\ pruned.next_token = a.next_token /\ pruned.retained = a.retained
    BY <1>5 DEF Keeps, GoodBroker
  <2> HIDE DEF left, pruned
  <2>7. \A j \in DOMAIN pruned.subs : Owned(a, pruned.subs[j])
    <3>1. DOMAIN left = 1 .. Len(left) /\ \A j \in 1 .. Len(left) : left[j] \in K
      BY <2>3, LenProperties, ElementOfSeq
    <3>2. QED
      BY <2>6, <3>1
  <2>8. QED
    BY <1>6, <2>5, <2>6, <2>7, OrderedTables DEF Ordered
<1>8. QED
  BY <1>4, <1>6, <1>7 DEF a, done

\* The whole of fan-out does.
LEMMA DeliverAllOrdered ==
  ASSUME NEW x, NEW y, NEW b \in Ordered(x, y), NEW m \in Msg, NEW qos \in 0..2,
         qos > 0 => m \in x.msgs /\ Newest(y.order, m)
  PROVE  DeliverAll(b, m, qos) \in Ordered(x, y)
<1> DEFINE n == Len(b.subs)
<1>1. PICK run : Delivering(run, b, m, qos, x)
  BY OrderedIs, DeliverRun
<1> DEFINE S == {k \in 0 .. n : run[k] \in Ordered(x, y)}
<1>2. n \in Nat
  <2>1. b.subs \in Seq(SubType)
    BY OrderedIs DEF GoodBroker
  <2>2. QED
    BY <2>1, LenProperties
<1>3. /\ run[0] = b /\ run[n] = DeliverAll(b, m, qos)
      /\ \A k \in 0 .. n : Len(run[k].subs) >= n - k /\ run[k] \in Keeps(x)
      /\ \A k \in 1 .. n :
           run[k] = IF n + 1 - k \in MatchingSubs(b.subs, m)
                    THEN Deliver(run[k - 1], m, qos, n + 1 - k) ELSE run[k - 1]
  BY <1>1 DEF Delivering
<1> HIDE DEF n
<1>4. 0 \in S
  BY <1>2, <1>3
<1>5. ASSUME NEW k \in 0 .. n - 1, k \in S PROVE k + 1 \in S
  <2> DEFINE i == n - k
             a == run[k]
  <2>1. k + 1 \in 1 .. n /\ k + 1 \in 0 .. n /\ n + 1 - (k + 1) = i /\ (k + 1) - 1 = k /\ k \in 0 .. n
    BY <1>2
  <2>2. a \in Ordered(x, y)
    BY <1>5
  <2>3. Len(a.subs) >= i /\ Len(a.subs) \in Nat
    <3>1. a.subs \in Seq(SubType)
      BY <2>2, OrderedIs DEF GoodBroker
    <3>2. QED
      BY <1>3, <2>1, <3>1, LenProperties
  <2>4. i \in 1 .. Len(a.subs)
    BY <1>2, <2>3
  <2>5. run[k + 1] = IF i \in MatchingSubs(b.subs, m) THEN Deliver(a, m, qos, i) ELSE a
    BY <1>3, <2>1
  <2> HIDE DEF i, a
  <2>6. Deliver(a, m, qos, i) \in Ordered(x, y)
    BY <2>2, <2>4, DeliverOrdered
  <2>7. QED
    BY <2>1, <2>2, <2>5, <2>6
<1> HIDE DEF S
<1>6. \A k \in 0 .. n : k \in S
  BY <1>2, <1>4, <1>5, IntervalInduction
<1>7. n \in S
  BY <1>2, <1>6
<1>8. QED
  BY <1>3, <1>7 DEF S

\* A retained message is of QoS 0 here.
LEMMA RetainOrdered ==
  ASSUME NEW x, NEW y, NEW b \in Ordered(x, y), NEW m \in Msg
  PROVE  Retain(b, m, 0) \in Ordered(x, y)
<1> DEFINE a == Retain(b, m, 0)
<1>1. b \in GoodBroker(x.msgs)
  BY OrderedIs
<1>2. a \in Keeps(x)
  BY OrderedIs, RetainKeeps
<1>3. /\ a.clients = b.clients /\ a.subs = b.subs /\ a.sessions = b.sessions
      /\ a.next_token = b.next_token
      /\ \A topic \in Topic :
           a.retained[topic] \in {b.retained[topic], Held(NoMsg, 0), Held(m, 0)}
  BY <1>1 DEF Retain, GoodBroker, RetainedType
<1> HIDE DEF a
<1>4. \A topic \in Topic : a.retained[topic].qos = 0
  BY <1>3 DEF Ordered, Held
<1>5. a \in Ordered(x, y)
  BY <1>2, <1>3, <1>4, OrderedTables DEF Ordered
<1>6. QED
  BY <1>5 DEF a

\* The newest message goes to the end of the sessions that want it.
LEMMA StoreOfflineOrdered ==
  ASSUME NEW x, NEW y, NEW b \in Ordered(x, y), NEW m \in Msg, NEW qos \in 0..2,
         qos > 0 => m \in x.msgs /\ Newest(y.order, m)
  PROVE  StoreOffline(b, m, qos) \in Ordered(x, y)
<1> DEFINE takers == {c \in Cid : Wants(b.sessions[c], m) /\ HasRoom(b.sessions[c])}
           held(c) == Held(m, LesserQos(qos, SessionQos(b.sessions[c], m)))
           store(c) == [b.sessions[c] EXCEPT !.offline = Append(@, held(c))]
           sessions == [c \in Cid |-> IF c \in takers THEN store(c) ELSE b.sessions[c]]
           a == StoreOffline(b, m, qos)
<1>1. CASE qos = 0 \/ takers = {}
  BY <1>1 DEF StoreOffline
<1>2. CASE qos # 0 /\ takers # {}
  <2>1. b \in Keeps(x) /\ b \in GoodBroker(x.msgs) /\ \A c \in Cid : b.sessions[c] \in GoodSession(x.msgs)
    BY OrderedIs DEF GoodBroker
  <2>2. a \in Keeps(x)
    BY <2>1, StoreOfflineKeeps
  <2>3. a = [b EXCEPT !.sessions = sessions, !.dirty = TRUE]
    BY <1>2 DEF StoreOffline
  <2>4. ASSUME NEW c \in takers
        PROVE  b.sessions[c].stored /\ HeldInLine(y.order, store(c).offline)
    <3> DEFINE H == [msg : x.msgs, qos : 0..2]
               off == b.sessions[c].offline
    <3>1. b.sessions[c] \in StoredOf(x.msgs) /\ b.sessions[c].stored
      BY <2>1, StoredSession DEF Wants
    <3>2. off \in Seq(H) /\ HeldInLine(y.order, off)
      BY <3>1 DEF StoredOf, Ordered
    <3>3. held(c) \in H /\ held(c).msg = m /\ Newest(y.order, m)
      <4>1. LesserQos(qos, SessionQos(b.sessions[c], m)) \in 0..2
        BY <3>1, SessionQosType, LesserQosType
      <4>2. m \in x.msgs /\ Newest(y.order, m)
        BY <1>2
      <4>3. QED
        BY <4>1, <4>2 DEF Held
    <3>4. store(c).offline = Append(off, held(c))
      BY <3>1 DEF StoredOf
    <3> HIDE DEF H, off, held, store
    <3>5. QED
      BY <3>1, <3>2, <3>3, <3>4, HeldAppendInLine
  <2> HIDE DEF store
  <2>5. /\ a.clients = b.clients /\ a.subs = b.subs /\ a.sessions = sessions
        /\ a.next_token = b.next_token /\ a.retained = b.retained
    BY <2>1, <2>3 DEF GoodBroker
  <2> HIDE DEF a
  <2>6. \A c \in Cid : a.sessions[c].stored =>
          b.sessions[c].stored /\ HeldInLine(y.order, a.sessions[c].offline)
    BY <2>4, <2>5 DEF Ordered
  <2> HIDE DEF sessions
  <2>7. a \in Ordered(x, y)
    BY <2>2, <2>5, <2>6, OrderedTables DEF Ordered
  <2>8. QED
    BY <2>7 DEF a
<1>3. QED
  BY <1>1, <1>2

\* publish keeps the order when what it publishes at QoS1/2 is new and not retained.
LEMMA PublishOrdered ==
  ASSUME NEW x, NEW y, NEW b \in Ordered(x, y), NEW m \in Msg, NEW qos \in 0..2,
         NEW retain \in BOOLEAN,
         qos > 0 => m \in x.msgs /\ Newest(y.order, m) /\ ~retain
  PROVE  Publish(b, m, qos, retain) \in Ordered(x, y)
<1> DEFINE kept == IF retain THEN Retain(b, m, qos) ELSE b
           sent == DeliverAll(kept, m, qos)
<1>1. kept \in Ordered(x, y)
  <2>1. CASE retain
    <3>1. qos = 0
      BY <2>1
    <3>2. QED
      BY <2>1, <3>1, RetainOrdered
  <2>2. CASE ~retain
    BY <2>2
  <2>3. QED
    BY <2>1, <2>2
<1> HIDE DEF kept
<1>2. sent \in Ordered(x, y)
  BY <1>1, DeliverAllOrdered
<1> HIDE DEF sent
<1>3. StoreOffline(sent, m, qos) \in Ordered(x, y)
  BY <1>2, StoreOfflineOrdered
<1>4. QED
  BY <1>3 DEF Publish, sent, kept

\* What the broker itself says at QoS 0 has no place in the order.
LEMMA SysPublishedOrdered ==
  ASSUME NEW x, NEW y, NEW b \in Ordered(x, y)
  PROVE  SysPublished(b) \in Ordered(x, y)
<1>1. \A acc \in Ordered(x, y) : \A m \in Msg : Publish(acc, m, 0, TRUE) \in Ordered(x, y)
  <2>1. 0 \in 0..2 /\ TRUE \in BOOLEAN /\ ~(0 > 0)
    OBVIOUS
  <2>2. QED
    BY <2>1, PublishOrdered, Zenon
<1>2. QED
  BY <1>1, SysPublishedIn

\* What the theorem assumes of the constants.  An offline queue is shorter than a
\* write queue (1024 and 8192 in the code), or a resumed one could be cut short by a
\* packet of QoS 0 and stored again behind itself; no PUBLISH is retained and no will
\* is of QoS 1 or 2, since a retained message is sent again to whoever subscribes
\* later, and a will has no place in the order of the PUBLISH packets.
Orderly ==
  /\ OFFLINE_CAP < WRITE_QUEUE_CAP
  /\ TRUE \notin RETAIN
  /\ WILL_QOS = 0 \/ \A c \in Cid : WillOf[c] = NoMsg

\* Nor has a will of QoS 0.
LEMMA FarewellOrdered ==
  ASSUME Orderly, NEW x, NEW y, NEW b \in Ordered(x, y), NEW t \in Token, x.msgs \subseteq Msg
  PROVE  Farewell(b, t) \in Ordered(x, y)
<1>1. CASE Connected(b, t) /\ b.clients[t].will # NoMsg
  <2> DEFINE m == b.clients[t].will
  <2>1. b.clients[t] \in ConnectedOf(x.msgs)
    BY <1>1, OrderedIs, LiveClient
  <2>2. m \in Msg /\ WILL_QOS = 0
    BY <1>1, <2>1 DEF ConnectedOf, Orderly
  <2> HIDE DEF m
  <2>3. 0 \in 0..2 /\ ~(0 > 0) /\ WillRetain \in BOOLEAN
    BY BrokerAssumption
  <2>4. Publish(b, m, 0, WillRetain) \in Ordered(x, y)
    BY <2>2, <2>3, PublishOrdered, Zenon
  <2>5. QED
    BY <2>2, <2>4 DEF Farewell, PublishLwt, m
<1>2. CASE ~(Connected(b, t) /\ b.clients[t].will # NoMsg)
  BY <1>2 DEF Farewell, PublishLwt
<1>3. QED
  BY <1>1, <1>2

----------------------------------------------------------------------------

\* What a client has not been sent is in the order of its queue.
LEMMA UnsentInLine ==
  ASSUME NEW x, NEW b \in Keeps(x), NEW t \in Token, Connected(b, t),
         NEW R, QueueInLine(R, b.clients[t].write_queue)
  PROVE  HeldInLine(R, Unsent(b, t))
<1> DEFINE queue == b.clients[t].write_queue
           S == {e \in ToSet(queue) : e.rel}
           rel == Only(queue, S)
           f == [i \in DOMAIN rel |-> Held(rel[i].pkt.msg, rel[i].pkt.qos)]
<1>1. queue \in Seq(EntryOf(x.msgs))
  <2>1. b.clients[t] \in ConnectedOf(x.msgs)
    BY LiveClient
  <2>2. QED
    BY <2>1 DEF ConnectedOf
<1>2. Unsent(b, t) = f
  BY DEF Unsent
<1>3. \A e \in S : e.rel
  OBVIOUS
<1> HIDE DEF queue, S
<1>4. rel \in Seq(EntryOf(x.msgs) \cap S) /\ rel \in Seq(EntryOf(x.msgs)) /\ Thinned(queue, rel)
  BY <1>1, OnlyType, OnlyThins
<1>5. QueueInLine(R, rel)
  BY <1>1, <1>4, ThinnedInLine DEF queue
<1> HIDE DEF rel
<1>6. \A i \in DOMAIN rel : rel[i].rel
  <2>1. DOMAIN rel = 1 .. Len(rel) /\ \A i \in 1 .. Len(rel) : rel[i] \in EntryOf(x.msgs) \cap S
    BY <1>4, LenProperties, ElementOfSeq
  <2>2. QED
    BY <1>3, <2>1
<1>7. DOMAIN f = DOMAIN rel /\ \A i \in DOMAIN rel : f[i].msg = rel[i].pkt.msg
  BY DEF Held
<1> HIDE DEF f
<1>8. HeldInLine(R, f)
  BY <1>5, <1>6, <1>7 DEF HeldInLine, QueueInLine
<1>9. QED
  BY <1>2, <1>8

\* A client that leaves finds no session of its own: the one that is stored holds
\* what it had queued, in that order.
LEMMA PersistInLine ==
  ASSUME NEW x, NEW b \in Keeps(x), NEW t \in Token, Persistent(b, t),
         ~b.sessions[b.clients[t].cid].stored,
         NEW R, QueueInLine(R, b.clients[t].write_queue)
  PROVE  HeldInLine(R, Persist(b, t).sessions[b.clients[t].cid].offline)
<1> DEFINE c == b.clients[t].cid
           H == [msg : x.msgs, qos : 0..2]
           more == Unsent(b, t)
           taken == UpTo(more, OFFLINE_CAP)
<1>1. Connected(b, t) /\ c \in Cid
  <2>1. Connected(b, t) /\ c # NoCid
    BY DEF Persistent
  <2>2. b.clients[t] \in ConnectedOf(x.msgs)
    BY <2>1, LiveClient
  <2>3. QED
    BY <2>1, <2>2 DEF ConnectedOf
<1>2. more \in Seq(H) /\ HeldInLine(R, more)
  BY <1>1, UnsentType, UnsentInLine
<1> HIDE DEF more, H
<1>3. taken \in Seq(H) /\ Thinned(more, taken)
  BY <1>2, BrokerAssumption, UpToThins
<1> HIDE DEF taken
<1>4. HeldInLine(R, taken)
  BY <1>2, <1>3, ThinnedInLine
<1>5. WithMore(<<>>, more) = taken
  <2>1. Len(<<>>) = 0 /\ OFFLINE_CAP \in Nat
    BY BrokerAssumption
  <2>2. 0 <= OFFLINE_CAP /\ OFFLINE_CAP - 0 = OFFLINE_CAP
    BY <2>1
  <2>3. WithMore(<<>>, more) = <<>> \o taken
    BY <2>1, <2>2 DEF WithMore, taken
  <2>4. QED
    BY <1>3, <2>3, ConcatEmptySeq
<1>6. Persist(b, t).sessions[c].offline = WithMore(<<>>, more)
  <2>1. b.sessions \in [Cid -> GoodSession(x.msgs)] /\ b \in GoodBroker(x.msgs)
    BY DEF Keeps, GoodBroker
  <2>2. QED
    BY <1>1, <2>1 DEF Persist, Stored, GoodBroker, more
<1>7. QED
  BY <1>4, <1>5, <1>6

\* The subscriptions that are left are in order.
LEMMA UnsubscribedOrdered ==
  ASSUME NEW x, NEW y, NEW b \in Ordered(x, y), NEW S, NEW a,
         a = [b EXCEPT !.subs = Only(b.subs, S)]
  PROVE  a \in Ordered(x, y)
<1> DEFINE subs == Only(b.subs, S)
<1>1. b \in Keeps(x) /\ b \in GoodBroker(x.msgs) /\ b.subs \in Seq(SubType)
  BY OrderedIs DEF GoodBroker
<1>2. subs \in Seq(SubType) /\ Thinned(b.subs, subs)
  BY <1>1, OnlyThins
<1> HIDE DEF subs
<1>3. a = [b EXCEPT !.subs = subs]
  BY DEF subs
<1>4. a \in Keeps(x)
  BY <1>1, <1>2, <1>3, KeepsSubs
<1>5. /\ a.subs = subs /\ a.clients = b.clients /\ a.sessions = b.sessions
      /\ a.next_token = b.next_token /\ a.retained = b.retained
  BY <1>1, <1>3 DEF GoodBroker
<1>6. \A i \in DOMAIN a.subs : Owned(b, a.subs[i])
  <2>1. DOMAIN b.subs = 1 .. Len(b.subs) /\ DOMAIN subs = 1 .. Len(subs)
    BY <1>1, <1>2, LenProperties
  <2>2. QED
    BY <1>2, <1>5, <2>1 DEF Thinned, Ordered
<1>7. QED
  BY <1>4, <1>5, <1>6, OrderedTables DEF Ordered

\* remove_client keeps the order: the client shares its id with no other, and its
\* session is not stored yet.
LEMMA RemoveClientOrdered ==
  ASSUME Orderly, NEW x, NEW y, NEW b \in Ordered(x, y), NEW t \in Token, x.msgs \subseteq Msg,
         (t \in y.alone /\ t # y.mid) \/ ~Connected(b, t)
  PROVE  RemoveClient(b, t) \in Ordered(x, y)
<1> DEFINE said == Farewell(b, t)
           kept == IF Persistent(said, t) THEN Persist(said, t) ELSE said
           S == ToSet(said.subs) \ OwnSubs(said, t)
           left == Unsubscribed(said, t)
           rest == Unsubscribed(kept, t)
           base == Drop(left, t)
           done == RemoveClient(b, t)
           c == said.clients[t].cid
<1>1. said \in Ordered(x, y) /\ said \in GoodBroker(x.msgs) /\ said \in Keeps(x)
  BY FarewellOrdered, OrderedIs
<1>2. ~Connected(b, t) => ~Connected(said, t)
  BY DEF Farewell, PublishLwt
<1>3. done = Drop(rest, t) /\ done \in Keeps(x)
  BY OrderedIs, RemoveClientKeeps DEF RemoveClient
<1> HIDE DEF said, done
<1>4. left \in Ordered(x, y)
  <2>1. left = [said EXCEPT !.subs = Only(said.subs, S)]
    BY DEF Unsubscribed
  <2> HIDE DEF left, S
  <2>2. QED
    BY <1>1, <2>1, UnsubscribedOrdered
<1>5. base \in Ordered(x, y)
  BY <1>4, DropOrdered
<1>6. CASE ~Persistent(said, t)
  <2>1. done = base
    BY <1>3, <1>6
  <2>2. QED
    BY <1>5, <2>1 DEF done
<1>7. CASE Persistent(said, t)
  <2>1. Connected(said, t) /\ c \in Cid /\ c # NoCid /\ t \in y.alone /\ t # y.mid
    <3>1. Connected(said, t) /\ c # NoCid
      BY <1>7 DEF Persistent
    <3>2. said.clients[t] \in ConnectedOf(x.msgs)
      BY <1>1, <3>1, LiveClient
    <3>3. QED
      BY <1>2, <3>1, <3>2 DEF ConnectedOf
  <2>2. ~said.sessions[c].stored
    BY <1>1, <2>1 DEF Ordered
  <2>3. QueueInLine(y.order, said.clients[t].write_queue)
    BY <1>1, <2>1 DEF Ordered, ClientInLine, Connected
  <2> DEFINE new == Persist(said, t).sessions[c]
  <2>4. HeldInLine(y.order, new.offline)
    BY <1>1, <1>7, <2>2, <2>3, PersistInLine
  <2>5. /\ kept.clients = said.clients /\ kept.subs = said.subs /\ kept.next_token = said.next_token
        /\ kept.retained = said.retained
        /\ \A d \in Cid : kept.sessions[d] = IF d = c THEN new ELSE said.sessions[d]
        /\ kept \in GoodBroker(x.msgs)
    <3>1. kept = Persist(said, t) /\ kept \in GoodBroker(x.msgs)
      BY <1>1, <1>7, PersistKeeps DEF Keeps
    <3>2. QED
      BY <1>1, <3>1 DEF Persist, GoodBroker
  <2> HIDE DEF kept, new
  <2>6. /\ rest.clients = left.clients /\ rest.subs = left.subs /\ rest.next_token = left.next_token
        /\ rest.retained = left.retained /\ rest.sessions = kept.sessions
        /\ left.sessions = said.sessions /\ left.clients = said.clients
    BY <1>1, <2>5 DEF Unsubscribed, OwnSubs, GoodBroker
  <2>7. rest \in [clients : [Token -> GoodClient(x.msgs)], subs : {rest.subs}, next_token : {rest.next_token},
                  retained : {rest.retained}, sessions : {rest.sessions}, dirty : {rest.dirty}]
    BY <2>5 DEF Unsubscribed, GoodBroker
  <2>8. left \in GoodBroker(x.msgs)
    BY <1>4, OrderedIs
  <2> HIDE DEF rest, left
  <2>9. /\ done.clients = base.clients /\ done.subs = base.subs /\ done.next_token = base.next_token
        /\ done.retained = base.retained /\ done.sessions = kept.sessions
        /\ base.sessions = said.sessions
        /\ \A u \in Token : base.clients[u] = IF u = t THEN Gone ELSE said.clients[u]
    BY <1>3, <2>6, <2>7, <2>8 DEF Drop, GoodBroker
  <2> HIDE DEF base
  <2>10. \A u \in Token : Connected(base, u) => base.clients[u].cid # c
    <3>1. \A u \in Token : Connected(base, u) =>
            u # t /\ Connected(said, u) /\ base.clients[u].cid = said.clients[u].cid
      BY <2>9, GoneGood DEF Connected
    <3>2. QED
      BY <1>1, <2>1, <3>1 DEF Ordered
  <2>11. \A d \in Cid : done.sessions[d].stored =>
           /\ HeldInLine(y.order, done.sessions[d].offline)
           /\ base.sessions[d].stored \/ \A u \in Token : Connected(base, u) => base.clients[u].cid # d
    BY <1>1, <2>4, <2>5, <2>9, <2>10 DEF Ordered
  <2>12. \A i \in DOMAIN done.subs : Owned(base, done.subs[i])
    BY <1>5, <2>9 DEF Ordered
  <2>13. \A topic \in Topic : done.retained[topic].qos = 0
    BY <1>5, <2>9 DEF Ordered
  <2> HIDE DEF c
  <2>14. done \in Ordered(x, y)
    BY <1>3, <1>5, <2>9, <2>11, <2>12, <2>13, OrderedTables
  <2>15. QED
    BY <2>14 DEF done
<1>8. QED
  BY <1>6, <1>7

----------------------------------------------------------------------------

\* What deliver_to does to the connection: it keeps its id, what it has room for
\* goes to the end of its queue, and the client that cannot take it is gone.
Appends(done, b, t, m, qos, M) ==
  /\ Connected(done.b, t) => Connected(b, t) /\ done.b.clients[t].cid = b.clients[t].cid
  /\ Accepts0(b.clients[t].write_queue) /\ Connected(done.b, t) =>
       /\ done.ok
       /\ \E e \in EntryOf(M) :
            /\ done.b.clients[t].write_queue = Append(b.clients[t].write_queue, e)
            /\ e.rel => qos > 0 /\ e.pkt.msg = m

\* deliver_to does that, whatever it is given.
LEMMA DeliverToAppends ==
  ASSUME NEW x, NEW b \in Keeps(x), NEW t \in Token,
         NEW m \in Msg, NEW qos \in 0..2, qos > 0 => m \in x.msgs
  PROVE  Appends(DeliverTo(b, t, m, qos), b, t, m, qos, x.msgs)
<1> DEFINE client == b.clients[t]
           queue == client.write_queue
           pkt == Forward(m, qos, client.next_pid)
           queued == [client EXCEPT !.write_queue = Queue1(@, pkt),
                                    !.in_flight = @ \cup {pkt},
                                    !.next_pid = @ + 1]
           done == DeliverTo(b, t, m, qos)
<1>1. b \in GoodBroker(x.msgs)
  BY DEF Keeps
<1>2. CASE ~client.connected
  BY <1>2 DEF DeliverTo, Connected, Appends
<1>3. CASE client.connected /\ qos > 0 /\ ~(HasPid(client) /\ Accepts1(queue))
  <2>1. done = [b |-> Drop(b, t), ok |-> FALSE]
    BY <1>3 DEF DeliverTo
  <2>2. QED
    BY <2>1, DropKeeps DEF Appends
<1>4. CASE client.connected /\ qos = 0
  <2> DEFINE e == Queued(FALSE, Forward(m, 0, 0))
  <2>1. client \in ConnectedOf(x.msgs) /\ Connected(b, t)
    BY <1>4, LiveClient DEF Connected
  <2>2. done = [b |-> [b EXCEPT !.clients[t].write_queue = Queue0(@, Forward(m, 0, 0))],
                ok |-> Accepts0(queue)]
    <3>1. ~(qos > 0)
      BY <1>4
    <3>2. QED
      BY <1>4, <3>1 DEF DeliverTo
  <2>3. done.b.clients[t] = [client EXCEPT !.write_queue = Queue0(@, Forward(m, 0, 0))]
        /\ done.ok = Accepts0(queue)
    BY <1>1, <2>2 DEF GoodBroker
  <2>4. e \in EntryOf(x.msgs) /\ ~e.rel
    BY DEF Queued, EntryOf, Forward
  <2> HIDE DEF done
  <2>5. done.b.clients[t].cid = client.cid /\ done.b.clients[t].write_queue = Queue0(queue, Forward(m, 0, 0))
    BY <2>1, <2>3 DEF ConnectedOf
  <2>6. Accepts0(queue) => done.ok /\ done.b.clients[t].write_queue = Append(queue, e)
    BY <2>3, <2>5 DEF Queue0
  <2> HIDE DEF e, client
  <2>7. QED
    BY <2>1, <2>4, <2>5, <2>6 DEF done, client, Appends
<1>5. CASE client.connected /\ qos > 0 /\ HasPid(client) /\ Accepts1(queue)
  <2> DEFINE e == Queued(TRUE, pkt)
  <2>1. client \in ConnectedOf(x.msgs) /\ Connected(b, t)
    BY <1>5, LiveClient DEF Connected
  <2>2. e \in EntryOf(x.msgs) /\ e.pkt.msg = m
    <3>1. client.next_pid \in Pid
      <4>1. client.next_pid \in Nat \ {0} /\ client.next_pid <= MAX_PID /\ MAX_PID \in Nat
        BY <1>5, <2>1, CapAssumption DEF ConnectedOf, HasPid
      <4>2. QED
        BY <4>1 DEF Pid
    <3>2. m \in x.msgs /\ qos \in 1..2
      BY <1>5
    <3>3. QED
      BY <3>1, <3>2 DEF PacketOf, Forward, Queued, EntryOf
  <2>3. done = [b |-> [b EXCEPT !.clients[t] = queued], ok |-> TRUE]
    BY <1>5 DEF DeliverTo
  <2>4. queued.write_queue = Queue1(queue, pkt) /\ queued.cid = client.cid
    BY <2>1 DEF ConnectedOf
  <2> HIDE DEF queued
  <2>5. done.b.clients[t] = queued /\ done.ok
    BY <1>1, <2>3 DEF GoodBroker
  <2>6. Accepts0(queue) => Queue1(queue, pkt) = Append(queue, e)
    BY DEF Queue1, Evict
  <2> HIDE DEF done, e, client, pkt
  <2>7. QED
    BY <1>5, <2>1, <2>2, <2>4, <2>5, <2>6 DEF done, client, Appends
<1>6. QED
  BY <1>2, <1>3, <1>4, <1>5

\* The state of a flush after k messages: while the client is there, its queue has
\* grown by at most one packet each, and the reliable ones are among those messages.
FlushedTo(done, t, c, off, k) ==
  IF done.ok
  THEN /\ done.b.clients[t].cid = c
       /\ Len(done.b.clients[t].write_queue) <= k + 1
       /\ \A i \in DOMAIN done.b.clients[t].write_queue :
            done.b.clients[t].write_queue[i].rel =>
              \E l \in 1 .. k :
                off[l].qos > 0 /\ done.b.clients[t].write_queue[i].pkt.msg = off[l].msg
  ELSE ~Connected(done.b, t)

\* One message of the offline queue takes the flush one step further.
LEMMA FlushRound ==
  ASSUME NEW x, NEW y, NEW b \in Ordered(x, y), NEW t \in Token, Connected(b, t), x.msgs \subseteq Msg,
         NEW c \in Cid, NEW off \in Seq([msg : x.msgs, qos : 0..2]), HeldInLine(y.order, off),
         NEW k \in Nat, k < Len(off), k + 1 < WRITE_QUEUE_CAP,
         FlushedTo([b |-> b, ok |-> TRUE], t, c, off, k),
         NEW q \in 0..2, q > 0 => off[k + 1].qos > 0
  PROVE  /\ DeliverTo(b, t, off[k + 1].msg, q).b \in Ordered(x, y)
         /\ FlushedTo(DeliverTo(b, t, off[k + 1].msg, q), t, c, off, k + 1)
<1> DEFINE h == off[k + 1]
           queue == b.clients[t].write_queue
           done == DeliverTo(b, t, h.msg, q)
           grown == done.b.clients[t].write_queue
<1>1. /\ Len(off) \in Nat /\ DOMAIN off = 1 .. Len(off) /\ k + 1 \in 1 .. Len(off)
      /\ h.msg \in x.msgs /\ h.msg \in Msg
  <2>1. Len(off) \in Nat /\ DOMAIN off = 1 .. Len(off)
    BY LenProperties
  <2>2. k + 1 \in 1 .. Len(off)
    BY <2>1
  <2>3. h \in [msg : x.msgs, qos : 0..2]
    BY <2>2, ElementOfSeq
  <2>4. QED
    BY <2>1, <2>2, <2>3
<1>2. b \in Keeps(x) /\ queue \in Seq(EntryOf(x.msgs))
  <2>1. b \in Keeps(x) /\ b.clients[t] \in ConnectedOf(x.msgs)
    BY OrderedIs, LiveClient
  <2>2. QED
    BY <2>1 DEF ConnectedOf
<1>3. /\ b.clients[t].cid = c /\ Len(queue) <= k + 1
      /\ \A i \in DOMAIN queue : queue[i].rel =>
           \E l \in 1 .. k : off[l].qos > 0 /\ queue[i].pkt.msg = off[l].msg
  BY DEF FlushedTo
<1>4. Len(queue) \in Nat /\ DOMAIN queue = 1 .. Len(queue) /\ Accepts0(queue)
  <2>1. Len(queue) \in Nat /\ DOMAIN queue = 1 .. Len(queue)
    BY <1>2, LenProperties
  <2>2. QED
    BY <1>3, <2>1, CapAssumption DEF Accepts0
<1>5. q > 0 => After(y.order, queue, h.msg)
  <2>1. SUFFICES ASSUME q > 0 PROVE After(y.order, queue, h.msg)
    OBVIOUS
  <2>2. \A l \in 1 .. k + 1 : off[l].qos > 0 => <<off[l].msg, h.msg>> \in y.order
    <3>1. \A l \in 1 .. k + 1 : l \in DOMAIN off /\ k + 1 \in DOMAIN off /\ l <= k + 1
      BY <1>1
    <3>2. h.qos > 0
      BY <2>1
    <3>3. QED
      BY <3>1, <3>2 DEF HeldInLine
  <2>3. k + 1 \in 1 .. k + 1 /\ \A l \in 1 .. k : l \in 1 .. k + 1
    OBVIOUS
  <2>4. <<h.msg, h.msg>> \in y.order
    BY <2>1, <2>2, <2>3
  <2>5. QED
    BY <1>3, <2>2, <2>3, <2>4 DEF After
<1>6. b.clients[t].cid # NoCid
  BY <1>3, BrokerAssumption
<1> HIDE DEF h
<1>7. done.b \in Ordered(x, y)
  BY <1>1, <1>5, <1>6, DeliverToOrdered
<1>8. /\ done.b \in Keeps(x) /\ done.ok \in BOOLEAN /\ (done.ok => Connected(done.b, t))
  BY <1>1, <1>2, DeliverToKeeps
<1>9. Appends(done, b, t, h.msg, q, x.msgs)
  <2>1. q > 0 => h.msg \in x.msgs
    BY <1>1
  <2>2. QED
    BY <1>1, <1>2, <2>1, DeliverToAppends
<1> HIDE DEF done, queue
<1>10. CASE ~done.ok
  BY <1>4, <1>7, <1>9, <1>10 DEF FlushedTo, done, h, Appends, queue
<1>11. CASE done.ok
  <2>1. PICK e \in EntryOf(x.msgs) : grown = Append(queue, e) /\ (e.rel => q > 0 /\ e.pkt.msg = h.msg)
    BY <1>4, <1>8, <1>9, <1>11 DEF Appends, queue
  <2>2. /\ grown \in Seq(EntryOf(x.msgs)) /\ Len(grown) = Len(queue) + 1 /\ grown[Len(queue) + 1] = e
        /\ \A i \in 1 .. Len(queue) : grown[i] = queue[i]
    BY <1>2, <2>1, AppendProperties DEF queue
  <2> HIDE DEF grown
  <2>3. DOMAIN grown = 1 .. Len(queue) + 1
    BY <1>4, <2>2, LenProperties
  <2>4. ASSUME NEW i \in DOMAIN grown, grown[i].rel
        PROVE  \E l \in 1 .. k + 1 : off[l].qos > 0 /\ grown[i].pkt.msg = off[l].msg
    <3>1. CASE i \in 1 .. Len(queue)
      <4>1. PICK l \in 1 .. k : off[l].qos > 0 /\ queue[i].pkt.msg = off[l].msg
        BY <1>3, <1>4, <2>2, <2>4, <3>1 DEF queue
      <4>2. l \in 1 .. k + 1
        OBVIOUS
      <4>3. QED
        BY <2>2, <3>1, <4>1, <4>2
    <3>2. CASE i = Len(queue) + 1
      <4>1. q > 0 /\ grown[i].pkt.msg = h.msg
        BY <2>1, <2>2, <2>4, <3>2
      <4>2. k + 1 \in 1 .. k + 1
        OBVIOUS
      <4>3. QED
        BY <4>1, <4>2 DEF h
    <3>3. QED
      BY <1>4, <2>3, <3>1, <3>2
  <2>5. Len(grown) <= (k + 1) + 1
    BY <1>3, <1>4, <2>2 DEF queue
  <2>6. done.b.clients[t].cid = c
    BY <1>3, <1>8, <1>9, <1>11 DEF Appends
  <2>7. FlushedTo(done, t, c, off, k + 1)
    BY <1>11, <2>4, <2>5, <2>6 DEF FlushedTo, grown
  <2>8. QED
    BY <1>7, <2>7 DEF done, h
<1>12. QED
  BY <1>8, <1>10, <1>11

\* The flush of an offline queue in order leaves the broker in order, and fails only
\* by losing the client: the write queue holds more than the session could.
LEMMA FlushSessionOrdered ==
  ASSUME Orderly, NEW x, NEW y, NEW b \in Ordered(x, y), NEW t \in Token, Connected(b, t),
         x.msgs \subseteq Msg, NEW c \in Cid, NEW session \in StoredOf(x.msgs),
         Len(session.offline) <= OFFLINE_CAP, HeldInLine(y.order, session.offline),
         FlushedTo([b |-> b, ok |-> TRUE], t, c, session.offline, 0)
  PROVE  /\ FlushSession(b, t, session).b \in Ordered(x, y)
         /\ FlushedTo(FlushSession(b, t, session), t, c, session.offline, Len(session.offline))
<1> DEFINE off == session.offline
           n == Len(off)
<1>1. /\ off \in Seq([msg : x.msgs, qos : 0..2]) /\ n \in Nat
      /\ \A k \in 1 .. n : off[k] \in [msg : x.msgs, qos : 0..2]
  <2>1. off \in Seq([msg : x.msgs, qos : 0..2])
    BY DEF StoredOf
  <2>2. QED
    BY <2>1, LenProperties, ElementOfSeq
<1>2. \A k \in 1 .. n : /\ FlushQos(session, off[k]) \in 0..2
                        /\ FlushQos(session, off[k]) > 0 => off[k].qos > 0
  BY <1>1, SessionQosType, LesserQosType DEF FlushQos
<1>3. PICK run : Flushing(run, b, t, session, x)
  BY OrderedIs, FlushRun
<1>4. /\ run[0] = [b |-> b, ok |-> TRUE] /\ run[n] = FlushSession(b, t, session)
      /\ \A k \in 0 .. n : run[k] \in Outcome(x, t)
      /\ \A k \in 1 .. n :
           run[k] = IF run[k - 1].ok
                    THEN DeliverTo(run[k - 1].b, t, off[k].msg, FlushQos(session, off[k]))
                    ELSE run[k - 1]
  BY <1>3 DEF Flushing
<1> DEFINE Good(k) == run[k].b \in Ordered(x, y) /\ FlushedTo(run[k], t, c, off, k)
           S == {k \in 0 .. n : Good(k)}
<1>5. 0 \in S
  BY <1>1, <1>4
<1>6. ASSUME NEW k \in 0 .. n - 1, k \in S PROVE k + 1 \in S
  <2> DEFINE a == run[k].b
             q == FlushQos(session, off[k + 1])
             done == DeliverTo(a, t, off[k + 1].msg, q)
  <2>1. k \in Nat /\ k < n /\ k + 1 \in 1 .. n /\ k + 1 \in 0 .. n /\ (k + 1) - 1 = k /\ k \in 0 .. n
    BY <1>1
  <2>2. run[k] \in Outcome(x, t) /\ Good(k)
    BY <1>4, <1>6, <2>1
  <2>3. CASE ~run[k].ok
    <3>1. run[k + 1] = run[k]
      BY <1>4, <2>1, <2>3
    <3>2. Good(k + 1)
      BY <2>2, <2>3, <3>1 DEF FlushedTo
    <3>3. QED
      BY <2>1, <3>2
  <2>4. CASE run[k].ok
    <3>1. run[k + 1] = done
      BY <1>4, <2>1, <2>4
    <3>2. a \in Ordered(x, y) /\ Connected(a, t)
      BY <2>2, <2>4 DEF Outcome
    <3>3. FlushedTo([b |-> a, ok |-> TRUE], t, c, off, k)
      BY <2>2, <2>4 DEF FlushedTo
    <3>4. k + 1 < WRITE_QUEUE_CAP
      BY <1>1, <2>1, BrokerAssumption, CapAssumption DEF Orderly
    <3>5. q \in 0..2 /\ (q > 0 => off[k + 1].qos > 0)
      BY <1>2, <2>1
    <3> HIDE DEF a, q, off, n
    <3>6. HeldInLine(y.order, off) /\ k < Len(off)
      BY <2>1 DEF off, n
    <3>7. done.b \in Ordered(x, y) /\ FlushedTo(done, t, c, off, k + 1)
      BY <1>1, <2>1, <3>2, <3>3, <3>4, <3>5, <3>6, FlushRound
    <3>8. QED
      BY <2>1, <3>1, <3>7
  <2>5. QED
    BY <2>3, <2>4
<1> HIDE DEF S
<1>7. n \in S
  <2>1. \A k \in 0 .. n : k \in S
    BY <1>1, <1>5, <1>6, IntervalInduction, Zenon
  <2>2. n \in 0 .. n
    BY <1>1
  <2>3. QED
    BY <2>1, <2>2
<1>8. Good(n)
  BY <1>7 DEF S
<1>9. QED
  BY <1>4, <1>8

\* A session may be taken out of the store.
LEMMA ForgetOrdered ==
  ASSUME NEW x, NEW y, NEW b \in Ordered(x, y), NEW c \in Cid, \A p \in x.kept.stored : p[1] # c
  PROVE  /\ Forget(b, c) \in Ordered(x, y) /\ Forget(b, c).clients = b.clients
         /\ ~Forget(b, c).sessions[c].stored
<1> DEFINE a == Forget(b, c)
<1>1. b \in GoodBroker(x.msgs)
  BY OrderedIs
<1>2. a \in Keeps(x)
  BY OrderedIs, ForgetKeeps
<1>3. /\ a.clients = b.clients /\ a.subs = b.subs /\ a.next_token = b.next_token
      /\ a.retained = b.retained
      /\ \A d \in Cid : a.sessions[d] = IF d = c THEN NoSession ELSE b.sessions[d]
  BY <1>1 DEF Forget, GoodBroker
<1>4. ~NoSession.stored
  BY DEF NoSession
<1> HIDE DEF a
<1>5. \A d \in Cid : a.sessions[d].stored =>
        b.sessions[d].stored /\ HeldInLine(y.order, a.sessions[d].offline)
  BY <1>3, <1>4 DEF Ordered
<1>6. /\ \A i \in DOMAIN a.subs : Owned(b, a.subs[i])
      /\ \A topic \in Topic : a.retained[topic].qos = 0
  BY <1>3 DEF Ordered
<1>7. a \in Ordered(x, y)
  BY <1>2, <1>3, <1>5, <1>6, OrderedTables
<1>8. QED
  BY <1>3, <1>4, <1>7 DEF a

\* The order R, with the client that resumes and those that are alone with their id.
Line(R, mid, alone) == [order |-> R, mid |-> mid, alone |-> alone]

\* While a client resumes its session, it may be the one whose session is stored.
LEMMA OrderedMid ==
  ASSUME NEW x, NEW R, NEW t, NEW b \in Keeps(x)
  PROVE  /\ b \in Ordered(x, Line(R, 0, {})) => b \in Ordered(x, Line(R, t, {}))
         /\ b \in Ordered(x, Line(R, t, {})) /\ (Connected(b, t) => ~b.sessions[b.clients[t].cid].stored)
              => b \in Ordered(x, Line(R, 0, {}))
<1>1. 0 \notin Token
  BY DEF Token
<1> DEFINE y == Line(R, 0, {})
           z == Line(R, t, {})
<1>2. y.order = R /\ z.order = R /\ y.mid = 0 /\ z.mid = t /\ y.alone = {} /\ z.alone = {}
  BY DEF Line
<1> HIDE DEF y, z
<1>3. b \in Ordered(x, y) => b \in Ordered(x, z)
  BY <1>1, <1>2 DEF Ordered
<1>4. ASSUME b \in Ordered(x, z), Connected(b, t) => ~b.sessions[b.clients[t].cid].stored
      PROVE  b \in Ordered(x, y)
  <2>1. \A u \in Token \ {0} :
          Connected(b, u) /\ b.clients[u].cid # NoCid => ~b.sessions[b.clients[u].cid].stored
    BY <1>1, <1>2, <1>4 DEF Ordered
  <2>2. QED
    BY <1>2, <1>4, <2>1 DEF Ordered
<1>5. QED
  BY <1>3, <1>4 DEF y, z

\* An acknowledgement queued for a client with nothing to send stands alone.
LEMMA ReplyAlone ==
  Len(Queue0(<<>>, Reply)) <= 1 /\ \A i \in DOMAIN Queue0(<<>>, Reply) : ~Queue0(<<>>, Reply)[i].rel
<1> DEFINE e == Queued(FALSE, Reply)
           S == {e}
           none == <<>>
           app == Append(none, e)
           q == Queue0(none, Reply)
<1>1. none \in Seq(S) /\ e \in S /\ Len(none) = 0 /\ ~e.rel
  BY EmptySeq DEF Queued
<1>2. q = app \/ q = none
  BY DEF Queue0
<1>3. \A s \in S : ~s.rel
  BY <1>1
<1> HIDE DEF S, e, q, none
<1>4. app \in Seq(S) /\ Len(app) = Len(none) + 1
  BY <1>1, AppendProperties
<1> HIDE DEF app
<1>5. q \in Seq(S) /\ Len(q) <= 1
  <2>1. Len(app) = 1
    BY <1>1, <1>4
  <2> DEFINE n == Len(q)
  <2>2. q \in Seq(S) /\ (n = 1 \/ n = 0)
    BY <1>1, <1>2, <1>4, <2>1, Zenon
  <2> HIDE DEF n
  <2>3. n <= 1
    BY <2>2
  <2>4. QED
    BY <2>2, <2>3 DEF n
<1>6. DOMAIN q = 1 .. Len(q) /\ \A i \in 1 .. Len(q) : q[i] \in S
  BY <1>5, LenProperties, ElementOfSeq
<1>7. Len(q) <= 1 /\ \A i \in DOMAIN q : ~q[i].rel
  BY <1>3, <1>5, <1>6
<1>8. QED
  BY <1>7 DEF q, none

\* The broker once the subscriptions of a session are restored for t.
Restored(a, b, t) ==
  /\ a.clients = b.clients /\ a.sessions = b.sessions
  /\ a.retained = b.retained /\ a.next_token = b.next_token
  /\ \A i \in DOMAIN a.subs : a.subs[i] \in SubType /\ (Owned(b, a.subs[i]) \/ a.subs[i].token = t)

\* CONNECT names a client that has nothing queued. The subscriptions it takes over
\* are its own.
LEMMA GreetOrdered ==
  ASSUME NEW x, NEW R, NEW b \in Ordered(x, Line(R, 0, {})), NEW t \in Token, NEW c \in Cid,
         NEW clean \in BOOLEAN, WillOf[c] \in x.msgs \cup {NoMsg},
         Connected(b, t), b.clients[t].cid = NoCid,
         NEW a \in Keeps(x), Restored(a, b, t)
  PROVE  /\ Greet(a, t, c, clean) \in Ordered(x, Line(R, t, {}))
         /\ Greet(a, t, c, clean).sessions = b.sessions
         /\ \A off : FlushedTo([b |-> Greet(a, t, c, clean), ok |-> TRUE], t, c, off, 0)
<1> USE DEF Restored
<1> DEFINE y == Line(R, t, {})
           client == [a.clients[t] EXCEPT !.cid = c, !.clean_session = clean, !.will = WillOf[c]]
           named == [a EXCEPT !.clients[t] = client]
           greeted == Greet(a, t, c, clean)
<1>1. /\ a.clients[t] \in ConnectedOf(x.msgs) /\ Len(a.clients[t].write_queue) <= WRITE_QUEUE_CAP
      /\ IsFiniteSet(a.clients[t].in_flight) /\ Cardinality(a.clients[t].in_flight) <= IN_FLIGHT_CAP
      /\ t < b.next_token /\ Connected(a, t) /\ a \in GoodBroker(x.msgs)
  <2>1. Connected(a, t) /\ a \in GoodBroker(x.msgs)
    BY DEF Connected, Keeps
  <2>2. QED
    BY <2>1, LiveClient, ClientOf DEF Connected
<1>2. a.clients[t].write_queue = <<>>
  BY DEF Ordered, ClientInLine, Connected
<1>3. /\ client \in ConnectedOf(x.msgs) /\ client.connected
      /\ client.cid = c /\ client.clean_session = clean
      /\ client.write_queue = <<>> /\ client.in_flight = a.clients[t].in_flight
      /\ client.clean_disconnect = a.clients[t].clean_disconnect
  BY <1>1, <1>2 DEF ConnectedOf
<1>4. greeted = QueueReply(named, t) /\ greeted \in Keeps(x)
  <2>1. Greet(a, t, c, clean) \in Keeps(x)
    BY <1>1, GreetKeeps
  <2>2. QED
    BY <1>1, <2>1 DEF Greet, GoodBroker
<1>5. /\ named.clients = [b.clients EXCEPT ![t] = client] /\ named.sessions = b.sessions
      /\ named.retained = b.retained /\ named.next_token = b.next_token /\ named.subs = a.subs
      /\ \A u \in Token : named.clients[u] = IF u = t THEN client ELSE b.clients[u]
  BY <1>1 DEF GoodBroker
<1>6. c # NoCid /\ NoCid \notin Cid
  BY BrokerAssumption
<1>7. named \in Keeps(x)
  <2>1. \A p \in x.kept.queued : p[1] # t
    BY <1>1, <1>6, ClientOf DEF Connected, Awaits
  <2>2. Len(client.write_queue) <= WRITE_QUEUE_CAP
    BY <1>1, <1>2, <1>3
  <2> HIDE DEF client, named
  <2>3. [a EXCEPT !.clients[t] = client] \in Keeps(x)
    BY <1>1, <1>3, <2>1, <2>2, ReplaceKeeps
  <2>4. QED
    BY <2>3 DEF named
<1> HIDE DEF client, named, greeted
<1>8. named \in Ordered(x, y)
  <2>1. y.order = R /\ y.mid = t /\ y.alone = {}
    BY DEF Line
  <2>2. ClientInLine(R, client)
    <3>1. DOMAIN <<>> = {}
      OBVIOUS
    <3>2. QED
      BY <1>3, <1>6, <3>1 DEF ClientInLine, QueueInLine
  <2>3. \A u \in Token : ClientInLine(R, named.clients[u])
    BY <1>5, <2>2 DEF Ordered, Line
  <2>4. \A u \in Token \ {t} :
          Connected(named, u) /\ named.clients[u].cid # NoCid => ~named.sessions[named.clients[u].cid].stored
    <3>1. 0 \notin Token
      BY DEF Token
    <3>2. QED
      BY <1>5, <3>1 DEF Ordered, Line, Connected
  <2>5. \A i \in DOMAIN named.subs : Owned(named, named.subs[i])
    <3>1. ASSUME NEW i \in DOMAIN a.subs PROVE Owned(named, a.subs[i])
      <4>1. CASE a.subs[i].token = t
        BY <1>1, <1>3, <1>5, <1>6, <4>1 DEF Owned
      <4>2. CASE a.subs[i].token # t
        BY <1>5, <4>2 DEF Owned, Connected, SubType
      <4>3. QED
        BY <4>1, <4>2
    <3>2. QED
      BY <1>5, <3>1
  <2>6. /\ \A d \in Cid : named.sessions[d].stored => HeldInLine(R, named.sessions[d].offline)
        /\ \A topic \in Topic : named.retained[topic].qos = 0
    BY <1>5 DEF Ordered, Line
  <2> HIDE DEF y
  <2>7. QED
    BY <1>7, <2>1, <2>3, <2>4, <2>5, <2>6 DEF Ordered
<1>9. Connected(named, t) /\ named.clients[t].cid = c /\ named \in GoodBroker(x.msgs)
  BY <1>3, <1>5, <1>7 DEF Connected, Keeps
<1>10. QueueReply(named, t) \in Ordered(x, y)
  BY <1>6, <1>8, <1>9, QueueReplyOrdered
<1>11. /\ greeted.sessions = b.sessions
       /\ greeted.clients[t] = [client EXCEPT !.write_queue = Queue0(<<>>, Reply)]
  BY <1>3, <1>4, <1>5, <1>9 DEF QueueReply, GoodBroker
<1> DEFINE q == Queue0(<<>>, Reply)
<1>12. Len(q) <= 1 /\ \A i \in DOMAIN q : ~q[i].rel
  BY ReplyAlone
<1> HIDE DEF q
<1>13. greeted.clients[t].cid = c /\ greeted.clients[t].write_queue = q
  BY <1>3, <1>11 DEF ConnectedOf, q
<1>14. ASSUME NEW off PROVE FlushedTo([b |-> greeted, ok |-> TRUE], t, c, off, 0)
  <2> DEFINE done == [b |-> greeted, ok |-> TRUE]
  <2>1. done.ok /\ done.b = greeted
    OBVIOUS
  <2> HIDE DEF done
  <2>2. FlushedTo(done, t, c, off, 0)
    BY <1>12, <1>13, <2>1 DEF FlushedTo
  <2>3. QED
    BY <2>2 DEF done
<1>15. QED
  BY <1>4, <1>10, <1>11, <1>14 DEF greeted

\* subs.push for a token, over the restored or requested filters.
LEMMA AddSubsAre ==
  ASSUME NEW x, NEW b \in Keeps(x), NEW t \in Token, NEW subs \in Seq(FilterQos), NEW a,
         a = AddSubs(b, t, subs)
  PROVE  /\ a.clients = b.clients /\ a.sessions = b.sessions
         /\ a.retained = b.retained /\ a.next_token = b.next_token
         /\ \A i \in DOMAIN a.subs :
              a.subs[i] \in SubType /\ (a.subs[i].token = t \/ \E j \in DOMAIN b.subs : a.subs[i] = b.subs[j])
<1> DEFINE more == [i \in DOMAIN subs |-> Sub(subs[i].filter, t, subs[i].qos)]
           all == b.subs \o more
<1>1. b.subs \in Seq(SubType) /\ b \in GoodBroker(x.msgs)
  BY DEF Keeps, GoodBroker
<1>2. \A i \in 1 .. Len(subs) : more[i] \in SubType /\ more[i].token = t
  <2>1. DOMAIN subs = 1 .. Len(subs) /\ \A i \in 1 .. Len(subs) : subs[i] \in FilterQos
    BY LenProperties, ElementOfSeq
  <2>2. QED
    BY <2>1 DEF FilterQos, SubType, Sub
<1>3. more = [i \in DOMAIN subs |-> more[i]] /\ DOMAIN more = 1 .. Len(subs)
  BY LenProperties
<1>4. a = [b EXCEPT !.subs = all]
  BY <1>1 DEF AddSubs, GoodBroker
<1> HIDE DEF more
<1>5. more \in Seq(SubType)
  BY <1>2, <1>3, MappedSeq
<1>6. Len(more) \in Nat /\ Len(b.subs) \in Nat /\ DOMAIN more = 1 .. Len(more)
      /\ DOMAIN b.subs = 1 .. Len(b.subs)
  BY <1>1, <1>5, LenProperties
<1>7. /\ all \in Seq(SubType) /\ Len(all) = Len(b.subs) + Len(more)
      /\ \A i \in 1 .. Len(b.subs) + Len(more) :
           all[i] = IF i <= Len(b.subs) THEN b.subs[i] ELSE more[i - Len(b.subs)]
  BY <1>1, <1>5, ConcatProperties
<1> HIDE DEF all
<1>8. DOMAIN all = 1 .. Len(b.subs) + Len(more) /\ \A i \in DOMAIN all : all[i] \in SubType
  BY <1>7, LenProperties, ElementOfSeq
<1>9. ASSUME NEW i \in DOMAIN all
      PROVE  all[i].token = t \/ \E j \in DOMAIN b.subs : all[i] = b.subs[j]
  <2>1. CASE i <= Len(b.subs)
    <3>1. i \in DOMAIN b.subs /\ all[i] = b.subs[i]
      BY <1>6, <1>7, <1>8, <2>1
    <3>2. QED
      BY <3>1
  <2>2. CASE ~(i <= Len(b.subs))
    <3>1. i - Len(b.subs) \in 1 .. Len(more) /\ all[i] = more[i - Len(b.subs)]
      BY <1>6, <1>7, <1>8, <2>2
    <3>2. QED
      BY <1>2, <1>3, <1>6, <3>1
  <2>3. QED
    BY <2>1, <2>2
<1>10. /\ a.clients = b.clients /\ a.sessions = b.sessions /\ a.subs = all
       /\ a.retained = b.retained /\ a.next_token = b.next_token
  BY <1>1, <1>4 DEF GoodBroker
<1>11. QED
  BY <1>8, <1>9, <1>10

\* A client that has said CONNECT may subscribe.
LEMMA AddSubsOrdered ==
  ASSUME NEW x, NEW y, NEW b \in Ordered(x, y), NEW t \in Token, NEW subs \in Seq(FilterQos),
         Connected(b, t), b.clients[t].cid # NoCid
  PROVE  AddSubs(b, t, subs) \in Ordered(x, y) /\ AddSubs(b, t, subs).clients = b.clients
<1> DEFINE a == AddSubs(b, t, subs)
<1>1. b \in Keeps(x) /\ t < b.next_token
  BY OrderedIs, ClientOf DEF Connected
<1>2. a \in Keeps(x)
  BY <1>1, AddSubsKeeps
<1> HIDE DEF a
<1>3. /\ a.clients = b.clients /\ a.sessions = b.sessions
      /\ a.retained = b.retained /\ a.next_token = b.next_token
      /\ \A i \in DOMAIN a.subs :
           a.subs[i] \in SubType /\ (a.subs[i].token = t \/ \E j \in DOMAIN b.subs : a.subs[i] = b.subs[j])
  BY <1>1, AddSubsAre DEF a
<1>4. \A i \in DOMAIN a.subs : Owned(b, a.subs[i])
  BY <1>1, <1>3 DEF Ordered, Owned
<1>5. /\ \A c \in Cid : a.sessions[c].stored => HeldInLine(y.order, a.sessions[c].offline) /\ b.sessions[c].stored
      /\ \A topic \in Topic : a.retained[topic].qos = 0
  BY <1>3 DEF Ordered
<1>6. a \in Ordered(x, y)
  BY <1>2, <1>3, <1>4, <1>5, OrderedTables
<1>7. QED
  BY <1>3, <1>6 DEF a

\* CONNECT without a session to resume.
LEMMA FreshOrdered ==
  ASSUME NEW x, NEW R, NEW b \in Ordered(x, Line(R, 0, {})), NEW t \in Token, NEW c \in Cid,
         NEW clean \in BOOLEAN, WillOf[c] \in x.msgs \cup {NoMsg},
         Connected(b, t), b.clients[t].cid = NoCid, ~b.sessions[c].stored
  PROVE  Greet(b, t, c, clean) \in Ordered(x, Line(R, 0, {}))
<1> DEFINE a == Greet(b, t, c, clean)
<1>1. /\ b \in Keeps(x)
      /\ \A i \in DOMAIN b.subs :
           b.subs[i] \in SubType /\ (Owned(b, b.subs[i]) \/ b.subs[i].token = t)
  BY OrderedIs DEF Ordered, Owned
<1>2. a \in Ordered(x, Line(R, t, {})) /\ a.sessions = b.sessions /\ a.clients[t].cid = c
  <2>1. Restored(b, b, t)
    BY <1>1 DEF Restored
  <2>4. a \in Ordered(x, Line(R, t, {})) /\ a.sessions = b.sessions
        /\ FlushedTo([b |-> a, ok |-> TRUE], t, c, <<>>, 0)
    BY <1>1, <2>1, GreetOrdered
  <2>2. a.clients[t].cid = c
    BY <1>1, GreetKeeps DEF a
  <2>3. QED
    BY <2>2, <2>4
<1> HIDE DEF a
<1>3. a \in Keeps(x)
  BY <1>2, OrderedIs
<1>4. a \in Ordered(x, Line(R, 0, {}))
  BY <1>2, <1>3, OrderedMid
<1>5. QED
  BY <1>4 DEF a

\* CONNECT that resumes a session: the broker is in order again once the session
\* has left the store or the client the broker.
LEMMA ResumeOrdered ==
  ASSUME Orderly, NEW x, x.msgs \subseteq Msg, NEW R, NEW b \in Ordered(x, Line(R, 0, {})),
         NEW t \in Token, NEW c \in Cid,
         NEW clean \in BOOLEAN, WillOf[c] \in x.msgs \cup {NoMsg}, \A p \in x.kept.stored : p[1] # c,
         Connected(b, t), b.clients[t].cid = NoCid, b.sessions[c].stored,
         NEW flushed, flushed = FlushSession(Greet(AddSubs(b, t, b.sessions[c].subs), t, c, clean),
                                             t, b.sessions[c])
  PROVE  IF flushed.ok THEN Forget(flushed.b, c) \in Ordered(x, Line(R, 0, {}))
         ELSE flushed.b \in Ordered(x, Line(R, 0, {})) /\ ~Connected(flushed.b, t)
<1> DEFINE session == b.sessions[c]
           a == AddSubs(b, t, session.subs)
           g == Greet(a, t, c, clean)
           z == Line(R, t, {})
           n == Len(session.offline)
           off == session.offline
<1>1. b \in Keeps(x) /\ z.order = R
  BY OrderedIs DEF Line
<1>2. /\ session \in StoredOf(x.msgs) /\ Len(session.offline) <= OFFLINE_CAP
      /\ session.subs \in Seq(FilterQos)
  <2>1. session \in GoodSession(x.msgs)
    BY <1>1 DEF Keeps, GoodBroker
  <2>2. session \in StoredOf(x.msgs) /\ Len(session.offline) <= OFFLINE_CAP
    BY <2>1, StoredSession
  <2>3. QED
    BY <2>2 DEF StoredOf
<1>3. HeldInLine(z.order, session.offline)
  BY <1>1 DEF Ordered, Line
<1>4. flushed = FlushSession(g, t, session)
  OBVIOUS
<1> HIDE DEF session
<1>5. a \in Keeps(x) /\ a.clients = b.clients
  BY <1>1, <1>2, AddSubsKeeps
<1>6. /\ a.sessions = b.sessions /\ a.retained = b.retained /\ a.next_token = b.next_token
      /\ \A i \in DOMAIN a.subs :
           a.subs[i] \in SubType /\ (a.subs[i].token = t \/ \E j \in DOMAIN b.subs : a.subs[i] = b.subs[j])
  BY <1>1, <1>2, AddSubsAre
<1> HIDE DEF a
<1>7. \A i \in DOMAIN a.subs : a.subs[i] \in SubType /\ (Owned(b, a.subs[i]) \/ a.subs[i].token = t)
  BY <1>6 DEF Ordered
<1>8. Connected(a, t) /\ a.clients[t].cid = NoCid
  BY <1>5 DEF Connected
<1>9. g \in Ordered(x, z) /\ FlushedTo([b |-> g, ok |-> TRUE], t, c, off, 0)
  <2>1. Restored(a, b, t)
    BY <1>5, <1>6, <1>7 DEF Restored
  <2>2. QED
    BY <1>5, <2>1, GreetOrdered
<1>10. Connected(g, t)
  BY <1>5, <1>8, GreetKeeps
<1> HIDE DEF g, z
<1>11. flushed.b \in Ordered(x, z) /\ FlushedTo(flushed, t, c, off, n)
  BY <1>1, <1>2, <1>3, <1>4, <1>9, <1>10, FlushSessionOrdered
<1> DEFINE left == Forget(flushed.b, c)
<1>12. left \in Ordered(x, z) /\ left.clients = flushed.b.clients /\ ~left.sessions[c].stored
  BY <1>11, ForgetOrdered
<1> HIDE DEF left, n, off
<1>13. CASE flushed.ok
  <2>1. left.clients[t].cid = c
    BY <1>11, <1>12, <1>13 DEF FlushedTo
  <2>2. left \in Keeps(x)
    BY <1>12, OrderedIs
  <2>3. left \in Ordered(x, Line(R, 0, {}))
    BY <1>12, <2>1, <2>2, OrderedMid DEF z
  <2>4. QED
    BY <1>13, <2>3 DEF left
<1>14. CASE ~flushed.ok
  <2>1. ~Connected(flushed.b, t) /\ flushed.b \in Keeps(x)
    BY <1>11, <1>14, OrderedIs DEF FlushedTo
  <2>2. flushed.b \in Ordered(x, Line(R, 0, {}))
    BY <1>11, <2>1, OrderedMid DEF z
  <2>3. QED
    BY <1>14, <2>1, <2>2
<1>15. QED
  BY <1>13, <1>14

\* CONNECT keeps the order, and what it cannot resume it closes.
LEMMA ConnectOrdered ==
  ASSUME Orderly, NEW x, x.msgs \subseteq Msg, NEW R, broker \in Ordered(x, Line(R, 0, {})),
         NEW t \in Token, NEW c \in Cid, NEW clean \in BOOLEAN,
         WillOf[c] \in x.msgs \cup {NoMsg}, \A p \in x.kept.stored : p[1] # c, Connect(t, c, clean)
  PROVE  \E done : /\ done.b \in Ordered(x, Line(R, 0, {})) /\ Handled(done, t)
                   /\ ~done.ok => ~Connected(done.b, t)
<1> DEFINE session == broker.sessions[c]
           resumes == ~clean /\ session.stored
           cleared == IF clean THEN Forget(broker, c) ELSE broker
           restored == IF resumes THEN AddSubs(cleared, t, session.subs) ELSE cleared
           greeted == Greet(restored, t, c, clean)
           flushed == IF resumes THEN FlushSession(greeted, t, session)
                      ELSE [b |-> greeted, ok |-> TRUE]
           done == IF flushed.ok /\ resumes THEN [flushed EXCEPT !.b = Forget(@, c)] ELSE flushed
           y == Line(R, 0, {})
<1>1. Connected(broker, t) /\ broker.clients[t].cid = NoCid /\ Handled(done, t)
  BY DEF Connect, Greet
<1>2. CASE resumes
  <2>1. /\ cleared = broker /\ restored = AddSubs(broker, t, session.subs)
        /\ flushed = FlushSession(greeted, t, session)
    BY <1>2
  <2> DEFINE sent == FlushSession(Greet(AddSubs(broker, t, broker.sessions[c].subs), t, c, clean),
                                  t, broker.sessions[c])
  <2>2. flushed = sent
    BY <2>1
  <2> HIDE DEF flushed
  <2>3. done = IF sent.ok THEN [sent EXCEPT !.b = Forget(@, c)] ELSE sent
    BY <1>2, <2>2
  <2>4. broker.sessions[c].stored
    BY <1>2
  <2>5. sent = FlushSession(Greet(AddSubs(broker, t, broker.sessions[c].subs), t, c, clean),
                            t, broker.sessions[c])
    OBVIOUS
  <2>6. sent \in Outcome(x, t)
    <3>1. sent = flushed
      BY <2>2
    <3>2. broker \in Keeps(x) /\ session \in StoredOf(x.msgs) /\ session.subs \in Seq(FilterQos)
      <4>1. broker \in Keeps(x) /\ session \in GoodSession(x.msgs)
        BY OrderedIs DEF Keeps, GoodBroker
      <4>2. session \in StoredOf(x.msgs)
        BY <2>4, <4>1, StoredSession
      <4>3. QED
        BY <4>1, <4>2 DEF StoredOf
    <3> DEFINE a == AddSubs(broker, t, session.subs)
    <3>3. a \in Keeps(x) /\ a.clients = broker.clients
      BY <3>2, AddSubsKeeps
    <3>4. sent = FlushSession(Greet(a, t, c, clean), t, session)
      OBVIOUS
    <3> HIDE DEF a, session, sent
    <3>5. Connected(a, t) /\ a.clients[t].cid = NoCid
      BY <1>1, <3>3 DEF Connected
    <3>6. Greet(a, t, c, clean) \in Keeps(x) /\ Connected(Greet(a, t, c, clean), t)
      BY <3>3, <3>5, GreetKeeps
    <3>7. FlushSession(Greet(a, t, c, clean), t, session) \in Outcome(x, t)
      BY <3>2, <3>6, FlushSessionKeeps
    <3>8. QED
      BY <3>4, <3>7
  <2> HIDE DEF sent, done
  <2>7. IF sent.ok THEN Forget(sent.b, c) \in Ordered(x, y)
        ELSE sent.b \in Ordered(x, y) /\ ~Connected(sent.b, t)
    BY <1>1, <2>4, <2>5, ResumeOrdered
  <2> HIDE DEF y
  <2>8. done.b \in Ordered(x, y) /\ (~done.ok => ~Connected(done.b, t))
    <3>1. sent \in [b : Keeps(x), ok : BOOLEAN]
      BY <2>6 DEF Outcome
    <3>2. CASE sent.ok
      <4>1. done = [sent EXCEPT !.b = Forget(sent.b, c)]
        BY <2>3, <3>2
      <4>2. done.b = Forget(sent.b, c) /\ done.ok
        BY <3>1, <3>2, <4>1
      <4>3. QED
        BY <2>7, <3>2, <4>2
    <3>3. CASE ~sent.ok
      BY <2>3, <2>7, <3>3
    <3>4. QED
      BY <3>2, <3>3
  <2>9. QED
    BY <1>1, <2>8 DEF y
<1>3. CASE ~resumes
  <2>1. done = [b |-> greeted, ok |-> TRUE] /\ greeted = Greet(cleared, t, c, clean)
    BY <1>3
  <2>2. /\ cleared \in Ordered(x, y) /\ cleared.clients = broker.clients /\ ~cleared.sessions[c].stored
    <3>1. CASE clean
      BY <3>1, ForgetOrdered
    <3>2. CASE ~clean
      BY <1>3, <3>2
    <3>3. QED
      BY <3>1, <3>2
  <2> HIDE DEF cleared, done
  <2>3. Connected(cleared, t) /\ cleared.clients[t].cid = NoCid
    BY <1>1, <2>2 DEF Connected
  <2>4. Greet(cleared, t, c, clean) \in Ordered(x, y)
    BY <2>2, <2>3, FreshOrdered
  <2>5. done.b \in Ordered(x, y) /\ done.ok
    BY <2>1, <2>4
  <2>6. QED
    BY <1>1, <2>5
<1>4. QED
  BY <1>2, <1>3

\* The broker and the result of a handler, while its client is being served.
Serving(x, y, t) ==
  {done \in Outcome(x, t) :
     done.b \in Ordered(x, y) /\ (Connected(done.b, t) => done.b.clients[t].cid # NoCid)}

\* A retained message of QoS 0 is sent to the new subscriber.
LEMMA DeliverToServing ==
  ASSUME NEW x, NEW y, NEW t \in Token, NEW acc \in Serving(x, y, t), NEW m \in Msg
  PROVE  DeliverTo(acc.b, t, m, 0) \in Serving(x, y, t)
<1> DEFINE done == DeliverTo(acc.b, t, m, 0)
<1>1. acc.b \in Ordered(x, y) /\ acc.b \in Keeps(x) /\ (Connected(acc.b, t) => acc.b.clients[t].cid # NoCid)
  BY DEF Serving, Ordered
<1>2. 0 \in 0..2 /\ ~(0 > 0)
  OBVIOUS
<1>3. done \in Outcome(x, t)
  BY <1>1, <1>2, DeliverToOutcome
<1>4. done.b \in Ordered(x, y)
  BY <1>1, <1>2, DeliverToOrdered
<1>5. Appends(done, acc.b, t, m, 0, x.msgs)
  BY <1>1, <1>2, DeliverToAppends
<1> HIDE DEF done
<1>6. Connected(done.b, t) => done.b.clients[t].cid # NoCid
  BY <1>1, <1>5 DEF Appends
<1>7. done \in Serving(x, y, t)
  BY <1>3, <1>4, <1>6 DEF Serving
<1>8. QED
  BY <1>7 DEF done

\* One filter of a SUBSCRIBE.
LEMMA SubscribeOneOrdered ==
  ASSUME NEW x, x.msgs \subseteq Msg, NEW y, NEW t \in Token, NEW acc \in Serving(x, y, t), acc.ok,
         NEW request \in FilterQos, NEW retained, \A topic \in Topic : retained[topic].qos = 0,
         NEW seq \in Seq({topic \in Topic : retained[topic] \in [msg : x.msgs, qos : 0..2]})
  PROVE  SubscribeOne(acc.b, t, request, retained, seq) \in Serving(x, y, t)
<1> DEFINE A == {topic \in Topic : retained[topic] \in [msg : x.msgs, qos : 0..2]}
           V == Serving(x, y, t)
           a == AddSubs(acc.b, t, <<request>>)
           base == [b |-> a, ok |-> TRUE]
<1>1. /\ acc.b \in Ordered(x, y) /\ acc.b \in Keeps(x)
      /\ Connected(acc.b, t) /\ acc.b.clients[t].cid # NoCid
  BY DEF Serving, Outcome, Ordered
<1>2. base \in V
  <2> DEFINE one == <<request>>
  <2>1. one \in Seq(FilterQos) /\ a = AddSubs(acc.b, t, one)
    OBVIOUS
  <2> HIDE DEF one, a
  <2>2. a \in Ordered(x, y) /\ a.clients = acc.b.clients
    BY <1>1, <2>1, AddSubsOrdered
  <2>3. a \in Keeps(x) /\ Connected(a, t) /\ a.clients[t].cid # NoCid
    BY <1>1, <2>2, OrderedIs DEF Connected
  <2>4. base.b = a /\ base.ok /\ base \in [b : Keeps(x), ok : BOOLEAN]
    BY <2>3
  <2> HIDE DEF base
  <2>5. QED
    BY <2>2, <2>3, <2>4 DEF Outcome, Serving
<1>3. ASSUME NEW done \in V, NEW topic \in A
      PROVE  DeliverTo(done.b, t, retained[topic].msg, LesserQos(retained[topic].qos, request.qos)) \in V
  <2>1. retained[topic].msg \in Msg /\ retained[topic].qos = 0 /\ request.qos \in 0..2
    BY DEF FilterQos
  <2>2. LesserQos(retained[topic].qos, request.qos) = 0
    BY <2>1 DEF LesserQos
  <2>3. QED
    BY <2>1, <2>2, DeliverToServing
<1> HIDE DEF A, V
<1>4. seq \in Seq(A)
  BY DEF A
<1>5. SubscribeOne(acc.b, t, request, retained, seq) \in V
  BY <1>2, <1>3, <1>4, SubscribeOneIn
<1>6. QED
  BY <1>5 DEF V

\* A SUBSCRIBE, with the SUBACK at its end.
LEMMA SubscribeOrdered ==
  ASSUME NEW x, x.msgs \subseteq Msg, NEW y, NEW b \in Ordered(x, y), NEW t \in Token,
         Connected(b, t), b.clients[t].cid # NoCid,
         NEW topics \in Seq(FilterQos),
         NEW seq \in Seq({topic \in Topic : b.retained[topic] \in [msg : x.msgs, qos : 0..2]}),
         NEW sent, sent = SubscribeAll(b, t, topics, seq)
  PROVE  /\ sent \in Serving(x, y, t)
         /\ sent.ok => QueueReply(sent.b, t) \in Ordered(x, y)
<1> DEFINE V == Serving(x, y, t)
           base == [b |-> b, ok |-> TRUE]
<1>1. b \in Keeps(x) /\ \A topic \in Topic : b.retained[topic].qos = 0
  BY DEF Ordered
<1>2. base \in V
  BY <1>1 DEF Serving, Outcome
<1>3. \A acc \in V : \A request \in FilterQos :
        acc.ok => SubscribeOne(acc.b, t, request, b.retained, seq) \in V
  BY <1>1, SubscribeOneOrdered
<1> HIDE DEF V
<1>4. SubscribeAll(b, t, topics, seq) \in V
  BY <1>2, <1>3, SubscribeAllIn
<1>5. sent \in V
  BY <1>4
<1>6. sent.ok => Connected(sent.b, t) /\ sent.b \in Ordered(x, y) /\ sent.b.clients[t].cid # NoCid
  BY <1>5 DEF V, Serving, Outcome
<1>7. sent.ok => QueueReply(sent.b, t) \in Ordered(x, y)
  BY <1>6, QueueReplyOrdered
<1>8. QED
  BY <1>5, <1>7 DEF V

----------------------------------------------------------------------------

\* What save() may write is in order.
StateInLine(R, state) ==
  /\ \A c \in Cid : state.sessions[c].stored => HeldInLine(R, state.sessions[c].offline)
  /\ \A topic \in Topic : state.retained[topic].qos = 0

\* The broker, if it runs, and the state file, if it can be read, are in order.
FileInLine(R, file) == file = Corrupt \/ StateInLine(R, file)
Lined(R, b, file) ==
  /\ b = Stopped \/ b \in Ordered(Context(file, Nothing, {}), Line(R, 0, {}))
  /\ FileInLine(R, file)

\* The order is not a matter of the file, the flag or who is leaving.
LEMMA OrderedElsewhere ==
  ASSUME NEW x, NEW z, NEW y, NEW b \in Ordered(x, y), NEW a \in Keeps(z),
         a.clients = b.clients, a.subs = b.subs, a.sessions = b.sessions,
         a.retained = b.retained, a.next_token = b.next_token
  PROVE  a \in Ordered(z, y)
BY DEF Ordered, Owned, Connected

\* Nor of who is alone, for those who do not ask.
LEMMA OrderedAlone ==
  ASSUME NEW x, NEW R, NEW T, NEW b \in Ordered(x, Line(R, 0, T))
  PROVE  b \in Ordered(x, Line(R, 0, {}))
BY DEF Ordered, Line

\* While no two connections share an id, everyone is alone.
LEMMA EveryoneAlone ==
  ASSUME NEW x, NEW R, NEW b \in Ordered(x, Line(R, 0, {})),
         \A c \in Cid : Cardinality(Online(b, c)) <= 1
  PROVE  b \in Ordered(x, Line(R, 0, Token))
<1> DEFINE y == Line(R, 0, Token)
<1>1. b \in Keeps(x)
  BY OrderedIs
<1>2. ASSUME NEW t \in Token, NEW u \in Token, t # u, Connected(b, t), Connected(b, u),
             b.clients[t].cid # NoCid, b.clients[t].cid = b.clients[u].cid
      PROVE  FALSE
  <2> DEFINE c == b.clients[t].cid
             S == Online(b, c)
  <2>1. c \in Cid
    <3>1. b.clients[t] \in ConnectedOf(x.msgs)
      BY <1>1, <1>2, LiveClient
    <3>2. QED
      BY <1>2, <3>1 DEF ConnectedOf
  <2>2. t \in S /\ u \in S /\ IsFiniteSet(S)
    <3>1. S \subseteq Token /\ IsFiniteSet(Token)
      BY FS_Interval, BrokerAssumption DEF Online, Token
    <3>2. IsFiniteSet(S)
      BY <3>1, FS_Subset
    <3>3. QED
      BY <1>2, <3>2 DEF Online
  <2>3. Cardinality(S) <= 1
    BY <2>1
  <2> HIDE DEF S
  <2>4. {t, u} \subseteq S /\ Cardinality({t, u}) = 2
    <3>1. Cardinality({t}) = 1 /\ IsFiniteSet({t}) /\ u \notin {t}
      BY <1>2, FS_Singleton
    <3>2. Cardinality({t} \cup {u}) = Cardinality({t}) + 1
      BY <3>1, FS_AddElement
    <3>3. {t, u} = {t} \cup {u}
      OBVIOUS
    <3>4. QED
      BY <2>2, <3>1, <3>2, <3>3
  <2>5. Cardinality({t, u}) <= Cardinality(S) /\ Cardinality(S) \in Nat
    BY <2>2, <2>4, FS_Subset, FS_CardinalityType
  <2>6. QED
    BY <2>3, <2>4, <2>5
<1>3. \A t, u \in Token :
        t \in y.alone /\ t # u /\ Connected(b, t) /\ Connected(b, u) /\ b.clients[t].cid # NoCid
          => b.clients[t].cid # b.clients[u].cid
  BY <1>2
<1>4. y.order = Line(R, 0, {}).order /\ y.mid = Line(R, 0, {}).mid
  BY DEF Line
<1> HIDE DEF y
<1>5. b \in Ordered(x, y)
  BY <1>3, <1>4 DEF Ordered
<1>6. QED
  BY <1>5 DEF y

\* Everything in order is in every longer order.
LEMMA OrderedLonger ==
  ASSUME NEW R, NEW Q, R \subseteq Q
  PROVE  /\ \A x, T : Ordered(x, Line(R, 0, T)) \subseteq Ordered(x, Line(Q, 0, T))
         /\ \A file : FileInLine(R, file) => FileInLine(Q, file)
<1>1. \A s : HeldInLine(R, s) => HeldInLine(Q, s)
  BY DEF HeldInLine
<1>2. \A client : ClientInLine(R, client) => ClientInLine(Q, client)
  BY DEF ClientInLine, QueueInLine
<1>3. ASSUME NEW x, NEW T, NEW b \in Ordered(x, Line(R, 0, T))
      PROVE  b \in Ordered(x, Line(Q, 0, T))
  BY <1>1, <1>2 DEF Ordered, Line
<1>4. \A file : FileInLine(R, file) => FileInLine(Q, file)
  BY <1>1 DEF FileInLine, StateInLine
<1>5. QED
  BY <1>3, <1>4

\* save() writes what is in order.
LEMMA SavedOrdered ==
  ASSUME NEW R, NEW b \in Ordered(Context(disk, Nothing, {}), Line(R, 0, {})), FileInLine(R, disk),
         Saved(b), IInv'
  PROVE  Lined(R, broker', disk')
<1> DEFINE x == Context(disk, Nothing, {})
           z == Context(disk', Nothing, {})
           y == Line(R, 0, {})
<1>1. broker' = Stopped \/ broker' \in Keeps(z)
  BY DEF IInv, Standing
<1>2. b \in GoodBroker(x.msgs)
  BY OrderedIs
<1>3. StateInLine(R, Snapshot(b))
  BY DEF Ordered, Line, Snapshot, StateInLine
<1>4. FileInLine(R, disk')
  BY <1>3 DEF Saved, FileInLine
<1>5. broker' = Stopped \/
        /\ broker'.clients = b.clients /\ broker'.subs = b.subs /\ broker'.sessions = b.sessions
        /\ broker'.retained = b.retained /\ broker'.next_token = b.next_token
  BY <1>2 DEF Saved, GoodBroker
<1> HIDE DEF x, z, y
<1>6. broker' = Stopped \/ broker' \in Ordered(z, y)
  <2>1. b \in Ordered(x, y)
    BY DEF x, y
  <2>2. QED
    BY <1>1, <1>5, <2>1, OrderedElsewhere
<1>7. QED
  BY <1>4, <1>6 DEF Lined, z, y

\* A handler that only changes the broker.
LEMMA BecomesOrdered ==
  ASSUME NEW R, NEW T, NEW b \in Ordered(Context(disk, Nothing, {}), Line(R, 0, T)),
         FileInLine(R, disk), Becomes(b)
  PROVE  Lined(R, broker', disk')
BY OrderedAlone DEF Becomes, Lined

\* The connection is closed, of a client that shares its id with no other or is gone.
LEMMA ClosesOrdered ==
  ASSUME Orderly, NEW R, NEW T, NEW t \in Token,
         NEW b \in Ordered(Context(disk, Nothing, {t}), Line(R, 0, T)),
         t \in T \/ ~Connected(b, t), FileInLine(R, disk), Closes(b, t), IInv'
  PROVE  Lined(R, broker', disk')
<1>1. CASE Dies
  BY <1>1 DEF Dies, Lined
<1>2. CASE Saved(RemoveClient(b, t))
  <2> DEFINE a == RemoveClient(b, t)
             x == Context(disk, Nothing, {t})
             y == Line(R, 0, T)
  <2>1. b \in Ordered(x, y) /\ x.msgs \subseteq Msg /\ y.alone = T /\ y.mid # t
    BY ContextFields DEF Line, Token
  <2> HIDE DEF x, y
  <2>2. a \in Ordered(x, y)
    BY <2>1, RemoveClientOrdered
  <2>3. a \in Keeps(x) /\ ~Connected(a, t)
    BY <2>1, OrderedIs, RemoveClientKeeps
  <2> HIDE DEF a
  <2>4. a \in Keeps(Context(disk, Nothing, {}))
    BY <2>3, StillLeaving DEF x
  <2>5. a \in Ordered(Context(disk, Nothing, {}), y)
    BY <2>2, <2>4, OrderedElsewhere
  <2>6. a \in Ordered(Context(disk, Nothing, {}), Line(R, 0, {}))
    BY <2>5, OrderedAlone DEF y
  <2>7. Saved(a)
    BY <1>2 DEF a
  <2>8. QED
    BY <2>6, <2>7, SavedOrdered
<1>3. QED
  BY <1>1, <1>2 DEF Closes

\* A broker in order is so while one of its clients leaves.
LEMMA LeavingOrdered ==
  ASSUME NEW file, NEW y, NEW t \in Token, NEW b \in Ordered(Context(file, Nothing, {}), y)
  PROVE  b \in Ordered(Context(file, Nothing, {t}), y)
<1>1. b \in Keeps(Context(file, Nothing, {t}))
  BY OrderedIs, StillLeaving
<1>2. QED
  BY <1>1, OrderedElsewhere

\* handle_packets returned: on Err the connection is closed.
LEMMA HandledOrdered ==
  ASSUME Orderly, NEW R, NEW T, NEW t \in Token, NEW done,
         done.b \in Ordered(Context(disk, Nothing, {}), Line(R, 0, T)),
         ~done.ok => t \in T \/ ~Connected(done.b, t), FileInLine(R, disk), Handled(done, t), IInv'
  PROVE  Lined(R, broker', disk')
<1>1. CASE done.ok
  BY <1>1, BecomesOrdered DEF Handled
<1>2. CASE ~done.ok
  <2>1. done.b \in Ordered(Context(disk, Nothing, {t}), Line(R, 0, T))
    BY LeavingOrdered
  <2>2. Closes(done.b, t)
    BY <1>2 DEF Handled
  <2>3. QED
    BY <1>2, <2>1, <2>2, ClosesOrdered
<1>3. QED
  BY <1>1, <1>2

----------------------------------------------------------------------------

\* What is known of the state while the process runs.
LEMMA RunningLined ==
  ASSUME NEW R, Lined(R, broker, disk), Running, IInv
  PROVE  /\ broker \in Ordered(Context(disk, Nothing, {}), Line(R, 0, {})) /\ FileInLine(R, disk)
         /\ broker \in Keeps(Context(disk, Nothing, {})) /\ broker \in GoodBroker(Msg)
         /\ Context(disk, Nothing, {}).msgs = Msg
BY OrderedIs, ContextFields DEF Lined, Running

\* A new connection has nothing queued and, its token being new, no subscriptions.
LEMMA AcceptOrdered ==
  ASSUME NEW R, Lined(R, broker, disk), IInv, IInv', Accept
  PROVE  Lined(R, broker', disk')
<1> DEFINE x == Context(disk, Nothing, {})
           y == Line(R, 0, {})
           t == broker.next_token
           a == broker'
<1>1. /\ broker \in Ordered(x, y) /\ FileInLine(R, disk) /\ broker \in Keeps(x)
      /\ broker \in GoodBroker(Msg)
  BY RunningLined DEF Accept
<1>2. disk' = disk /\ a = [broker EXCEPT !.clients[t] = NewClient, !.next_token = t + 1]
  BY DEF Accept, Becomes
<1>3. a = Stopped \/ a \in Keeps(x)
  BY <1>2 DEF IInv, Standing
<1>4. t \in Token /\ t \in Nat
  <2>1. t \in 1 .. MAX_TOKEN + 1 /\ t <= MAX_TOKEN /\ MAX_TOKEN \in Nat
    BY <1>1, BrokerAssumption DEF GoodBroker, Accept
  <2> HIDE DEF t
  <2>2. QED
    BY <2>1 DEF Token
<1> HIDE DEF t, x
<1>5. /\ a.subs = broker.subs /\ a.sessions = broker.sessions /\ a.retained = broker.retained
      /\ a.next_token = t + 1
      /\ \A u \in Token : a.clients[u] = IF u = t THEN NewClient ELSE broker.clients[u]
  BY <1>1, <1>2, <1>4 DEF GoodBroker
<1>6. NewClient.cid = NoCid /\ NewClient.write_queue = <<>>
  BY DEF NewClient
<1>7. ClientInLine(R, NewClient)
  <2>1. DOMAIN <<>> = {}
    OBVIOUS
  <2>2. QED
    BY <1>6, <2>1 DEF ClientInLine, QueueInLine
<1> HIDE DEF a
<1>8. \A u \in Token : ClientInLine(R, a.clients[u])
  BY <1>1, <1>5, <1>7 DEF Ordered, Line
<1>9. \A u \in Token : Connected(a, u) /\ a.clients[u].cid # NoCid =>
        u # t /\ Connected(broker, u) /\ a.clients[u].cid = broker.clients[u].cid
  BY <1>5, <1>6 DEF Connected
<1>10. \A u \in Token \ {0} :
         Connected(a, u) /\ a.clients[u].cid # NoCid => ~a.sessions[a.clients[u].cid].stored
  BY <1>1, <1>5, <1>9 DEF Ordered, Line
<1>11. \A i \in DOMAIN a.subs : Owned(a, a.subs[i])
  <2>1. ASSUME NEW i \in DOMAIN broker.subs PROVE Owned(a, broker.subs[i])
    <3>1. Owned(broker, broker.subs[i]) /\ broker.subs[i].token \in Token /\ broker.subs[i].token < t
      BY <1>1 DEF Ordered, Owned, SubType, t
    <3>2. broker.subs[i].token # t /\ broker.subs[i].token < t + 1
      BY <1>4, <3>1 DEF Token
    <3>3. a.clients[broker.subs[i].token] = broker.clients[broker.subs[i].token]
      BY <1>5, <3>1, <3>2
    <3>4. QED
      BY <1>5, <3>1, <3>2, <3>3 DEF Owned, Connected
  <2>2. QED
    BY <1>5, <2>1
<1>12. /\ \A c \in Cid : a.sessions[c].stored => HeldInLine(R, a.sessions[c].offline)
       /\ \A topic \in Topic : a.retained[topic].qos = 0
  BY <1>1, <1>5 DEF Ordered, Line
<1>13. y.order = R /\ y.mid = 0 /\ y.alone = {}
  BY DEF Line
<1> HIDE DEF y
<1>14. a = Stopped \/ a \in Ordered(x, y)
  BY <1>3, <1>8, <1>10, <1>11, <1>12, <1>13 DEF Ordered
<1>15. QED
  BY <1>1, <1>2, <1>14 DEF Lined, x, y, a

\* save() in the loop tail, and a crash.
LEMMA SaveOrdered ==
  ASSUME NEW R, Lined(R, broker, disk), IInv, IInv', Save \/ Crash
  PROVE  Lined(R, broker', disk')
<1>1. CASE Save
  BY <1>1, RunningLined, SavedOrdered DEF Save
<1>2. CASE Crash
  BY <1>2 DEF Crash, Lined
<1>3. QED
  BY <1>1, <1>2

\* main: what the file holds is in order, and nobody is connected.
LEMMA BootOrdered ==
  ASSUME NEW R, NEW state \in GoodFile(Nothing), state # Corrupt, StateInLine(R, state), NEW file
  PROVE  Boot(state) \in Ordered(Context(file, Nothing, {}), Line(R, 0, {}))
<1> DEFINE a == Boot(state)
           x == Context(file, Nothing, {})
           y == Line(R, 0, {})
<1>1. a \in Keeps(x)
  BY NothingStays, BootGood
<1>2. /\ a.sessions = state.sessions /\ a.retained = state.retained /\ a.subs = <<>>
      /\ \A u \in Token : ~a.clients[u].connected
  BY DEF Boot, Gone
<1>3. DOMAIN a.subs = {}
  BY <1>2
<1>4. y.order = R
  BY DEF Line
<1> HIDE DEF a, x, y
<1>5. \A u \in Token : ClientInLine(y.order, a.clients[u]) /\ ~Connected(a, u)
  BY <1>2 DEF ClientInLine, Connected
<1>6. a \in Ordered(x, y)
  BY <1>1, <1>2, <1>3, <1>4, <1>5 DEF Ordered, StateInLine
<1>7. QED
  BY <1>6 DEF a, x, y

\* There is nothing in an empty state.
LEMMA EmptyInLine == \A R : StateInLine(R, EmptyState)
BY DEF EmptyState, StateInLine, NoSession, Held

\* A start takes over what the file holds.
LEMMA StartOrdered ==
  ASSUME NEW R, Lined(R, broker, disk), IInv, Start
  PROVE  Lined(R, broker', disk')
<1>1. disk \in GoodFile(Nothing) /\ FileInLine(R, disk) /\ disk' = disk
  BY DEF IInv, Standing, Lined, Start
<1>2. CASE disk = Corrupt
  <2>1. EmptyState \in GoodFile(Nothing) /\ EmptyState # Corrupt
    BY EmptyStateGood, NothingStays
  <2>2. broker' = Boot(EmptyState)
    BY <1>2 DEF Start
  <2>3. Boot(EmptyState) \in Ordered(Context(disk, Nothing, {}), Line(R, 0, {}))
    BY <2>1, EmptyInLine, BootOrdered
  <2>4. QED
    BY <1>1, <2>2, <2>3 DEF Lined
<1>3. CASE disk # Corrupt
  <2>1. broker' = Boot(disk) /\ StateInLine(R, disk)
    BY <1>1, <1>3 DEF Start, FileInLine
  <2>2. Boot(disk) \in Ordered(Context(disk, Nothing, {}), Line(R, 0, {}))
    BY <1>1, <1>3, <2>1, BootOrdered
  <2>3. QED
    BY <1>1, <2>1, <2>2 DEF Lined
<1>4. QED
  BY <1>2, <1>3

\* The $SYS messages.
LEMMA PublishSysOrdered ==
  ASSUME NEW R, Lined(R, broker, disk), IInv, PublishSys
  PROVE  Lined(R, broker', disk')
<1>1. /\ broker \in Ordered(Context(disk, Nothing, {}), Line(R, 0, {})) /\ FileInLine(R, disk)
  BY RunningLined DEF PublishSys
<1>2. SysPublished(broker) \in Ordered(Context(disk, Nothing, {}), Line(R, 0, {}))
  BY <1>1, SysPublishedOrdered
<1>3. QED
  BY <1>1, <1>2, BecomesOrdered DEF PublishSys

\* CONNECT.
LEMMA ConnectLined ==
  ASSUME Orderly, NEW R, Lined(R, broker, disk), IInv, IInv',
         NEW t \in Token, NEW c \in Cid, NEW clean \in BOOLEAN, Connect(t, c, clean)
  PROVE  Lined(R, broker', disk')
<1> DEFINE x == Context(disk, Nothing, {})
<1>1. broker \in Ordered(x, Line(R, 0, {})) /\ FileInLine(R, disk) /\ x.msgs = Msg
  BY RunningLined DEF Connect
<1>2. WillOf[c] \in x.msgs \cup {NoMsg} /\ \A p \in x.kept.stored : p[1] # c
  BY <1>1, NothingStays, ContextFields, BrokerAssumption
<1> HIDE DEF x
<1>3. PICK done : /\ done.b \in Ordered(x, Line(R, 0, {})) /\ Handled(done, t)
                  /\ ~done.ok => ~Connected(done.b, t)
  BY <1>1, <1>2, ConnectOrdered
<1>4. QED
  BY <1>1, <1>3, HandledOrdered DEF x

\* A connection that is lost, while no two share an id.
LEMMA LoseOrdered ==
  ASSUME Orderly, NEW R, Lined(R, broker, disk), IInv, IInv',
         \A c \in Cid : Cardinality(Online(broker, c)) <= 1, NEW t \in Token, Lose(t)
  PROVE  Lined(R, broker', disk')
<1>1. broker \in Ordered(Context(disk, Nothing, {}), Line(R, 0, {})) /\ FileInLine(R, disk)
  BY RunningLined DEF Lose
<1>2. broker \in Ordered(Context(disk, Nothing, {}), Line(R, 0, Token))
  BY <1>1, EveryoneAlone
<1>3. broker \in Ordered(Context(disk, Nothing, {t}), Line(R, 0, Token))
  BY <1>2, LeavingOrdered
<1>4. QED
  BY <1>1, <1>3, ClosesOrdered DEF Lose

\* DISCONNECT.
LEMMA DisconnectOrdered ==
  ASSUME Orderly, NEW R, Lined(R, broker, disk), IInv, IInv',
         \A c \in Cid : Cardinality(Online(broker, c)) <= 1, NEW t \in Token, DisconnectPacket(t)
  PROVE  Lined(R, broker', disk')
<1> DEFINE a == [broker EXCEPT !.clients[t].clean_disconnect = TRUE]
           client == [broker.clients[t] EXCEPT !.clean_disconnect = TRUE]
           x == Context(disk, Nothing, {t})
           y == Line(R, 0, Token)
<1>1. /\ broker \in Ordered(Context(disk, Nothing, {}), Line(R, 0, {})) /\ FileInLine(R, disk)
      /\ broker \in GoodBroker(Msg) /\ Connected(broker, t)
  BY RunningLined DEF DisconnectPacket, Named, Is
<1>2. broker \in Ordered(Context(disk, Nothing, {}), Line(R, 0, Token))
  BY <1>1, EveryoneAlone
<1>3. broker \in Ordered(x, y)
  BY <1>2, LeavingOrdered
<1>4. t \in x.leaving
  BY ContextFields
<1> HIDE DEF x, y
<1>5. broker \in Keeps(x)
  BY <1>3, OrderedIs
<1>6. a \in Keeps(x) /\ Closes(a, t)
  BY <1>4, <1>5, DisconnectPacketResult
<1>7. a = [broker EXCEPT !.clients[t] = client]
  BY <1>1 DEF GoodBroker
<1>8. client.cid = broker.clients[t].cid /\ client.write_queue = broker.clients[t].write_queue
  <2>1. broker.clients[t] \in ConnectedOf(x.msgs)
    BY <1>1, <1>5, LiveClient
  <2>2. QED
    BY <2>1 DEF ConnectedOf
<1>9. ClientInLine(y.order, client)
  <2>1. ClientInLine(y.order, broker.clients[t]) /\ broker.clients[t].connected
    BY <1>1, <1>3, OrderedIs DEF Connected
  <2> HIDE DEF client
  <2>2. QED
    BY <1>8, <2>1 DEF ClientInLine
<1> HIDE DEF client, a
<1>10. a \in Ordered(x, y)
  BY <1>1, <1>3, <1>6, <1>7, <1>8, <1>9, OrderedClient
<1>11. QED
  BY <1>1, <1>6, <1>10, ClosesOrdered DEF x, y

\* A packet leaves the queue for the socket: what is left is still in line.
LEMMA FlushOrdered ==
  ASSUME NEW R, Lined(R, broker, disk), IInv, IInv', NEW t \in Token, Flush(t)
  PROVE  Lined(R, broker', disk')
<1> DEFINE x == Context(disk, Nothing, {})
           y == Line(R, 0, {})
           queue == broker.clients[t].write_queue
           rest == Tail(queue)
<1>1. /\ broker \in Ordered(x, y) /\ FileInLine(R, disk) /\ broker \in Keeps(x)
      /\ Connected(broker, t) /\ queue # <<>> /\ broker.clients[t].cid # NoCid
  BY RunningLined, BrokerAssumption DEF Flush, Named, Is
<1>2. /\ disk' = disk /\ broker' = [broker EXCEPT !.clients[t].write_queue = rest]
      /\ Becomes([broker EXCEPT !.clients[t].write_queue = rest])
  BY DEF Flush, Becomes
<1>3. broker' # Stopped
  BY <1>1, <1>2 DEF Keeps, GoodBroker, Stopped
<1>4. broker' \in Keeps(x)
  BY <1>2, <1>3 DEF IInv, Standing
<1>5. queue \in Seq(EntryOf(x.msgs)) /\ QueueInLine(R, queue)
  <2>1. broker.clients[t] \in ConnectedOf(x.msgs) /\ ClientInLine(y.order, broker.clients[t])
    BY <1>1, LiveClient, OrderedIs
  <2>2. QED
    BY <1>1, <2>1 DEF ConnectedOf, ClientInLine, Connected, Line
<1> HIDE DEF x, queue
<1>6. rest \in Seq(EntryOf(x.msgs)) /\ Thinned(queue, rest)
  BY <1>1, <1>5, TailThins, HeadTailProperties
<1> HIDE DEF rest
<1>7. QueueInLine(R, rest)
  BY <1>5, <1>6, ThinnedInLine
<1>8. y.order = R
  BY DEF Line
<1> HIDE DEF y
<1>9. [broker EXCEPT !.clients[t].write_queue = rest] \in Ordered(x, y)
  BY <1>1, <1>2, <1>4, <1>6, <1>7, <1>8, OrderedQueue
<1>10. QED
  BY <1>1, <1>2, <1>9, BecomesOrdered DEF x, y

\* An acknowledgement touches no queue.
LEMMA AcknowledgeOrdered ==
  ASSUME NEW R, Lined(R, broker, disk), IInv, IInv', NEW t \in Token, NEW pkt, Acknowledge(t, pkt)
  PROVE  Lined(R, broker', disk')
<1> DEFINE x == Context(disk, Nothing, {})
           y == Line(R, 0, {})
           client == [broker.clients[t] EXCEPT !.in_flight = @ \ {pkt}]
           a == [broker EXCEPT !.clients[t] = client]
<1>1. /\ broker \in Ordered(x, y) /\ FileInLine(R, disk) /\ broker \in Keeps(x)
      /\ Connected(broker, t) /\ broker \in GoodBroker(Msg)
  BY RunningLined DEF Acknowledge, Named, Is
<1>2. disk' = disk /\ broker' = a /\ Becomes(a)
  BY <1>1 DEF Acknowledge, Becomes, GoodBroker
<1>3. broker' # Stopped
  BY <1>1, <1>2 DEF GoodBroker, Stopped
<1>4. a \in Keeps(x)
  BY <1>2, <1>3 DEF IInv, Standing
<1>5. /\ client.cid = broker.clients[t].cid /\ client.write_queue = broker.clients[t].write_queue
  <2>1. broker.clients[t] \in ConnectedOf(x.msgs)
    BY <1>1, LiveClient
  <2>2. QED
    BY <2>1 DEF ConnectedOf
<1> HIDE DEF x, y
<1>6. ClientInLine(y.order, client)
  <2>1. ClientInLine(y.order, broker.clients[t]) /\ broker.clients[t].connected
    BY <1>1, OrderedIs DEF Connected
  <2> HIDE DEF client
  <2>2. QED
    BY <1>5, <2>1 DEF ClientInLine
<1> HIDE DEF client
<1>7. a \in Ordered(x, y)
  BY <1>1, <1>4, <1>5, <1>6, OrderedClient
<1> HIDE DEF a
<1>8. QED
  BY <1>1, <1>2, <1>7, BecomesOrdered DEF x, y

\* UNSUBSCRIBE.
LEMMA UnsubscribeOrdered ==
  ASSUME NEW R, Lined(R, broker, disk), IInv, NEW t \in Token, NEW filters, Unsubscribe(t, filters)
  PROVE  Lined(R, broker', disk')
<1> DEFINE x == Context(disk, Nothing, {})
           y == Line(R, 0, {})
           leaving == {s \in OwnSubs(broker, t) : s.filter \in filters}
           S == ToSet(broker.subs) \ leaving
           a == [broker EXCEPT !.subs = Only(broker.subs, S)]
<1>1. /\ broker \in Ordered(x, y) /\ FileInLine(R, disk) /\ broker \in GoodBroker(Msg)
      /\ Connected(broker, t) /\ broker.clients[t].cid # NoCid
  BY RunningLined, BrokerAssumption DEF Unsubscribe, Named, Is
<1>2. Becomes(QueueReply(a, t))
  BY <1>1 DEF Unsubscribe, GoodBroker
<1>3. a.clients = broker.clients
  BY <1>1 DEF GoodBroker
<1> HIDE DEF x, y, S
<1>4. a \in Ordered(x, y)
  BY <1>1, UnsubscribedOrdered
<1> HIDE DEF a
<1>5. QueueReply(a, t) \in Ordered(x, y)
  BY <1>1, <1>3, <1>4, QueueReplyOrdered DEF Connected
<1>6. QED
  BY <1>1, <1>2, <1>5, BecomesOrdered DEF x, y

\* SUBSCRIBE: the retained messages it is sent are of QoS 0.
LEMMA SubscribeLined ==
  ASSUME Orderly, NEW R, Lined(R, broker, disk), IInv, IInv',
         \A c \in Cid : Cardinality(Online(broker, c)) <= 1,
         NEW t \in Token, NEW topics \in Requests, Subscribe(t, topics)
  PROVE  Lined(R, broker', disk')
<1> DEFINE x == Context(disk, Nothing, {})
           y == Line(R, 0, Token)
           stored == {topic \in Topic : broker.retained[topic].msg # NoMsg}
<1>1. /\ broker \in Ordered(x, Line(R, 0, {})) /\ FileInLine(R, disk) /\ broker \in GoodBroker(Msg)
      /\ Connected(broker, t) /\ broker.clients[t].cid # NoCid /\ x.msgs = Msg
  BY RunningLined, BrokerAssumption DEF Subscribe, Is
<1>2. broker \in Ordered(x, y)
  BY <1>1, EveryoneAlone
<1>3. topics \in Seq(FilterQos)
  BY BrokerAssumption DEF FilterQos
<1>4. broker.retained \in RetainedType
  BY <1>1 DEF GoodBroker
<1>6. PICK seq \in SetToSeqs(stored) :
        LET sent == SubscribeAll(broker, t, topics, seq)
        IN  Handled(IF sent.ok THEN [sent EXCEPT !.b = QueueReply(@, t)] ELSE sent, t)
  BY DEF Subscribe
<1>7. seq \in Seq({topic \in Topic : broker.retained[topic] \in [msg : x.msgs, qos : 0..2]})
  <2> HIDE DEF x
  <2>1. QED
    BY <1>1, <1>4, RetainedSeqs
<1> DEFINE sent == SubscribeAll(broker, t, topics, seq)
           done == IF sent.ok THEN [sent EXCEPT !.b = QueueReply(@, t)] ELSE sent
<1>8. Handled(done, t)
  BY <1>6
<1> HIDE DEF x, y, stored
<1>9. sent \in Serving(x, y, t) /\ (sent.ok => QueueReply(sent.b, t) \in Ordered(x, y))
  BY <1>1, <1>2, <1>3, <1>7, SubscribeOrdered
<1> HIDE DEF sent
<1>10. sent \in [b : Keeps(x), ok : BOOLEAN] /\ sent.b \in Ordered(x, y)
  BY <1>9 DEF Serving, Outcome
<1>11. done.b \in Ordered(x, y)
  BY <1>9, <1>10
<1> HIDE DEF done
<1>12. QED
  BY <1>1, <1>8, <1>11, HandledOrdered DEF x, y

\* The message handled last is the newest.
LEMMA BeforeAppend ==
  ASSUME NEW o \in Seq(Msg), NEW m \in Msg, NEW a, a = Append(o, m)
  PROVE  Before(o) \subseteq Before(a) /\ Newest(Before(a), m)
<1> DEFINE n == Len(o)
<1>1. n \in Nat /\ DOMAIN o = 1 .. n /\ DOMAIN a = 1 .. n + 1
  <2>1. Len(a) = n + 1 /\ a \in Seq(Msg)
    BY AppendProperties
  <2>2. QED
    BY <2>1, LenProperties
<1>2. a[n + 1] = m /\ \A i \in 1 .. n : a[i] = o[i]
  BY AppendProperties
<1> HIDE DEF n
<1>3. 1 .. n \subseteq 1 .. n + 1 /\ n + 1 \in 1 .. n + 1 /\ \A i \in 1 .. n + 1 : i <= n + 1
  BY <1>1
<1>4. Before(o) \subseteq Before(a)
  BY <1>1, <1>2, <1>3 DEF Before
<1>5. <<m, m>> \in Before(a)
  <2>1. n + 1 \in DOMAIN a /\ n + 1 <= n + 1
    BY <1>1, <1>3
  <2>2. QED
    BY <1>2, <2>1 DEF Before
<1>6. ASSUME NEW p \in Before(a) PROVE <<p[1], m>> \in Before(a)
  <2>1. PICK i \in DOMAIN a : p[1] = a[i] /\ p[1] \in Msg
    BY DEF Before
  <2>2. i <= n + 1 /\ n + 1 \in DOMAIN a
    BY <1>1, <1>3
  <2>3. QED
    BY <1>2, <2>1, <2>2 DEF Before
<1>7. QED
  BY <1>4, <1>5, <1>6 DEF Newest

\* PUBLISH.
LEMMA PublishPacketOrdered ==
  ASSUME Orderly, Lined(Before(order), broker, disk), IInv, NEW t \in Token, NEW m \in Msg,
         NEW qos \in PUB_QOS, NEW retain \in RETAIN, PublishPacket(t, m, qos, retain)
  PROVE  Lined(Before(order'), broker', disk')
<1> DEFINE x == Context(disk, Nothing, {})
           R == Before(order)
           Q == Before(order')
           y == Line(Q, 0, {})
           replied == IF qos > 0 THEN QueueReply(broker, t) ELSE broker
<1>1. /\ broker \in Ordered(x, Line(R, 0, {})) /\ FileInLine(R, disk)
      /\ Connected(broker, t) /\ broker.clients[t].cid # NoCid /\ x.msgs = Msg
  BY RunningLined, BrokerAssumption DEF PublishPacket, Is
<1>2. order \in Seq(Msg) /\ order' = Append(order, m)
  BY DEF IInv, Standing, PublishPacket
<1>3. R \subseteq Q /\ Newest(Q, m)
  BY <1>2, BeforeAppend
<1>4. Becomes(Publish(replied, m, qos, retain))
  BY DEF PublishPacket
<1> HIDE DEF x, R, Q
<1>5. broker \in Ordered(x, y) /\ FileInLine(Q, disk) /\ y.order = Q
  BY <1>1, <1>3, OrderedLonger DEF Line
<1> HIDE DEF y
<1>6. replied \in Ordered(x, y)
  BY <1>1, <1>5, QueueReplyOrdered
<1> HIDE DEF replied
<1>7. qos \in 0..2 /\ retain \in BOOLEAN /\ ~retain
  BY BrokerAssumption DEF Orderly
<1>8. Publish(replied, m, qos, retain) \in Ordered(x, y)
  BY <1>1, <1>3, <1>5, <1>6, <1>7, PublishOrdered
<1>9. QED
  BY <1>4, <1>5, <1>8, BecomesOrdered DEF x, y, Q

\* No message is handled twice.
NoneTwice(o) == \A i, j \in DOMAIN o : o[i] = o[j] => i = j

\* The invariant: every queue and every session, in memory and in the file, is in
\* the order of the PUBLISH packets.
OrderInv == IInv /\ Lined(Before(order), broker, disk) /\ NoneTwice(order)

\* No two connections use an id at once.
OneEach == Running => \A c \in Cid : Cardinality(Online(broker, c)) <= 1

\* Nothing is queued at the start.
LEMMA InitOrdered == Init => OrderInv
<1>1. SUFFICES ASSUME Init PROVE OrderInv
  OBVIOUS
<1>2. IInv
  BY <1>1, InitStanding
<1>3. EmptyState \in GoodFile(Nothing) /\ EmptyState # Corrupt
  BY EmptyStateGood, NothingStays
<1> DEFINE R == Before(order)
<1> HIDE DEF R
<1>4. Boot(EmptyState) \in Ordered(Context(disk, Nothing, {}), Line(R, 0, {}))
  BY <1>3, EmptyInLine, BootOrdered
<1>5. Lined(R, broker, disk)
  BY <1>1, <1>4, EmptyInLine DEF Init, Lined, FileInLine
<1>6. DOMAIN order = {}
  BY <1>1 DEF Init
<1>7. NoneTwice(order)
  BY <1>6 DEF NoneTwice
<1>8. QED
  BY <1>2, <1>5, <1>7 DEF OrderInv, R

\* Every step but PUBLISH leaves the order as it is.
LEMMA OrderStays ==
  ASSUME Orderly, OneEach, NEW R, Lined(R, broker, disk), IInv, [Next]_vars
  PROVE  \/ Lined(R, broker', disk') /\ order' = order
         \/ \E t \in Token, m \in Msg, qos \in PUB_QOS, retain \in RETAIN : PublishPacket(t, m, qos, retain)
<1> DEFINE Stays == Lined(R, broker', disk') /\ order' = order
<1>0. IInv'
  BY IInvStep
<1>1. CASE UNCHANGED vars
  BY <1>1 DEF vars
<1>2. CASE Accept
  BY <1>0, <1>2, AcceptOrdered DEF Accept
<1>3. CASE Save
  BY <1>0, <1>3, SaveOrdered DEF Save
<1>4. CASE Crash
  BY <1>0, <1>4, SaveOrdered DEF Crash
<1>5. CASE Start
  BY <1>5, StartOrdered DEF Start
<1>6. CASE PublishSys
  BY <1>6, PublishSysOrdered DEF PublishSys
<1>7. ASSUME NEW t \in Token, NEW c \in Cid, NEW clean \in CleanOf[c], Connect(t, c, clean)
      PROVE  Stays
  <2>1. clean \in BOOLEAN
    BY BrokerAssumption
  <2>2. QED
    BY <1>0, <1>7, <2>1, ConnectLined DEF Connect
<1>8. ASSUME NEW t \in Token, NEW topics \in Requests, Subscribe(t, topics) PROVE Stays
  <2>1. \A c \in Cid : Cardinality(Online(broker, c)) <= 1
    BY <1>8 DEF OneEach, Subscribe, Is
  <2>2. QED
    BY <1>0, <1>8, <2>1, SubscribeLined DEF Subscribe
<1>9. ASSUME NEW t \in Token, NEW filters \in SUBSET Filter \ {{}}, Unsubscribe(t, filters)
      PROVE  Stays
  BY <1>9, UnsubscribeOrdered DEF Unsubscribe
<1>10. ASSUME NEW t \in Token, DisconnectPacket(t) PROVE Stays
  <2>1. \A c \in Cid : Cardinality(Online(broker, c)) <= 1
    BY <1>10 DEF OneEach, DisconnectPacket, Named, Is
  <2>2. QED
    BY <1>0, <1>10, <2>1, DisconnectOrdered DEF DisconnectPacket
<1>11. ASSUME NEW t \in Token, Lose(t) PROVE Stays
  <2>1. \A c \in Cid : Cardinality(Online(broker, c)) <= 1
    BY <1>11 DEF OneEach, Lose
  <2>2. QED
    BY <1>0, <1>11, <2>1, LoseOrdered DEF Lose
<1>12. ASSUME NEW t \in Token, Flush(t) PROVE Stays
  BY <1>0, <1>12, FlushOrdered DEF Flush
<1>13. ASSUME NEW t \in Token, NEW m \in Msg, NEW qos \in 1..2, NEW pid \in Pid,
              Acknowledge(t, Forward(m, qos, pid))
       PROVE  Stays
  BY <1>0, <1>13, AcknowledgeOrdered DEF Acknowledge
<1>14. QED
  BY <1>1, <1>2, <1>3, <1>4, <1>5, <1>6, <1>7, <1>8, <1>9, <1>10, <1>11, <1>12, <1>13 DEF Next

\* PUBLISH makes the order longer by a message that is newer than all others.
LEMMA OrderInvStep ==
  ASSUME Orderly
  PROVE  OrderInv /\ OneEach /\ [Next]_vars => OrderInv'
<1>1. SUFFICES ASSUME OrderInv, OneEach, [Next]_vars PROVE OrderInv'
  OBVIOUS
<1>2. IInv'
  BY <1>1, IInvStep DEF OrderInv
<1> DEFINE R == Before(order)
<1>3. Lined(R, broker, disk) /\ IInv /\ NoneTwice(order)
  BY <1>1 DEF OrderInv
<1>4. CASE Lined(R, broker', disk') /\ order' = order
  BY <1>2, <1>3, <1>4 DEF OrderInv
<1>5. ASSUME NEW t \in Token, NEW m \in Msg, NEW qos \in PUB_QOS, NEW retain \in RETAIN,
             PublishPacket(t, m, qos, retain)
      PROVE  OrderInv'
  <2>1. Lined(Before(order'), broker', disk')
    BY <1>3, <1>5, PublishPacketOrdered
  <2>2. NoneTwice(order')
    <3> DEFINE n == Len(order)
    <3>1. order \in Seq(Msg) /\ order' = Append(order, m) /\ \A i \in 1 .. n : order[i] # m
      BY <1>3, <1>5 DEF IInv, Standing, PublishPacket, Contains
    <3>2. /\ n \in Nat /\ order'[n + 1] = m /\ \A i \in 1 .. n : order'[i] = order[i]
          /\ Len(order') = n + 1 /\ order' \in Seq(Msg)
      BY <3>1, AppendProperties, LenProperties
    <3>3. DOMAIN order' = 1 .. n + 1 /\ DOMAIN order = 1 .. n
      BY <3>1, <3>2, LenProperties
    <3> HIDE DEF n
    <3>4. \A i \in 1 .. n + 1 : i \in 1 .. n \/ i = n + 1
      BY <3>2
    <3>5. \A i, j \in 1 .. n : order'[i] = order'[j] => i = j
      BY <1>3, <3>2, <3>3 DEF NoneTwice
    <3>6. \A i \in 1 .. n : order'[i] # m
      BY <3>1, <3>2
    <3>7. QED
      BY <3>2, <3>3, <3>4, <3>5, <3>6 DEF NoneTwice
  <2>3. QED
    BY <1>2, <2>1, <2>2 DEF OrderInv
<1> HIDE DEF R
<1>6. QED
  BY <1>1, <1>3, <1>4, <1>5, OrderStays

\* The place of a message in the order.
LEMMA RankIs ==
  ASSUME NoneTwice(order), NEW i \in DOMAIN order
  PROVE  Rank(order[i]) = i
BY DEF Rank, NoneTwice

\* What is kept of a line in order.
LEMMA KeptInLine ==
  ASSUME NEW A, NEW held \in Seq(A), NEW R, HeldInLine(R, held), NEW line, line = Kept(held)
  PROVE  \A i, j \in DOMAIN line : i < j => <<line[i].msg, line[j].msg>> \in R
<1> DEFINE S == {h \in ToSet(held) : h.qos > 0}
<1>1. line = Only(held, S)
  BY DEF Kept
<1>2. \A h \in S : h.qos > 0
  OBVIOUS
<1> HIDE DEF S
<1>3. line \in Seq(A) /\ Thinned(held, line) /\ line \in Seq(A \cap S)
  BY <1>1, OnlyThins, OnlyType
<1>4. HeldInLine(R, line)
  BY <1>3, ThinnedInLine
<1>5. DOMAIN line = 1 .. Len(line) /\ \A i \in 1 .. Len(line) : line[i] \in A \cap S
  BY <1>3, LenProperties, ElementOfSeq
<1>6. \A i \in DOMAIN line : line[i].qos > 0
  BY <1>2, <1>5
<1>7. ASSUME NEW i \in DOMAIN line, NEW j \in DOMAIN line, i < j
      PROVE  i <= j
  <2>1. i \in Int /\ j \in Int
    BY <1>5
  <2>2. QED
    BY <1>7, <2>1
<1>8. QED
  BY <1>4, <1>6, <1>7 DEF HeldInLine

\* A broker in order has its lines in order.
LEMMA OrderInvInOrder == OrderInv => InOrder
<1>1. SUFFICES ASSUME OrderInv, Running, NEW c \in Cid, NEW line \in Lines(broker, c),
                      NEW i \in DOMAIN line, NEW j \in DOMAIN line, i < j
               PROVE  Rank(line[i].msg) <= Rank(line[j].msg)
  BY DEF InOrder
<1> DEFINE R == Before(order)
           x == Context(disk, Nothing, {})
           y == Line(R, 0, {})
<1>2. /\ broker \in Ordered(x, y) /\ broker \in Keeps(x) /\ x.msgs = Msg /\ y.order = R
      /\ NoneTwice(order) /\ order \in Seq(Msg)
  BY <1>1, RunningLined DEF OrderInv, IInv, Standing, Line
<1> HIDE DEF x, y
<1>3. PICK held \in Seq([msg : Msg, qos : 0..2]) : HeldInLine(R, held) /\ line = Kept(held)
  <2>1. CASE line \in {Kept(Unsent(broker, t)) : t \in {t \in Online(broker, c) : ~broker.clients[t].clean_session}}
    <3>1. PICK t \in Online(broker, c) : line = Kept(Unsent(broker, t))
      BY <2>1
    <3>2. Connected(broker, t) /\ t \in Token
      BY DEF Online
    <3>3. QueueInLine(R, broker.clients[t].write_queue)
      BY <1>2, <3>2, OrderedIs DEF ClientInLine, Connected
    <3> HIDE DEF R
    <3>4. HeldInLine(R, Unsent(broker, t))
      BY <1>2, <3>2, <3>3, UnsentInLine
    <3>5. Unsent(broker, t) \in Seq([msg : Msg, qos : 0..2])
      BY <1>2, <3>2, UnsentType
    <3>6. QED
      BY <3>1, <3>4, <3>5
  <2>2. CASE broker.sessions[c].stored /\ line = Kept(broker.sessions[c].offline)
    <3>1. HeldInLine(R, broker.sessions[c].offline)
      BY <1>2, <2>2 DEF Ordered
    <3>2. broker.sessions[c] \in GoodSession(Msg)
      BY <1>2 DEF Keeps, GoodBroker
    <3>3. broker.sessions[c].offline \in Seq([msg : Msg, qos : 0..2])
      BY <2>2, <3>2, StoredSession DEF StoredOf
    <3>4. QED
      BY <2>2, <3>1, <3>3
  <2>3. QED
    BY <1>1, <2>1, <2>2 DEF Lines
<1>4. <<line[i].msg, line[j].msg>> \in R
  BY <1>1, <1>3, KeptInLine
<1>5. PICK k \in DOMAIN order, l \in DOMAIN order :
        k <= l /\ line[i].msg = order[k] /\ line[j].msg = order[l]
  BY <1>4 DEF Before
<1>6. QED
  BY <1>2, <1>5, RankIs

\* Absence does not reorder: while no two connections use an id at once, what waits
\* for a persistent client, queued or stored, stands in the order in which its PUBLISH
\* packets were handled, through every departure, return, save, crash and restart.
THEOREM AbsenceKeepsOrder ==
  ASSUME Orderly
  PROVE  Spec => OfflineInOrder
<1>1. Init => OrderInv
  BY InitOrdered
<1>2. OrderInv /\ (Running => \A c \in Cid : Cardinality(Online(broker, c)) <= 1) /\ [Next]_vars => OrderInv'
  BY OrderInvStep DEF OneEach
<1>3. OrderInv => InOrder
  BY OrderInvInOrder
<1>4. QED
  BY <1>1, <1>2, <1>3, PTL DEF Spec, OfflineInOrder

----------------------------------------------------------------------------
(* Fan-out.                                                                *)

\* A client with room for n more packets, a client of which RoomFor says so (of
\* any broker; there is one place more), and a client's copies of a message.
Room(client, n) ==
  /\ client.connected
  /\ Len(client.write_queue) + n <= WRITE_QUEUE_CAP
  /\ Cardinality(client.in_flight) + n <= IN_FLIGHT_CAP
  /\ client.next_pid + n <= MAX_PID + 1
RoomIn(b, u, n) ==
  /\ Connected(b, u)
  /\ Len(b.clients[u].write_queue) + n < WRITE_QUEUE_CAP
  /\ Cardinality(b.clients[u].in_flight) + n <= IN_FLIGHT_CAP
  /\ b.clients[u].next_pid + n <= MAX_PID + 1
CopyPlaces(queue, m) == {i \in DOMAIN queue : queue[i].pkt.msg = m}
Copies(client, m) == Cardinality(CopyPlaces(client.write_queue, m))

\* A packet at the end of a queue is one copy more of its message.
LEMMA AppendCopies ==
  ASSUME NEW A, NEW q \in Seq(A), NEW e \in A, NEW m
  PROVE  Cardinality(CopyPlaces(Append(q, e), m)) =
           Cardinality(CopyPlaces(q, m)) + IF e.pkt.msg = m THEN 1 ELSE 0
<1> DEFINE n == Len(q)
           a == Append(q, e)
           P == CopyPlaces(q, m)
<1>1. /\ n \in Nat /\ DOMAIN q = 1 .. n /\ DOMAIN a = 1 .. n + 1
      /\ a[n + 1] = e /\ \A i \in 1 .. n : a[i] = q[i]
  BY AppendProperties, LenProperties
<1>2. P = {i \in 1 .. n : q[i].pkt.msg = m} /\ CopyPlaces(a, m) = {i \in 1 .. n + 1 : a[i].pkt.msg = m}
  BY <1>1 DEF CopyPlaces
<1> HIDE DEF n, a, P
<1>3. IsFiniteSet(P) /\ n + 1 \notin P
  <2>1. IsFiniteSet(1 .. n) /\ P \subseteq 1 .. n
    BY <1>1, <1>2, FS_Interval
  <2>2. IsFiniteSet(P)
    BY <2>1, FS_Subset
  <2>3. n + 1 \notin 1 .. n
    BY <1>1
  <2>4. QED
    BY <2>1, <2>2, <2>3
<1>4. Cardinality(P) \in Nat /\ Cardinality(P \cup {n + 1}) = Cardinality(P) + 1
  BY <1>3, FS_CardinalityType, FS_AddElement
<1>5. CASE e.pkt.msg = m
  <2>1. CopyPlaces(a, m) = P \cup {n + 1}
    BY <1>1, <1>2, <1>5
  <2>2. QED
    BY <1>4, <1>5, <2>1 DEF a, P
<1>6. CASE e.pkt.msg # m
  <2>1. CopyPlaces(a, m) = P
    BY <1>1, <1>2, <1>6
  <2>2. QED
    BY <1>4, <1>6, <2>1 DEF a, P
<1>7. QED
  BY <1>5, <1>6

\* The copies of a message in a queue can be counted.
LEMMA CopiesType ==
  ASSUME NEW M, NEW client \in ConnectedOf(M), NEW m
  PROVE  Copies(client, m) \in Nat
<1> DEFINE q == client.write_queue
<1>1. q \in Seq(EntryOf(M))
  BY DEF ConnectedOf
<1>2. DOMAIN q = 1 .. Len(q) /\ Len(q) \in Nat
  BY <1>1, LenProperties
<1>3. IsFiniteSet(CopyPlaces(q, m))
  <2>1. IsFiniteSet(1 .. Len(q)) /\ CopyPlaces(q, m) \subseteq 1 .. Len(q)
    BY <1>2, FS_Interval DEF CopyPlaces
  <2>2. QED
    BY <2>1, FS_Subset
<1>4. QED
  BY <1>3, FS_CardinalityType DEF Copies

\* A client with room takes what is delivered to it.
LEMMA DeliverToRoom ==
  ASSUME NEW x, NEW b \in Keeps(x), NEW t \in Token, NEW n \in Nat, n # 0,
         Room(b.clients[t], n), NEW m \in Msg, NEW qos \in 0..2, qos > 0 => m \in x.msgs
  PROVE  /\ DeliverTo(b, t, m, qos).ok
         /\ Room(DeliverTo(b, t, m, qos).b.clients[t], n - 1)
         /\ Copies(DeliverTo(b, t, m, qos).b.clients[t], m) = Copies(b.clients[t], m) + 1
<1> DEFINE client == b.clients[t]
           queue == client.write_queue
           pkt == Forward(m, qos, client.next_pid)
           done == DeliverTo(b, t, m, qos)
<1>1. b \in GoodBroker(x.msgs) /\ Connected(b, t)
  BY DEF Keeps, Room, Connected
<1>2. client \in ConnectedOf(x.msgs) /\ IsFiniteSet(client.in_flight)
  BY <1>1, LiveClient
<1>3. /\ queue \in Seq(EntryOf(x.msgs)) /\ Len(queue) \in Nat
      /\ client.next_pid \in Nat \ {0} /\ Cardinality(client.in_flight) \in Nat
  BY <1>2, LenProperties, FS_CardinalityType DEF ConnectedOf
<1>4. /\ Len(queue) + n <= WRITE_QUEUE_CAP /\ Cardinality(client.in_flight) + n <= IN_FLIGHT_CAP
      /\ client.next_pid + n <= MAX_PID + 1 /\ client.connected
  BY DEF Room
<1>5. Accepts0(queue) /\ Len(queue) + 1 + (n - 1) <= WRITE_QUEUE_CAP
  BY <1>3, <1>4, CapAssumption, SMTT(30) DEF Accepts0
<1>6. CASE qos = 0
  <2> DEFINE e == Queued(FALSE, Forward(m, 0, 0))
             q == Append(queue, e)
             next == [client EXCEPT !.write_queue = q]
  <2>1. e \in EntryOf(x.msgs) /\ e.pkt.msg = m
    BY DEF Queued, EntryOf, Forward
  <2>2. done = [b |-> [b EXCEPT !.clients[t].write_queue = q], ok |-> TRUE]
    <3>1. Queue0(queue, Forward(m, 0, 0)) = q
      BY <1>5 DEF Queue0
    <3>2. ~(qos > 0)
      BY <1>6
    <3>3. done = [b |-> [b EXCEPT !.clients[t].write_queue = Queue0(@, Forward(m, 0, 0))],
                  ok |-> Accepts0(queue)]
      BY <1>4, <1>6, <3>2 DEF DeliverTo
    <3>4. QED
      BY <1>5, <3>1, <3>3
  <2> HIDE DEF e
  <2>3. /\ q \in Seq(EntryOf(x.msgs)) /\ Len(q) = Len(queue) + 1
    BY <1>3, <2>1, AppendEntry
  <2>4. Cardinality(CopyPlaces(q, m)) = Cardinality(CopyPlaces(queue, m)) + 1
    BY <1>3, <2>1, AppendCopies
  <2> HIDE DEF q, done
  <2>5. done.ok /\ done.b.clients[t] = next
    BY <1>1, <2>2 DEF GoodBroker
  <2>6. /\ next.write_queue = q /\ next.in_flight = client.in_flight
        /\ next.next_pid = client.next_pid /\ next.connected
    BY <1>2, <1>4 DEF ConnectedOf
  <2> HIDE DEF next
  <2>7. Room(next, n - 1)
    <3>1. Len(next.write_queue) + (n - 1) <= WRITE_QUEUE_CAP
      BY <1>5, <2>3, <2>6
    <3>2. Cardinality(next.in_flight) + (n - 1) <= IN_FLIGHT_CAP
      BY <1>3, <1>4, <2>6, CapAssumption
    <3>3. next.next_pid + (n - 1) <= MAX_PID + 1
      BY <1>3, <1>4, <2>6, CapAssumption
    <3>4. QED
      BY <2>6, <3>1, <3>2, <3>3 DEF Room
  <2>8. Copies(next, m) = Copies(client, m) + 1
    BY <2>4, <2>6 DEF Copies
  <2>9. QED
    BY <2>5, <2>7, <2>8 DEF done
<1>7. CASE qos > 0
  <2> DEFINE e == Queued(TRUE, pkt)
             q == Append(queue, e)
             window == client.in_flight \cup {pkt}
             next == [client EXCEPT !.write_queue = q, !.in_flight = window, !.next_pid = @ + 1]
  <2>1. HasPid(client) /\ Accepts1(queue)
    <3>1. Cardinality(client.in_flight) < IN_FLIGHT_CAP /\ client.next_pid <= MAX_PID
      BY <1>3, <1>4, CapAssumption, SMTT(30)
    <3>2. QED
      BY <1>5, <3>1 DEF HasPid, Accepts1
  <2>2. done = [b |-> [b EXCEPT !.clients[t] = next], ok |-> TRUE]
    <3>1. Queue1(queue, pkt) = q
      BY <1>5 DEF Queue1, Evict
    <3>2. done = [b |-> [b EXCEPT !.clients[t] = [client EXCEPT !.write_queue = Queue1(@, pkt),
                                     !.in_flight = @ \cup {pkt}, !.next_pid = @ + 1]], ok |-> TRUE]
      BY <1>4, <1>7, <2>1 DEF DeliverTo
    <3>3. QED
      BY <3>1, <3>2
  <2>3. pkt \in PacketOf(x.msgs) /\ pkt.msg = m
    <3>1. client.next_pid \in Pid
      BY <1>3, <1>4, CapAssumption, SMTT(30) DEF Pid
    <3>2. QED
      BY <1>7, <3>1 DEF PacketOf, Forward
  <2>4. e \in EntryOf(x.msgs) /\ e.pkt.msg = m
    BY <2>3 DEF Queued, EntryOf
  <2> HIDE DEF e, pkt
  <2>5. q \in Seq(EntryOf(x.msgs)) /\ Len(q) = Len(queue) + 1
    BY <1>3, <2>4, AppendEntry
  <2>6. Cardinality(CopyPlaces(q, m)) = Cardinality(CopyPlaces(queue, m)) + 1
    BY <1>3, <2>4, AppendCopies
  <2>7. Cardinality(window) \in Nat /\ Cardinality(window) <= Cardinality(client.in_flight) + 1
    <3> DEFINE w == client.in_flight
    <3>1. IsFiniteSet(w) /\ Cardinality(w) \in Nat
      BY <1>2, <1>3
    <3> HIDE DEF w
    <3>2. Cardinality(w \cup {pkt}) = IF pkt \in w THEN Cardinality(w) ELSE Cardinality(w) + 1
      BY <3>1, FS_AddElement
    <3>3. QED
      BY <3>1, <3>2 DEF w
  <2> HIDE DEF q, window, done
  <2>8. done.ok /\ done.b.clients[t] = next
    BY <1>1, <2>2 DEF GoodBroker
  <2>9. /\ next.write_queue = q /\ next.in_flight = window
        /\ next.next_pid = client.next_pid + 1 /\ next.connected
    BY <1>2, <1>4 DEF ConnectedOf
  <2> HIDE DEF next
  <2>10. Room(next, n - 1)
    <3>1. Len(next.write_queue) + (n - 1) <= WRITE_QUEUE_CAP
      BY <1>5, <2>5, <2>9
    <3>2. Cardinality(next.in_flight) + (n - 1) <= IN_FLIGHT_CAP
      BY <1>3, <1>4, <2>7, <2>9, CapAssumption
    <3>3. next.next_pid + (n - 1) <= MAX_PID + 1
      BY <1>3, <1>4, <2>9, CapAssumption
    <3>4. QED
      BY <2>9, <3>1, <3>2, <3>3 DEF Room
  <2>11. Copies(next, m) = Copies(client, m) + 1
    BY <2>6, <2>9 DEF Copies
  <2>12. QED
    BY <2>8, <2>10, <2>11 DEF done
<1>8. QED
  BY <1>6, <1>7

\* deliver_to touches one client and nothing else.
LEMMA DeliverToOne ==
  ASSUME NEW x, NEW b \in Keeps(x), NEW t \in Token, NEW m \in Msg, NEW qos \in 0..2
  PROVE  /\ \A u \in Token \ {t} : DeliverTo(b, t, m, qos).b.clients[u] = b.clients[u]
         /\ DeliverTo(b, t, m, qos).b.sessions = b.sessions
         /\ DeliverTo(b, t, m, qos).b.subs = b.subs
<1> DEFINE client == b.clients[t]
           pkt == Forward(m, qos, client.next_pid)
           queued == [client EXCEPT !.write_queue = Queue1(@, pkt),
                                    !.in_flight = @ \cup {pkt},
                                    !.next_pid = @ + 1]
           q == Queue0(client.write_queue, Forward(m, 0, 0))
           done == DeliverTo(b, t, m, qos)
<1>1. b \in GoodBroker(x.msgs)
  BY DEF Keeps
<1>2. \/ done.b = b \/ done.b = Drop(b, t)
      \/ done.b = [b EXCEPT !.clients[t] = queued]
      \/ done.b = [b EXCEPT !.clients[t].write_queue = q]
  <2>1. CASE ~client.connected
    BY <2>1 DEF DeliverTo
  <2>2. CASE client.connected /\ qos = 0
    <3>1. ~(qos > 0)
      BY <2>2
    <3>2. QED
      BY <2>2, <3>1 DEF DeliverTo
  <2>3. CASE client.connected /\ qos > 0
    BY <2>3 DEF DeliverTo
  <2>4. QED
    BY <2>1, <2>2, <2>3
<1> HIDE DEF done, queued, q
<1>3. QED
  BY <1>1, <1>2 DEF GoodBroker, Drop, done

\* A round of the loop leaves alone the subscriptions of lower positions, all
\* clients but the one it delivers to, and every subscription but the one it
\* stands at; where there is room it keeps that one too.
Local(next, b, i, m) ==
  LET t == b.subs[i].token
  IN  /\ next.sessions = b.sessions
      /\ \A j \in 1 .. i - 1 : next.subs[j] = b.subs[j]
      /\ \A u \in Token : u # t => next.clients[u] = b.clients[u]
      /\ \A s : s # b.subs[i] =>
           Cardinality(Occurrences(next.subs, s)) = Cardinality(Occurrences(b.subs, s))
      /\ \A n \in Nat : n # 0 /\ Room(b.clients[t], n) =>
           /\ Room(next.clients[t], n - 1)
           /\ Copies(next.clients[t], m) = Copies(b.clients[t], m) + 1
           /\ next.subs = b.subs
LEMMA RoundIsLocal ==
  ASSUME NEW x, NEW b \in Keeps(x), NEW m \in Msg, NEW qos \in 0..2, qos > 0 => m \in x.msgs,
         NEW i \in 1 .. Len(b.subs)
  PROVE  Local(Deliver(b, m, qos, i), b, i, m)
<1> DEFINE t == b.subs[i].token
           q == LesserQos(qos, b.subs[i].qos)
           done == DeliverTo(b, t, m, q)
           next == Deliver(b, m, qos, i)
           swapped == SwapRemove(b.subs, i)
<1>1. b.subs \in Seq(SubType) /\ b.subs[i] \in SubType /\ Len(b.subs) \in Nat
  <2>1. b.subs \in Seq(SubType)
    BY DEF Keeps, GoodBroker
  <2>2. QED
    BY <2>1, ElementOfSeq, LenProperties
<1>2. t \in Token /\ q \in 0..2 /\ (q > 0 => m \in x.msgs)
  <2>1. t \in Token /\ b.subs[i].qos \in 0..2
    BY <1>1 DEF SubType
  <2>2. QED
    BY <2>1, LesserQosType
<1>3. next = IF done.ok THEN done.b ELSE [done.b EXCEPT !.subs = SwapRemove(@, i)]
  BY DEF Deliver
<1>4. Len(swapped) = Len(b.subs) - 1 /\ swapped \in Seq(SubType)
  BY <1>1, SwapRemoveType
<1>5. \A j \in 1 .. i - 1 : swapped[j] = b.subs[j]
  BY <1>1 DEF SwapRemove
<1>6. \A s : s # b.subs[i] => Cardinality(Occurrences(swapped, s)) = Cardinality(Occurrences(b.subs, s))
  <2> SUFFICES ASSUME NEW s, s # b.subs[i]
               PROVE  Cardinality(Occurrences(swapped, s)) = Cardinality(Occurrences(b.subs, s))
    OBVIOUS
  <2> DEFINE c == Cardinality(Occurrences(swapped, s))
  <2>1. /\ IsFiniteSet(Occurrences(swapped, s))
        /\ Cardinality(Occurrences(b.subs, s)) = c + IF b.subs[i] = s THEN 1 ELSE 0
    BY <1>1, SwapRemoveCount
  <2>2. c \in Nat
    BY <2>1, FS_CardinalityType
  <2> HIDE DEF c
  <2>3. QED
    BY <2>1, <2>2 DEF c
<1> HIDE DEF q, swapped
<1>7. /\ done.b \in Keeps(x) /\ done.b.subs = b.subs /\ done.b.sessions = b.sessions
      /\ \A u \in Token \ {t} : done.b.clients[u] = b.clients[u]
  <2>1. done.b \in Keeps(x)
    BY <1>2, DeliverToKeeps
  <2>2. QED
    BY <1>2, <2>1, DeliverToOne
<1>8. ASSUME NEW n \in Nat, n # 0, Room(b.clients[t], n)
      PROVE  /\ done.ok /\ Room(done.b.clients[t], n - 1)
             /\ Copies(done.b.clients[t], m) = Copies(b.clients[t], m) + 1
  BY <1>2, <1>8, DeliverToRoom, SMTT(30)
<1> HIDE DEF t, done, next
<1>9. CASE done.ok
  <2>1. next = done.b
    BY <1>3, <1>9
  <2>2. QED
    BY <1>7, <1>8, <2>1 DEF Local, next, t
<1>10. CASE ~done.ok
  <2> DEFINE a == done.b
  <2>1. next = [a EXCEPT !.subs = swapped]
    BY <1>3, <1>7, <1>10 DEF swapped
  <2>2. a \in GoodBroker(x.msgs)
    BY <1>7 DEF Keeps
  <2> HIDE DEF a
  <2>3. next.subs = swapped /\ next.sessions = a.sessions /\ next.clients = a.clients
    BY <2>1, <2>2 DEF GoodBroker
  <2>4. \A n \in Nat : n # 0 => ~Room(b.clients[t], n)
    BY <1>8, <1>10
  <2>5. QED
    BY <1>5, <1>6, <1>7, <2>3, <2>4 DEF Local, next, t, a
<1>11. QED
  BY <1>9, <1>10

\* How many of a set of positions are at i or lower.
Due(S, i) == Cardinality(S \cap (1 .. i))
LEMMA DueStep ==
  ASSUME NEW S, NEW i \in Nat
  PROVE  /\ Due(S, i) \in Nat
         /\ i # 0 => Due(S, i) = Due(S, i - 1) + IF i \in S THEN 1 ELSE 0
<1>1. \A k \in Nat : IsFiniteSet(S \cap (1 .. k)) /\ Due(S, k) \in Nat
  <2> SUFFICES ASSUME NEW k \in Nat PROVE IsFiniteSet(S \cap (1 .. k)) /\ Due(S, k) \in Nat
    OBVIOUS
  <2>1. IsFiniteSet(1 .. k) /\ S \cap (1 .. k) \subseteq 1 .. k
    BY FS_Interval
  <2>2. IsFiniteSet(S \cap (1 .. k))
    BY <2>1, FS_Subset
  <2>3. QED
    BY <2>2, FS_CardinalityType DEF Due
<1>2. ASSUME i # 0 PROVE Due(S, i) = Due(S, i - 1) + IF i \in S THEN 1 ELSE 0
  <2> DEFINE P == S \cap (1 .. i - 1)
  <2>1. i - 1 \in Nat /\ i \notin P
    BY <1>2
  <2>2. S \cap (1 .. i) = IF i \in S THEN P \cup {i} ELSE P
    BY <1>2
  <2>3. IsFiniteSet(P) /\ Cardinality(P) \in Nat
    BY <1>1, <2>1 DEF Due
  <2> HIDE DEF P
  <2>4. Cardinality(P \cup {i}) = Cardinality(P) + 1
    BY <2>1, <2>3, FS_AddElement
  <2>5. Due(S, i - 1) = Cardinality(P)
    BY DEF Due, P
  <2>6. CASE i \in S
    <3>1. Due(S, i) = Cardinality(P \cup {i})
      BY <2>2, <2>6 DEF Due
    <3>2. QED
      BY <2>4, <2>5, <2>6, <3>1
  <2>7. CASE i \notin S
    <3>1. Due(S, i) = Cardinality(P)
      BY <2>2, <2>7 DEF Due
    <3>2. QED
      BY <2>3, <2>5, <2>7, <3>1
  <2>8. QED
    BY <2>6, <2>7
<1>3. QED
  BY <1>1, <1>2

\* The positions at which a message is delivered to a token.
PlacesOf(b, u, m) == {j \in MatchingSubs(b.subs, m) : b.subs[j].token = u}

\* Fan-out so far, with the positions up to i still to come: these are as they
\* were, and a client with room for all that is due to it at the start has room
\* for what is due to it still and a copy more for each round.
IsServed(a, b, u, m, i) ==
  LET due == PlacesOf(b, u, m)
  IN  Room(b.clients[u], Due(due, Len(b.subs))) =>
        /\ Room(a.clients[u], Due(due, i))
        /\ Copies(a.clients[u], m) + Due(due, i) = Copies(b.clients[u], m) + Due(due, Len(b.subs))
IsSpared(a, b, s, m) ==
  ~Matches(s.filter, m) \/ Room(b.clients[s.token], Due(PlacesOf(b, s.token, m), Len(b.subs))) =>
    Cardinality(Occurrences(a.subs, s)) = Cardinality(Occurrences(b.subs, s))
FanningOut(a, b, m, i) ==
  /\ a.sessions = b.sessions
  /\ \A j \in 1 .. i : a.subs[j] = b.subs[j]
  /\ \A u \in Token : IsServed(a, b, u, m, i)
  /\ \A s \in SubType : IsSpared(a, b, s, m)

\* One round takes fan-out one position further.
LEMMA RoundServes ==
  ASSUME NEW x, NEW b \in Keeps(x), NEW a \in Keeps(x), NEW m \in Msg, NEW qos \in 0..2,
         qos > 0 => m \in x.msgs,
         NEW i \in 1 .. Len(b.subs), i <= Len(a.subs), FanningOut(a, b, m, i)
  PROVE  FanningOut(IF i \in MatchingSubs(b.subs, m) THEN Deliver(a, m, qos, i) ELSE a, b, m, i - 1)
<1> DEFINE idxs == MatchingSubs(b.subs, m)
           n == Len(b.subs)
           next == Deliver(a, m, qos, i)
           t == b.subs[i].token
           D(u, k) == Due(PlacesOf(b, u, m), k)
<1>1. b.subs \in Seq(SubType) /\ n \in Nat /\ DOMAIN b.subs = 1 .. n /\ b.subs[i] \in SubType
      /\ a.subs \in Seq(SubType) /\ Len(a.subs) \in Nat
  <2>1. b.subs \in Seq(SubType) /\ a.subs \in Seq(SubType)
    BY DEF Keeps, GoodBroker
  <2>2. QED
    BY <2>1, LenProperties, ElementOfSeq
<1>2. i \in Nat /\ i # 0 /\ i \in 1 .. Len(a.subs) /\ i \in 1 .. i /\ 1 .. i - 1 \subseteq 1 .. i
  BY <1>1
<1>3. t \in Token
  BY <1>1 DEF SubType
<1>4. \A u \in Token : /\ D(u, i) \in Nat /\ D(u, i - 1) \in Nat /\ D(u, n) \in Nat
                       /\ D(u, i) = D(u, i - 1) + IF i \in idxs /\ t = u THEN 1 ELSE 0
  <2> SUFFICES ASSUME NEW u \in Token
               PROVE  /\ D(u, i) \in Nat /\ D(u, i - 1) \in Nat /\ D(u, n) \in Nat
                      /\ D(u, i) = D(u, i - 1) + IF i \in idxs /\ t = u THEN 1 ELSE 0
    OBVIOUS
  <2>1. i - 1 \in Nat
    BY <1>2
  <2>2. i \in PlacesOf(b, u, m) <=> i \in idxs /\ t = u
    BY DEF PlacesOf
  <2>3. /\ Due(PlacesOf(b, u, m), i) \in Nat /\ Due(PlacesOf(b, u, m), i - 1) \in Nat
        /\ Due(PlacesOf(b, u, m), n) \in Nat
        /\ Due(PlacesOf(b, u, m), i) =
             Due(PlacesOf(b, u, m), i - 1) + IF i \in PlacesOf(b, u, m) THEN 1 ELSE 0
    BY <1>1, <1>2, <2>1, DueStep
  <2>4. QED
    BY <2>2, <2>3
<1>5. /\ a.sessions = b.sessions /\ \A j \in 1 .. i : a.subs[j] = b.subs[j]
      /\ \A u \in Token : Room(b.clients[u], D(u, n)) =>
           /\ Room(a.clients[u], D(u, i))
           /\ Copies(a.clients[u], m) + D(u, i) = Copies(b.clients[u], m) + D(u, n)
      /\ \A s \in SubType : IsSpared(a, b, s, m)
  BY DEF FanningOut, IsServed
<1>6. CASE i \notin idxs
  <2>1. \A u \in Token : D(u, i) = D(u, i - 1)
    BY <1>4, <1>6
  <2> HIDE DEF D, n, idxs
  <2>2. \A u \in Token : IsServed(a, b, u, m, i - 1)
    BY <1>5, <2>1 DEF IsServed, D, n
  <2>3. FanningOut(a, b, m, i - 1)
    BY <1>2, <1>5, <2>2 DEF FanningOut
  <2>4. QED
    BY <1>6, <2>3 DEF idxs
<1>7. CASE i \in idxs
  <2>1. a.subs[i] = b.subs[i] /\ a.subs[i].token = t
    BY <1>2, <1>5
  <2>2. /\ next.sessions = a.sessions
        /\ \A j \in 1 .. i - 1 : next.subs[j] = a.subs[j]
        /\ \A u \in Token : u # t => next.clients[u] = a.clients[u]
        /\ \A s : s # b.subs[i] =>
             Cardinality(Occurrences(next.subs, s)) = Cardinality(Occurrences(a.subs, s))
        /\ \A k \in Nat : k # 0 /\ Room(a.clients[t], k) =>
             /\ Room(next.clients[t], k - 1)
             /\ Copies(next.clients[t], m) = Copies(a.clients[t], m) + 1
             /\ next.subs = a.subs
    <3>1. Local(next, a, i, m)
      BY <1>2, RoundIsLocal
    <3>2. a.subs[i] = b.subs[i]
      BY <2>1
    <3> HIDE DEF next
    <3>3. QED
      BY <3>1, <3>2 DEF Local
  <2> HIDE DEF next, idxs, n, D
  <2>3. ASSUME NEW u \in Token, Room(b.clients[u], D(u, n))
        PROVE  /\ Room(next.clients[u], D(u, i - 1))
               /\ Copies(next.clients[u], m) + D(u, i - 1) = Copies(b.clients[u], m) + D(u, n)
    <3>1. /\ Room(a.clients[u], D(u, i))
          /\ Copies(a.clients[u], m) + D(u, i) = Copies(b.clients[u], m) + D(u, n)
      BY <1>5, <2>3
    <3>2. CASE u = t
      <4>1. D(t, i) \in Nat /\ D(t, i) # 0 /\ D(t, i) - 1 = D(t, i - 1) /\ D(t, i - 1) \in Nat
        BY <1>3, <1>4, <1>7, SMTT(30)
      <4>2. /\ Room(next.clients[t], D(t, i) - 1)
            /\ Copies(next.clients[t], m) = Copies(a.clients[t], m) + 1
        BY <2>2, <3>1, <3>2, <4>1
      <4>3. Copies(a.clients[t], m) \in Nat
        <5>1. Connected(a, t)
          BY <3>1, <3>2 DEF Room, Connected
        <5>2. a.clients[t] \in ConnectedOf(x.msgs)
          BY <1>3, <5>1, LiveClient
        <5>3. QED
          BY <5>2, CopiesType
      <4>4. Copies(next.clients[t], m) + D(t, i - 1) = Copies(a.clients[t], m) + D(t, i)
        <5> DEFINE c == Copies(a.clients[t], m)
        <5>1. c \in Nat /\ Copies(next.clients[t], m) = c + 1
          BY <4>2, <4>3
        <5> HIDE DEF c
        <5>2. c + 1 + D(t, i - 1) = c + D(t, i)
          BY <4>1, <5>1
        <5>3. QED
          BY <5>1, <5>2 DEF c
      <4>5. QED
        BY <3>1, <3>2, <4>1, <4>2, <4>4
    <3>3. CASE u # t
      <4>1. next.clients[u] = a.clients[u] /\ D(u, i) = D(u, i - 1)
        BY <1>4, <2>2, <3>3
      <4>2. QED
        BY <3>1, <4>1
    <3>4. QED
      BY <3>2, <3>3
  <2>4. ASSUME NEW s \in SubType PROVE IsSpared(next, b, s, m)
    <3>1. CASE s # b.subs[i]
      BY <1>5, <2>2, <3>1 DEF IsSpared
    <3>2. CASE s = b.subs[i]
      <4>1. Matches(s.filter, m)
        BY <1>7, <3>2 DEF idxs, MatchingSubs
      <4>2. ASSUME Room(b.clients[t], D(t, n)) PROVE next.subs = a.subs
        <5>1. Room(a.clients[t], D(t, i))
          BY <1>3, <1>5, <4>2
        <5>2. D(t, i) \in Nat /\ D(t, i) # 0
          BY <1>3, <1>4, <1>7
        <5>3. QED
          BY <2>2, <5>1, <5>2
      <4>3. QED
        BY <1>5, <3>2, <4>1, <4>2 DEF IsSpared, D, n
    <3>3. QED
      BY <3>1, <3>2
  <2>5. \A u \in Token : IsServed(next, b, u, m, i - 1)
    BY <2>3 DEF IsServed, D, n
  <2>6. FanningOut(next, b, m, i - 1)
    BY <1>2, <1>5, <2>2, <2>4, <2>5 DEF FanningOut
  <2>7. QED
    BY <1>7, <2>6 DEF next, idxs
<1>8. QED
  BY <1>6, <1>7

\* The whole loop.
LEMMA LoopServes ==
  ASSUME NEW x, NEW b \in Keeps(x), NEW m \in Msg, NEW qos \in 0..2, qos > 0 => m \in x.msgs
  PROVE  FanningOut(DeliverAll(b, m, qos), b, m, 0)
<1> DEFINE n == Len(b.subs)
<1>1. n \in Nat
  <2>1. b.subs \in Seq(SubType)
    BY DEF Keeps, GoodBroker
  <2>2. QED
    BY <2>1, LenProperties
<1>2. PICK run : Delivering(run, b, m, qos, x)
  BY DeliverRun
<1>3. /\ run[0] = b /\ run[n] = DeliverAll(b, m, qos)
      /\ \A k \in 0 .. n : run[k] \in Keeps(x) /\ Len(run[k].subs) >= n - k
      /\ \A k \in 1 .. n :
           run[k] = IF n + 1 - k \in MatchingSubs(b.subs, m)
                    THEN Deliver(run[k - 1], m, qos, n + 1 - k) ELSE run[k - 1]
  BY <1>2 DEF Delivering
<1> DEFINE S == {k \in 0 .. n : FanningOut(run[k], b, m, n - k)}
<1>4. 0 \in S
  <2>1. n - 0 = n
    BY <1>1
  <2> HIDE DEF n
  <2>2. \A u \in Token : IsServed(b, b, u, m, n)
    BY DEF IsServed, n
  <2>3. FanningOut(b, b, m, n)
    BY <2>2 DEF FanningOut, IsSpared
  <2>4. QED
    BY <1>1, <1>3, <2>1, <2>3
<1>5. ASSUME NEW k \in 0 .. n - 1, k \in S PROVE k + 1 \in S
  <2> DEFINE i == n - k
             a == run[k]
  <2> HIDE DEF n
  <2>1. /\ k \in 0 .. n /\ k + 1 \in 1 .. n /\ k + 1 \in 0 .. n /\ (k + 1) - 1 = k
        /\ i \in 1 .. n /\ n + 1 - (k + 1) = i /\ n - (k + 1) = i - 1
    BY <1>1
  <2>2. a \in Keeps(x) /\ i <= Len(a.subs) /\ FanningOut(a, b, m, i)
    <3>1. Len(a.subs) \in Nat
      <4>1. a.subs \in Seq(SubType)
        BY <1>3, <2>1 DEF Keeps, GoodBroker
      <4>2. QED
        BY <4>1, LenProperties
    <3>2. QED
      BY <1>1, <1>3, <1>5, <2>1, <3>1
  <2>3. run[k + 1] = IF i \in MatchingSubs(b.subs, m) THEN Deliver(a, m, qos, i) ELSE a
    BY <1>3, <2>1
  <2> HIDE DEF a, i
  <2>4. FanningOut(IF i \in MatchingSubs(b.subs, m) THEN Deliver(a, m, qos, i) ELSE a, b, m, i - 1)
    BY <2>1, <2>2, RoundServes DEF n
  <2>5. FanningOut(run[k + 1], b, m, n - (k + 1))
    BY <2>1, <2>3, <2>4
  <2>6. QED
    BY <2>1, <2>5
<1> HIDE DEF S, n
<1>6. \A k \in 0 .. n : k \in S
  BY <1>1, <1>4, <1>5, IntervalInduction
<1>7. n \in S /\ n - n = 0
  BY <1>1, <1>6
<1>8. QED
  BY <1>3, <1>7 DEF S

\* Retaining and replying do not touch sessions, and retaining no client.
LEMMA OutsideFanOut ==
  ASSUME NEW x, NEW b \in Keeps(x), NEW t \in Token, NEW m, NEW qos
  PROVE  /\ Retain(b, m, qos).sessions = b.sessions /\ Retain(b, m, qos).subs = b.subs
         /\ Retain(b, m, qos).clients = b.clients
         /\ QueueReply(b, t).sessions = b.sessions /\ QueueReply(b, t).subs = b.subs
         /\ \A u \in Token : u # t => QueueReply(b, t).clients[u] = b.clients[u]
         /\ QueueReply(b, t).clients[t] =
              [b.clients[t] EXCEPT !.write_queue = Queue0(@, Reply)]
<1>1. b \in GoodBroker(x.msgs)
  BY DEF Keeps
<1>2. QED
  BY <1>1 DEF GoodBroker, Retain, QueueReply

\* An acknowledgement takes the place of at most one packet and is no copy.
LEMMA ReplyLeavesRoom ==
  ASSUME NEW x, NEW b \in Keeps(x), NEW t \in Token, NEW u \in Token, NEW n \in Nat,
         RoomIn(b, u, n), NEW m \in Msg
  PROVE  /\ Room(QueueReply(b, t).clients[u], n)
         /\ Copies(QueueReply(b, t).clients[u], m) = Copies(b.clients[u], m)
<1> DEFINE client == b.clients[u]
           q == client.write_queue
<1>1. Connected(b, u) /\ Room(client, n) /\ Len(q) + n < WRITE_QUEUE_CAP /\ Accepts0(q)
  <2>1. client \in ConnectedOf(x.msgs)
    BY LiveClient DEF RoomIn
  <2>2. q \in Seq(EntryOf(x.msgs)) /\ Len(q) \in Nat
    BY <2>1, LenProperties DEF ConnectedOf
  <2>3. Len(q) + n < WRITE_QUEUE_CAP
    BY DEF RoomIn
  <2>4. Len(q) + n <= WRITE_QUEUE_CAP /\ Len(q) < WRITE_QUEUE_CAP
    BY <2>2, <2>3, CapAssumption
  <2>5. QED
    BY <2>3, <2>4 DEF RoomIn, Room, Connected, Accepts0
<1>2. CASE u # t
  <2>1. \A v \in Token : v # t => QueueReply(b, t).clients[v] = b.clients[v]
    BY OutsideFanOut
  <2>2. QueueReply(b, t).clients[u] = client
    BY <1>2, <2>1
  <2>3. QED
    BY <1>1, <2>2
<1>3. CASE u = t
  <2> DEFINE e == Queued(FALSE, Reply)
             a == Append(q, e)
             next == [client EXCEPT !.write_queue = a]
  <2>1. client \in ConnectedOf(x.msgs)
    BY <1>1, LiveClient
  <2>2. q \in Seq(EntryOf(x.msgs)) /\ Len(q) \in Nat
    BY <2>1, LenProperties DEF ConnectedOf
  <2>3. e \in EntryOf(x.msgs) /\ e.pkt.msg # m
    BY BrokerAssumption DEF Queued, EntryOf, Reply
  <2>4. QueueReply(b, t).clients[u] = next
    <3>1. Queue0(q, Reply) = a
      BY <1>1 DEF Queue0
    <3>2. QueueReply(b, t).clients[t] = [b.clients[t] EXCEPT !.write_queue = Queue0(@, Reply)]
      BY OutsideFanOut
    <3>3. QED
      BY <1>3, <3>1, <3>2
  <2> HIDE DEF e
  <2>5. Len(a) = Len(q) + 1
    BY <2>2, <2>3, AppendEntry
  <2>6. Cardinality(CopyPlaces(a, m)) = Cardinality(CopyPlaces(q, m)) + 0
    BY <2>2, <2>3, AppendCopies
  <2>7. Copies(client, m) \in Nat
    BY <2>1, CopiesType
  <2> HIDE DEF a
  <2>8. /\ next.write_queue = a /\ next.in_flight = client.in_flight
        /\ next.next_pid = client.next_pid /\ next.connected
    BY <2>1 DEF ConnectedOf
  <2> HIDE DEF next
  <2>9. Room(next, n)
    <3>1. Len(a) + n <= WRITE_QUEUE_CAP
      BY <1>1, <2>2, <2>5, CapAssumption
    <3>2. QED
      BY <1>1, <2>8, <3>1 DEF Room
  <2>10. Copies(next, m) = Copies(client, m)
    BY <2>6, <2>7, <2>8 DEF Copies
  <2>11. QED
    BY <2>4, <2>9, <2>10
<1>4. QED
  BY <1>2, <1>3

\* Sessions that want the message get it as their last.
LEMMA StoreOfflineServes ==
  ASSUME NEW x, NEW b \in Keeps(x), NEW m \in Msg, NEW qos \in 0..2
  PROVE  /\ StoreOffline(b, m, qos).clients = b.clients
         /\ StoreOffline(b, m, qos).subs = b.subs
         /\ \A c \in Cid : qos > 0 /\ Wants(b.sessions[c], m) /\ HasRoom(b.sessions[c]) =>
              /\ StoreOffline(b, m, qos).sessions[c].offline # <<>>
              /\ Last(StoreOffline(b, m, qos).sessions[c].offline).msg = m
<1> DEFINE takers == {c \in Cid : Wants(b.sessions[c], m) /\ HasRoom(b.sessions[c])}
           held(c) == Held(m, LesserQos(qos, SessionQos(b.sessions[c], m)))
           store(c) == [b.sessions[c] EXCEPT !.offline = Append(@, held(c))]
           sessions == [c \in Cid |-> IF c \in takers THEN store(c) ELSE b.sessions[c]]
<1>1. b \in GoodBroker(x.msgs) /\ \A c \in Cid : b.sessions[c] \in GoodSession(x.msgs)
  BY DEF Keeps, GoodBroker
<1>2. CASE qos = 0 \/ takers = {}
  <2>1. StoreOffline(b, m, qos) = b
    BY <1>2 DEF StoreOffline
  <2>2. \A c \in Cid : ~(qos > 0 /\ Wants(b.sessions[c], m) /\ HasRoom(b.sessions[c]))
    BY <1>2
  <2>3. QED
    BY <2>1, <2>2
<1>3. CASE qos # 0 /\ takers # {}
  <2> DEFINE stored == StoreOffline(b, m, qos)
  <2>1. stored = [b EXCEPT !.sessions = sessions, !.dirty = TRUE]
    BY <1>3 DEF StoreOffline
  <2>2. ASSUME NEW c \in takers
        PROVE  sessions[c].offline # <<>> /\ Last(sessions[c].offline).msg = m
    <3> DEFINE H == [msg : x.msgs, qos : 0..2]
               off == b.sessions[c].offline
               new == Append(off, held(c))
    <3>1. b.sessions[c] \in StoredOf(x.msgs)
      BY <1>1, StoredSession DEF Wants
    <3>2. off \in Seq(H)
      BY <3>1 DEF StoredOf
    <3>3. sessions[c] = store(c) /\ store(c).offline = new /\ held(c).msg = m
      BY <3>1 DEF StoredOf, Held
    <3> HIDE DEF held, sessions, store, H
    <3>4. off \in Seq(H \cup {held(c)}) /\ held(c) \in H \cup {held(c)}
      BY <3>2, SeqMonotonic
    <3>5. Len(new) = Len(off) + 1 /\ new[Len(off) + 1] = held(c) /\ Len(off) \in Nat
      BY <3>4, AppendProperties, LenProperties, SMTT(30)
    <3> HIDE DEF new
    <3>6. new # <<>> /\ Last(new) = held(c)
      <4>1. Len(<<>>) = 0
        OBVIOUS
      <4>2. QED
        BY <3>5, <4>1 DEF Last
    <3>7. QED
      BY <3>3, <3>6
  <2> HIDE DEF sessions
  <2>3. stored.clients = b.clients /\ stored.subs = b.subs /\ stored.sessions = sessions
    BY <1>1, <2>1 DEF GoodBroker
  <2> HIDE DEF stored
  <2>4. \A c \in Cid : qos > 0 /\ Wants(b.sessions[c], m) /\ HasRoom(b.sessions[c]) => c \in takers
    OBVIOUS
  <2>5. QED
    BY <2>2, <2>3, <2>4 DEF stored
<1>4. QED
  BY <1>2, <1>3

\* Occurrences are what the property counts.
LEMMA SubCountOccurs ==
  ASSUME NEW b, b.subs \in Seq(SubType), NEW s
  PROVE  SubCount(b, s) = Cardinality(Occurrences(b.subs, s))
<1>1. DOMAIN b.subs = 1 .. Len(b.subs)
  BY LenProperties
<1>2. QED
  BY <1>1 DEF SubCount, Occurrences

\* publish serves everyone it should.
LEMMA PublishServes ==
  ASSUME NEW x, NEW b \in Keeps(x), NEW m \in Msg, NEW qos \in 0..2, qos > 0 => m \in x.msgs,
         NEW retain \in BOOLEAN
  PROVE  LET a == Publish(b, m, qos, retain)
         IN  /\ \A u \in Token : IsServed(a, b, u, m, 0)
             /\ \A s \in SubType : IsSpared(a, b, s, m)
             /\ \A c \in Cid : qos > 0 /\ Wants(b.sessions[c], m) /\ HasRoom(b.sessions[c]) =>
                  a.sessions[c].offline # <<>> /\ Last(a.sessions[c].offline).msg = m
<1> DEFINE kept == IF retain THEN Retain(b, m, qos) ELSE b
           sent == DeliverAll(kept, m, qos)
           a == StoreOffline(sent, m, qos)
<1>1. kept \in Keeps(x)
  BY RetainKeeps
<1>2. kept.sessions = b.sessions /\ kept.subs = b.subs /\ kept.clients = b.clients
  <2>1. 1 \in Token \/ Token = {}
    BY BrokerAssumption DEF Token
  <2>2. b \in GoodBroker(x.msgs)
    BY DEF Keeps
  <2>3. QED
    BY <2>2 DEF GoodBroker, Retain
<1>3. Publish(b, m, qos, retain) = a
  BY DEF Publish
<1> HIDE DEF kept
<1>4. sent \in Keeps(x) /\ FanningOut(sent, kept, m, 0)
  BY <1>1, DeliverAllKeeps, LoopServes
<1> HIDE DEF sent
<1>5. /\ sent.sessions = b.sessions
      /\ \A u \in Token : IsServed(sent, b, u, m, 0)
      /\ \A s \in SubType : IsSpared(sent, b, s, m)
  BY <1>2, <1>4 DEF FanningOut, IsServed, IsSpared, PlacesOf
<1>6. /\ a.clients = sent.clients /\ a.subs = sent.subs
      /\ \A c \in Cid : qos > 0 /\ Wants(sent.sessions[c], m) /\ HasRoom(sent.sessions[c]) =>
           a.sessions[c].offline # <<>> /\ Last(a.sessions[c].offline).msg = m
  BY <1>4, StoreOfflineServes
<1> HIDE DEF a
<1>7. (\A u \in Token : IsServed(a, b, u, m, 0)) /\ \A s \in SubType : IsSpared(a, b, s, m)
  BY <1>5, <1>6 DEF IsServed, IsSpared
<1>8. QED
  BY <1>3, <1>5, <1>6, <1>7

\* A message that is published reaches every connected subscriber with room for
\* it once for each matching subscription and every stored session with room,
\* and costs nobody with room and nobody it does not concern a subscription,
\* however many clients are dropped and subscriptions swap_removed on the way.
THEOREM FanOutReaches == Spec => FanOutComplete
<1>1. ASSUME IInv, NEW t \in Token, NEW m \in Msg, NEW qos \in PUB_QOS, NEW retain \in RETAIN,
             PublishPacket(t, m, qos, retain)
      PROVE  FannedOut(m, qos)
  <2> DEFINE x == Context(disk, Nothing, {})
             b == IF qos > 0 THEN QueueReply(broker, t) ELSE broker
             due(u) == PlacesOf(b, u, m)
             n == Len(b.subs)
  <2>1. /\ Running /\ Connected(broker, t) /\ broker' = Publish(b, m, qos, retain)
        /\ qos \in 0..2 /\ retain \in BOOLEAN
    BY <1>1, BrokerAssumption DEF PublishPacket, Is, Becomes
  <2>2. broker \in Keeps(x) /\ x.msgs = Msg
    BY <1>1, <2>1, RunningStanding, ContextFields DEF IInv
  <2> HIDE DEF x
  <2>3. b \in Keeps(x)
    BY <2>1, <2>2, QueueReplyKeeps
  <2>4. b.sessions = broker.sessions /\ b.subs = broker.subs
    BY <2>2, OutsideFanOut
  <2>5. \A u \in Token, k \in Nat : RoomIn(broker, u, k) =>
          Room(b.clients[u], k) /\ Copies(b.clients[u], m) = Copies(broker.clients[u], m)
    <3> SUFFICES ASSUME NEW u \in Token, NEW k \in Nat, RoomIn(broker, u, k)
                 PROVE  /\ Room(b.clients[u], k)
                        /\ Copies(b.clients[u], m) = Copies(broker.clients[u], m)
      OBVIOUS
    <3>1. CASE qos > 0
      BY <2>2, <3>1, ReplyLeavesRoom
    <3>2. CASE ~(qos > 0)
      <4>1. Room(broker.clients[u], k)
        <5>1. broker.clients[u] \in ConnectedOf(x.msgs)
          BY <2>2, LiveClient DEF RoomIn
        <5>2. Len(broker.clients[u].write_queue) \in Nat
          BY <5>1, LenProperties DEF ConnectedOf
        <5>3. Len(broker.clients[u].write_queue) + k <= WRITE_QUEUE_CAP
          BY <5>2, CapAssumption DEF RoomIn
        <5>4. QED
          BY <5>3 DEF Room, RoomIn, Connected
      <4>2. QED
        BY <3>2, <4>1
    <3>3. QED
      BY <3>1, <3>2
  <2> HIDE DEF b
  <2>6. broker' \in Keeps(x)
    BY <2>1, <2>2, <2>3, PublishKeeps
  <2>7. /\ \A u \in Token : IsServed(broker', b, u, m, 0)
        /\ \A s \in SubType : IsSpared(broker', b, s, m)
        /\ \A c \in Cid : qos > 0 /\ Wants(b.sessions[c], m) /\ HasRoom(b.sessions[c]) =>
             broker'.sessions[c].offline # <<>> /\ Last(broker'.sessions[c].offline).msg = m
    BY <2>1, <2>2, <2>3, PublishServes
  <2>8. b.subs \in Seq(SubType) /\ broker'.subs \in Seq(SubType) /\ n \in Nat /\ DOMAIN b.subs = 1 .. n
    <3>1. b.subs \in Seq(SubType) /\ broker'.subs \in Seq(SubType)
      BY <2>3, <2>6 DEF Keeps, GoodBroker
    <3>2. QED
      BY <3>1, LenProperties
  <2>9. \A u : Due(due(u), n) = Addressed(u, m) /\ Due(due(u), 0) = 0 /\ Due(due(u), n) \in Nat
    <3> SUFFICES ASSUME NEW u
                 PROVE  Due(due(u), n) = Addressed(u, m) /\ Due(due(u), 0) = 0 /\ Due(due(u), n) \in Nat
      OBVIOUS
    <3>1. due(u) = {i \in MatchingSubs(broker.subs, m) : broker.subs[i].token = u}
      BY <2>4 DEF PlacesOf
    <3>2. due(u) \cap (1 .. n) = due(u)
      BY <2>8 DEF PlacesOf, MatchingSubs
    <3>3. due(u) \cap (1 .. 0) = {}
      OBVIOUS
    <3> HIDE DEF due, n
    <3>4. Due(due(u), n) = Cardinality(due(u)) /\ Due(due(u), 0) = Cardinality({})
      BY <3>2, <3>3 DEF Due
    <3>5. Due(due(u), n) \in Nat
      BY <2>8, DueStep
    <3>6. QED
      BY <3>1, <3>4, <3>5, FS_EmptySet DEF Addressed
  <2>10. \A u \in Token : \A k : RoomFor(u, k) <=> RoomIn(broker, u, k)
    BY DEF RoomFor, RoomIn
  <2>11. \A u \in Token : RoomFor(u, Addressed(u, m)) =>
           Room(b.clients[u], Due(due(u), n)) /\ Copies(b.clients[u], m) = Copies(broker.clients[u], m)
    BY <2>5, <2>9, <2>10
  <2> HIDE DEF n
  <2>12. ASSUME NEW u \in Token, RoomFor(u, Addressed(u, m))
         PROVE  /\ Connected(broker', u)
                /\ CopiesOf(broker', u, m) = CopiesOf(broker, u, m) + Addressed(u, m)
    <3>1. /\ Room(broker'.clients[u], Due(due(u), 0))
          /\ Copies(broker'.clients[u], m) + Due(due(u), 0)
               = Copies(broker.clients[u], m) + Due(due(u), n)
      BY <2>7, <2>11, <2>12 DEF IsServed, n
    <3> HIDE DEF due
    <3>2. Connected(broker', u)
      BY <3>1 DEF Room, Connected
    <3>3. Copies(broker'.clients[u], m) \in Nat
      <4>1. broker'.clients[u] \in ConnectedOf(x.msgs)
        BY <2>6, <3>2, LiveClient
      <4>2. QED
        BY <4>1, CopiesType
    <3>4. /\ CopiesOf(broker', u, m) = Copies(broker'.clients[u], m)
          /\ CopiesOf(broker, u, m) = Copies(broker.clients[u], m)
      BY DEF CopiesOf, Copies, CopyPlaces
    <3>5. QED
      BY <2>9, <3>1, <3>2, <3>3, <3>4
  <2>13. ASSUME NEW s \in ToSet(broker.subs),
                ~Matches(s.filter, m) \/ RoomFor(s.token, Addressed(s.token, m))
         PROVE  SubCount(broker', s) = SubCount(broker, s)
    <3>1. s \in SubType
      BY <2>4, <2>8, ElementOfSeq DEF ToSet
    <3>2. s.token \in Token
      BY <3>1 DEF SubType
    <3>3. Cardinality(Occurrences(broker'.subs, s)) = Cardinality(Occurrences(b.subs, s))
      BY <2>7, <2>11, <2>13, <3>1, <3>2 DEF IsSpared, n
    <3>4. QED
      BY <2>4, <2>8, <3>3, SubCountOccurs
  <2>14. QED
    BY <2>4, <2>7, <2>12, <2>13 DEF FannedOut
<1>2. IInv /\ [Next]_vars =>
        [\A t \in Token, m \in Msg, qos \in PUB_QOS, retain \in RETAIN :
           order' # order /\ PublishPacket(t, m, qos, retain) => FannedOut(m, qos)]_vars
  BY <1>1
<1>3. QED
  BY <1>2, InGoodOrder, PTL DEF Spec, FanOutComplete
=============================================================================
