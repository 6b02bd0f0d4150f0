----------------------------- MODULE InboundProofs -----------------------------
(***************************************************************************)
(* Inbound QoS2, for every value of the constants: the types, that no      *)
(* packet id outlives its exchange in received_qos2, and that the PUBLISH  *)
(* and PUBREL handlers implement RouteOnce.                                *)
(*                                                                         *)
(* The argument is about order only.  Which packets of an exchange are     *)
(* under way, and in which order, is described by Contains and Precedes;   *)
(* every step but those that send keeps or thins these relations.          *)
(***************************************************************************)
EXTENDS InboundQos2, VectorProofs

----------------------------------------------------------------------------
(* Order in a channel and in a write queue.                                *)

Precedes(s, x, y) ==
  \E i, j \in 1 .. Len(s) : i < j /\ s[i] = x /\ s[j] = y

Holds(q, x) == \E i \in 1 .. Len(q) : q[i].pkt = x
HoldsBefore(q, x, y) ==
  \E i, j \in 1 .. Len(q) : i < j /\ q[i].pkt = x /\ q[j].pkt = y

\* What is sent comes after everything that is there.
LEMMA AppendOrder ==
  ASSUME NEW S, NEW s \in Seq(S), NEW e \in S
  PROVE  /\ \A x : Contains(Append(s, e), x) => Contains(s, x) \/ x = e
         /\ \A x, y : Precedes(Append(s, e), x, y) =>
                        Precedes(s, x, y) \/ (y = e /\ Contains(s, x))
<1>1. /\ Len(s) \in Nat /\ Len(Append(s, e)) = Len(s) + 1
      /\ \A i \in 1 .. Len(s) : Append(s, e)[i] = s[i]
      /\ Append(s, e)[Len(s) + 1] = e
  BY AppendProperties, LenProperties
<1> DEFINE t == Append(s, e)
<1> HIDE DEF t
<1>2. \A i \in 1 .. Len(t) : i \in 1 .. Len(s) \/ t[i] = e
  BY <1>1 DEF t
<1>3. \A x : Contains(t, x) => Contains(s, x) \/ x = e
  BY <1>1, <1>2 DEF Contains, t
<1>4. ASSUME NEW x, NEW y, Precedes(t, x, y), ~Precedes(s, x, y)
      PROVE  y = e /\ Contains(s, x)
  <2>1. PICK i, j \in 1 .. Len(t) : i < j /\ t[i] = x /\ t[j] = y
    BY <1>4 DEF Precedes
  <2>2. i \in 1 .. Len(s) /\ s[i] = x
    BY <2>1, <1>1 DEF t
  <2>3. j \notin 1 .. Len(s)
    BY <2>1, <2>2, <1>1, <1>4 DEF Precedes, t
  <2>4. QED
    BY <2>1, <2>2, <2>3, <1>2 DEF Contains
<1>5. QED
  BY <1>3, <1>4 DEF t

\* What is read came before everything that stays.
LEMMA TailOrder ==
  ASSUME NEW S, NEW s \in Seq(S), s # <<>>
  PROVE  /\ Contains(s, Head(s))
         /\ \A x : Contains(Tail(s), x) => Contains(s, x) /\ Precedes(s, Head(s), x)
         /\ \A x, y : Precedes(Tail(s), x, y) => Precedes(s, x, y)
<1>1. /\ Len(s) \in Nat /\ Len(s) >= 1 /\ Len(Tail(s)) = Len(s) - 1
      /\ \A i \in 1 .. Len(Tail(s)) : Tail(s)[i] = s[i + 1]
      /\ Head(s) = s[1]
  BY HeadTailProperties, LenProperties, EmptySeq
<1>2. QED
  BY <1>1 DEF Contains, Precedes

\* The same for the write queue.
LEMMA QueueAppendOrder ==
  ASSUME NEW P, NEW q \in QueueOf(P), NEW e \in [rel : BOOLEAN, pkt : P]
  PROVE  /\ \A x : Holds(Append(q, e), x) => Holds(q, x) \/ x = e.pkt
         /\ \A x, y : HoldsBefore(Append(q, e), x, y) =>
                        HoldsBefore(q, x, y) \/ (y = e.pkt /\ Holds(q, x))
<1> DEFINE E == [rel : BOOLEAN, pkt : P]
<1>1. /\ Len(q) \in Nat /\ Len(Append(q, e)) = Len(q) + 1
      /\ \A i \in 1 .. Len(q) : Append(q, e)[i] = q[i]
      /\ Append(q, e)[Len(q) + 1] = e
  <2>1. q \in Seq(E) /\ e \in E
    BY DEF QueueOf
  <2> HIDE DEF E
  <2>2. QED
    BY <2>1, AppendProperties, LenProperties
<1> DEFINE t == Append(q, e)
<1> HIDE DEF t
<1>2. \A i \in 1 .. Len(t) : i \in 1 .. Len(q) \/ t[i] = e
  BY <1>1 DEF t
<1>3. \A x : Holds(t, x) => Holds(q, x) \/ x = e.pkt
  BY <1>1, <1>2 DEF Holds, t
<1>4. ASSUME NEW x, NEW y, HoldsBefore(t, x, y), ~HoldsBefore(q, x, y)
      PROVE  y = e.pkt /\ Holds(q, x)
  <2>1. PICK i, j \in 1 .. Len(t) : i < j /\ t[i].pkt = x /\ t[j].pkt = y
    BY <1>4 DEF HoldsBefore
  <2>2. i \in 1 .. Len(q) /\ q[i].pkt = x
    BY <2>1, <1>1 DEF t
  <2>3. j \notin 1 .. Len(q)
    BY <2>1, <2>2, <1>1, <1>4 DEF HoldsBefore, t
  <2>4. QED
    BY <2>1, <2>2, <2>3, <1>2 DEF Holds
<1>5. QED
  BY <1>3, <1>4 DEF t

\* Taking the head off a write queue loses packets and keeps the order of the rest.
LEMMA QueueTailOrder ==
  ASSUME NEW P, NEW q \in QueueOf(P), q # <<>>
  PROVE  /\ Head(q) \in [rel : BOOLEAN, pkt : P] /\ Tail(q) \in QueueOf(P)
         /\ Len(Tail(q)) = Len(q) - 1
         /\ Holds(q, Head(q).pkt)
         /\ \A x : Holds(Tail(q), x) => Holds(q, x) /\ HoldsBefore(q, Head(q).pkt, x)
         /\ \A x, y : HoldsBefore(Tail(q), x, y) => HoldsBefore(q, x, y)
<1> DEFINE E == [rel : BOOLEAN, pkt : P]
<1>1. /\ Len(q) \in Nat /\ Len(q) >= 1 /\ Len(Tail(q)) = Len(q) - 1
      /\ \A i \in 1 .. Len(Tail(q)) : Tail(q)[i] = q[i + 1]
      /\ Head(q) = q[1] /\ Head(q) \in E /\ Tail(q) \in Seq(E)
  <2>1. q \in Seq(E)
    BY DEF QueueOf
  <2> HIDE DEF E
  <2>2. QED
    BY <2>1, HeadTailProperties, LenProperties, EmptySeq
<1>2. Head(q) \in E /\ Tail(q) \in QueueOf(P)
  BY <1>1 DEF QueueOf
<1>3. QED
  BY <1>1, <1>2 DEF Holds, HoldsBefore

\* An eviction removes one packet and moves no other past another.
LEMMA DropAtOrder ==
  ASSUME NEW P, NEW q \in QueueOf(P), NEW k \in 1 .. Len(q)
  PROVE  /\ \A x : Holds(DropAt(q, k), x) => Holds(q, x)
         /\ \A x, y : HoldsBefore(DropAt(q, k), x, y) => HoldsBefore(q, x, y)
<1> DEFINE E == [rel : BOOLEAN, pkt : P]
<1> DEFINE d == DropAt(q, k)
<1> DEFINE f(i) == IF i < k THEN i ELSE i + 1
<1>1. q \in Seq(E)
  BY DEF QueueOf
<1> HIDE DEF E
<1>2. Len(q) \in Nat /\ Len(d) = Len(q) - 1
  BY <1>1, LenProperties, DropAtShorter
<1>3. \A i \in 1 .. Len(d) : d[i] = q[f(i)]
  <2> DEFINE s == SubSeq(q, 1, k-1)
             t == SubSeq(q, k+1, Len(q))
  <2>1. s \in Seq(E) /\ Len(s) = k - 1 /\ \A i \in 1 .. k-1 : s[i] = q[i]
    <3>1. \A i \in 1 .. k-1 : q[i] \in E
      BY <1>1, <1>2, ElementOfSeq
    <3>2. QED
      BY <3>1, <1>2, SubSeqProperties
  <2>2. t \in Seq(E) /\ Len(t) = Len(q) - k /\ \A i \in 1 .. Len(q) - k : t[i] = q[k + i]
    <3>1. \A i \in k+1 .. Len(q) : q[i] \in E
      BY <1>1, <1>2, ElementOfSeq
    <3>2. QED
      BY <3>1, <1>2, SubSeqProperties
  <2> HIDE DEF s, t
  <2>3. /\ Len(s \o t) = Len(s) + Len(t)
        /\ \A i \in 1 .. Len(s) + Len(t) : (s \o t)[i] = IF i <= Len(s) THEN s[i] ELSE t[i - Len(s)]
    BY <2>1, <2>2, ConcatProperties
  <2>4. d = s \o t
    BY DEF DropAt, s, t
  <2> HIDE DEF d
  <2>5. ASSUME NEW i \in 1 .. Len(d) PROVE d[i] = q[f(i)]
    <3>1. i \in Nat /\ i >= 1 /\ i <= Len(q) - 1 /\ k \in Nat /\ k <= Len(q)
      BY <1>2
    <3>2. d[i] = IF i <= Len(s) THEN s[i] ELSE t[i - Len(s)]
      BY <2>1, <2>2, <2>3, <2>4, <3>1, <1>2
    <3>3. CASE i < k
      BY <3>1, <3>2, <3>3, <2>1
    <3>4. CASE ~(i < k)
      <4>1. i - Len(s) = i - k + 1 /\ i - k + 1 \in 1 .. Len(q) - k /\ k + (i - k + 1) = i + 1
        BY <3>1, <3>4, <2>1, <1>2
      <4>2. t[i - k + 1] = q[k + (i - k + 1)]
        BY <4>1, <2>2
      <4>3. QED
        BY <3>1, <3>2, <3>4, <4>1, <4>2, <2>1
    <3>5. QED
      BY <3>3, <3>4
  <2>6. QED
    BY <2>5
<1>4. /\ \A i \in 1 .. Len(d) : f(i) \in 1 .. Len(q)
      /\ \A i, j \in 1 .. Len(d) : i < j => f(i) < f(j)
  BY <1>2
<1> HIDE DEF d, f
<1>5. QED
  <2>1. \A x : Holds(d, x) => Holds(q, x)
    BY <1>3, <1>4 DEF Holds
  <2>2. \A x, y : HoldsBefore(d, x, y) => HoldsBefore(q, x, y)
    BY <1>3, <1>4 DEF HoldsBefore
  <2>3. QED
    BY <2>1, <2>2 DEF d

\* queue_qos0 and queue_qos1: the packet goes behind all that stays.
LEMMA Queue0Order ==
  ASSUME NEW P, NEW q \in QueueOf(P), NEW e \in P
  PROVE  /\ \A x : Holds(Queue0(q, e), x) => Holds(q, x) \/ x = e
         /\ \A x, y : HoldsBefore(Queue0(q, e), x, y) =>
                        HoldsBefore(q, x, y) \/ (y = e /\ Holds(q, x))
<1>1. Queued(FALSE, e) \in [rel : BOOLEAN, pkt : P] /\ Queued(FALSE, e).pkt = e
  BY DEF Queued
<1>2. CASE Accepts0(q)
  BY <1>1, <1>2, QueueAppendOrder DEF Queue0
<1>3. CASE ~Accepts0(q)
  BY <1>3 DEF Queue0
<1>4. QED
  BY <1>2, <1>3

\* A forward of QoS 1 or 2, whatever it evicts and wherever it goes, loses packets
\* of the queue, keeps the order of the rest and goes before none of them.
LEMMA Queue1Order ==
  ASSUME NEW P, NEW q \in QueueOf(P), NEW e \in P, Accepts1(q)
  PROVE  /\ \A x : Holds(Queue1(q, e), x) => Holds(q, x) \/ x = e
         /\ \A x, y : HoldsBefore(Queue1(q, e), x, y) =>
                        HoldsBefore(q, x, y) \/ (y = e /\ Holds(q, x))
<1>1. Queued(TRUE, e) \in [rel : BOOLEAN, pkt : P] /\ Queued(TRUE, e).pkt = e
  BY DEF Queued
<1>2. /\ Evict(q) \in QueueOf(P)
      /\ \A x : Holds(Evict(q), x) => Holds(q, x)
      /\ \A x, y : HoldsBefore(Evict(q), x, y) => HoldsBefore(q, x, y)
  <2>1. CASE Accepts0(q)
    BY <2>1 DEF Evict
  <2>2. CASE ~Accepts0(q)
    <3>1. FirstQos0(q) \in 1 .. Len(q)
      BY <2>2, FirstQos0Found DEF Accepts1
    <3>2. DropAt(q, FirstQos0(q)) \in QueueOf(P)
      BY <3>1, DropAtShorter DEF QueueOf
    <3>3. QED
      BY <2>2, <3>1, <3>2, DropAtOrder DEF Evict
  <2>3. QED
    BY <2>1, <2>2
<1>3. QED
  BY <1>1, <1>2, QueueAppendOrder DEF Queue1

----------------------------------------------------------------------------
(* The inductive invariant.                                                *)

\* Acknowledgements on their way to the publisher: those in the socket are
\* ahead of those in the write queue.
OnWay(d, q, x) == Contains(d, x) \/ Holds(q, x)
OnWayBefore(d, q, x, y) ==
  Precedes(d, x, y) \/ HoldsBefore(q, x, y) \/ (Contains(d, x) /\ Holds(q, y))

\* Packet id p, whose exchange is ex, with u, d and q the two directions of the
\* socket and the write queue, known the ids in received_qos2 and routed the
\* messages routed on this connection.
\*  - A PUBLISH under way is of the exchange that runs.
\*  - No PUBREC is under way when no exchange runs.
\*  - Before PUBREC is read, the PUBRELs and PUBCOMPs under way are left over from
\*    the exchange before: they are ahead of the PUBLISHes and the PUBRECs.
\*  - After that it is the other way round: PUBLISHes and PUBRECs are left over
\*    from the first half, and once PUBCOMP is under way nothing of it can put p
\*    back into received_qos2.
Consistent(p, ex, u, d, q, known, routed) ==
  /\ \A m \in Msg : Contains(u, Publish(p, m)) => ex # Idle /\ ex.msg = m
  /\ p \in known => ex # Idle /\ ex.msg \in routed
  /\ ex = Idle => ~OnWay(d, q, Ack("PUBREC", p))
  /\ ex.phase = "rec" =>
       /\ \A m \in Msg : ~Precedes(u, Publish(p, m), Pubrel(p))
       /\ Contains(u, Pubrel(p)) => p \notin known /\ ~OnWay(d, q, Ack("PUBREC", p))
       /\ ~OnWayBefore(d, q, Ack("PUBREC", p), Ack("PUBCOMP", p))
  /\ ex.phase = "comp" =>
       /\ \A m \in Msg : ~Precedes(u, Pubrel(p), Publish(p, m))
       /\ OnWay(d, q, Ack("PUBCOMP", p)) =>
            p \notin known /\ \A m \in Msg : ~Contains(u, Publish(p, m))
       /\ ~OnWayBefore(d, q, Ack("PUBCOMP", p), Ack("PUBREC", p))

PidOK(p) ==
  Consistent(p, exchange[p], up, down, write_queue, received_qos2, RoutedIn(conn))

\* A client that is gone leaves nothing behind.
GoneOK ==
  ~connected => up = <<>> /\ down = <<>> /\ write_queue = <<>> /\ received_qos2 = {}

IInv == TypeOK /\ GoneOK /\ \A p \in Pid : PidOK(p)

----------------------------------------------------------------------------
(* What steps do to the packets under way.                                 *)

AckType == {"PUBREC", "PUBCOMP"}

\* Packets are told apart by their kind, their id and their message.
LEMMA PacketsDiffer ==
  /\ \A p, r \in Pid : \A m, n \in Msg :
       /\ Publish(p, m) # Pubrel(r)
       /\ Publish(p, m) = Publish(r, n) => p = r /\ m = n
  /\ \A p, r \in Pid : Pubrel(p) = Pubrel(r) => p = r
  /\ \A p, r \in Pid : \A t, t2 \in AckType :
       /\ Ack(t, p) # Forward
       /\ Ack(t, p) = Ack(t2, r) => p = r /\ t = t2
BY DEF Publish, Pubrel, Ack, Forward, AckType

\* u2 has no packet of p, and no two in an order, that u has not.
LessUp(p, u2, u) ==
  /\ Contains(u2, Pubrel(p)) => Contains(u, Pubrel(p))
  /\ \A m \in Msg :
       /\ Contains(u2, Publish(p, m)) => Contains(u, Publish(p, m))
       /\ Precedes(u2, Publish(p, m), Pubrel(p)) => Precedes(u, Publish(p, m), Pubrel(p))
       /\ Precedes(u2, Pubrel(p), Publish(p, m)) => Precedes(u, Pubrel(p), Publish(p, m))

LessAcks(p, d2, q2, d, q) ==
  \A t, t2 \in AckType :
    /\ OnWay(d2, q2, Ack(t, p)) => OnWay(d, q, Ack(t, p))
    /\ OnWayBefore(d2, q2, Ack(t, p), Ack(t2, p)) => OnWayBefore(d, q, Ack(t, p), Ack(t2, p))

\* Packets that are read, lost or evicted disturb no exchange.
LEMMA Thinner ==
  ASSUME NEW p \in Pid, NEW ex, NEW u, NEW u2, NEW d, NEW d2, NEW q, NEW q2,
         NEW known, NEW known2, NEW routed, NEW routed2,
         Consistent(p, ex, u, d, q, known, routed),
         p \in known2 => p \in known, routed \subseteq routed2,
         LessUp(p, u2, u), LessAcks(p, d2, q2, d, q)
  PROVE  Consistent(p, ex, u2, d2, q2, known2, routed2)
BY DEF Consistent, LessUp, LessAcks, AckType

\* With no packet in flight and an empty queue, nothing concerns any id.
LEMMA NothingUnderWay ==
  ASSUME NEW p, NEW ex, NEW routed
  PROVE  Consistent(p, ex, <<>>, <<>>, <<>>, {}, routed)
<1>1. Len(<<>>) = 0
  OBVIOUS
<1>2. \A x, y : ~Contains(<<>>, x) /\ ~Precedes(<<>>, x, y) /\ ~Holds(<<>>, x) /\ ~HoldsBefore(<<>>, x, y)
  BY <1>1 DEF Contains, Precedes, Holds, HoldsBefore
<1>3. QED
  BY <1>2 DEF Consistent, OnWay, OnWayBefore

\* Nothing of p changes where nothing changes.
LEMMA LessSame ==
  ASSUME NEW p, NEW u, NEW d, NEW q
  PROVE  LessUp(p, u, u) /\ LessAcks(p, d, q, d, q)
BY DEF LessUp, LessAcks

\* Sending a packet of another id, or reading one.
LEMMA LessUpAppend ==
  ASSUME NEW u \in Seq(UpPacket), NEW e \in UpPacket, NEW p,
         e # Pubrel(p), \A m \in Msg : e # Publish(p, m)
  PROVE  LessUp(p, Append(u, e), u)
BY AppendOrder DEF LessUp

\* A packet the broker reads is the only one to leave the way up.
LEMMA LessUpTail ==
  ASSUME NEW u \in Seq(UpPacket), u # <<>>, NEW p
  PROVE  LessUp(p, Tail(u), u)
BY TailOrder DEF LessUp

\* The publisher reads an acknowledgement.
LEMMA ReadAcks ==
  ASSUME NEW d \in Seq(DownPacket), d # <<>>, NEW q
  PROVE  /\ \A p : LessAcks(p, Tail(d), q, d, q)
         /\ OnWay(d, q, Head(d))
         /\ \A x : OnWay(Tail(d), q, x) => OnWayBefore(d, q, Head(d), x)
BY TailOrder DEF LessAcks, OnWay, OnWayBefore

\* flush_writes moves one to the socket.
LEMMA FlushAcks ==
  ASSUME NEW d \in Seq(DownPacket), NEW q \in QueueOf(DownPacket), q # <<>>, NEW p
  PROVE  LessAcks(p, Append(d, Head(q).pkt), Tail(q), d, q)
<1> DEFINE h == Head(q).pkt
           d2 == Append(d, h)
           q2 == Tail(q)
<1>1. /\ h \in DownPacket /\ Holds(q, h)
      /\ \A x : Holds(q2, x) => Holds(q, x) /\ HoldsBefore(q, h, x)
      /\ \A x, y : HoldsBefore(q2, x, y) => HoldsBefore(q, x, y)
  BY QueueTailOrder
<1>2. /\ \A x : Contains(d2, x) => Contains(d, x) \/ x = h
      /\ \A x, y : Precedes(d2, x, y) => Precedes(d, x, y) \/ (y = h /\ Contains(d, x))
  BY <1>1, AppendOrder
<1> HIDE DEF h, d2, q2
<1>3. \A x : OnWay(d2, q2, x) => OnWay(d, q, x)
  BY <1>1, <1>2 DEF OnWay
<1>4. \A x, y : OnWayBefore(d2, q2, x, y) => OnWayBefore(d, q, x, y)
  BY <1>1, <1>2 DEF OnWayBefore
<1>5. QED
  BY <1>3, <1>4 DEF LessAcks, h, d2, q2

\* A packet is queued, perhaps after an eviction.
LEMMA QueueAcks ==
  ASSUME NEW d, NEW q, NEW q2, NEW e,
         \A x : Holds(q2, x) => Holds(q, x) \/ x = e,
         \A x, y : HoldsBefore(q2, x, y) => HoldsBefore(q, x, y) \/ (y = e /\ Holds(q, x))
  PROVE  /\ \A x : OnWay(d, q2, x) => OnWay(d, q, x) \/ x = e
         /\ \A x, y : OnWayBefore(d, q2, x, y) =>
                        OnWayBefore(d, q, x, y) \/ (y = e /\ OnWay(d, q, x))
BY DEF OnWay, OnWayBefore

\* A packet that acknowledges nothing of p adds no acknowledgement of p on the way.
LEMMA LessAcksQueued ==
  ASSUME NEW d, NEW q, NEW q2, NEW e, NEW p, \A t \in AckType : e # Ack(t, p),
         \A x : OnWay(d, q2, x) => OnWay(d, q, x) \/ x = e,
         \A x, y : OnWayBefore(d, q2, x, y) =>
                      OnWayBefore(d, q, x, y) \/ (y = e /\ OnWay(d, q, x))
  PROVE  LessAcks(p, d, q2, d, q)
BY DEF LessAcks

\* Of two packets in order, both are there.
LEMMA BeforeMeansThere ==
  /\ \A s, x, y : Precedes(s, x, y) => Contains(s, x) /\ Contains(s, y)
  /\ \A d, q, x, y : OnWayBefore(d, q, x, y) => OnWay(d, q, x) /\ OnWay(d, q, y)
BY DEF Precedes, Contains, Holds, HoldsBefore, OnWay, OnWayBefore

\* Steps that leave routings and conn alone route nothing on this connection.
LEMMA RoutedSame ==
  ASSUME UNCHANGED <<routings, conn>>
  PROVE  RoutedIn(conn)' = RoutedIn(conn)
BY DEF RoutedIn

\* What the exchange of an id can be.
LEMMA ExchangeType ==
  ASSUME TypeOK, NEW p \in Pid
  PROVE  \/ exchange[p] = Idle
         \/ /\ exchange[p] # Idle /\ exchange[p].phase \in {"rec", "comp"}
            /\ exchange[p].msg \in Msg
BY DEF TypeOK, Idle

\* PUBREC moves an exchange on and changes nothing else of it.
LEMMA AnsweredExchange ==
  ASSUME TypeOK, NEW pid \in Open, exchange' = [exchange EXCEPT ![pid].phase = "comp"]
  PROVE  /\ exchange[pid] # Idle /\ exchange[pid].phase \in {"rec", "comp"} /\ exchange[pid].msg \in Msg
         /\ exchange'[pid] # Idle /\ exchange'[pid].phase = "comp"
         /\ exchange'[pid].msg = exchange[pid].msg
         /\ exchange' \in [Pid -> {Idle} \cup [phase : {"rec", "comp"}, msg : Msg]]
         /\ \A p \in Pid : p # pid => exchange'[p] = exchange[p]
<1>1. /\ exchange \in [Pid -> {Idle} \cup [phase : {"rec", "comp"}, msg : Msg]]
      /\ pid \in Pid /\ exchange[pid] # Idle
  BY DEF TypeOK, Open
<1>2. exchange[pid] \in [phase : {"rec", "comp"}, msg : Msg]
  BY <1>1
<1>3. [exchange[pid] EXCEPT !.phase = "comp"] \in [phase : {"rec", "comp"}, msg : Msg]
  BY <1>2
<1>4. /\ exchange'[pid] = [exchange[pid] EXCEPT !.phase = "comp"]
      /\ exchange'[pid].phase = "comp" /\ exchange'[pid].msg = exchange[pid].msg
  BY <1>1, <1>2
<1>5. exchange'[pid] # Idle
  BY <1>4 DEF Idle
<1>6. exchange' \in [Pid -> {Idle} \cup [phase : {"rec", "comp"}, msg : Msg]]
  BY <1>1, <1>3
<1>7. QED
  BY <1>1, <1>2, <1>4, <1>5, <1>6

\* What the broker reads.
LEMMA UpHead ==
  ASSUME TypeOK, up # <<>>
  PROVE  /\ Tail(up) \in Seq(UpPacket)
         /\ Head(up).type = "PUBLISH" =>
              \E p \in Pid, m \in Msg : Head(up) = Publish(p, m)
         /\ Head(up).type = "PUBREL" => \E p \in Pid : Head(up) = Pubrel(p)
<1>1. Head(up) \in UpPacket /\ Tail(up) \in Seq(UpPacket)
  BY HeadTailProperties DEF TypeOK
<1>2. QED
  BY <1>1 DEF UpPacket, Publish, Pubrel

----------------------------------------------------------------------------
(* The steps of the publisher.                                             *)

\* No exchange is open at the start, so the invariant holds of it.
LEMMA InitOK == Init => IInv
<1> SUFFICES ASSUME Init PROVE IInv
  OBVIOUS
<1>1. TypeOK
  BY CapAssumption, InboundAssumption, EmptySeq DEF Init, TypeOK
<1>2. GoneOK
  BY DEF Init, GoneOK
<1>3. \A p \in Pid : PidOK(p)
  BY NothingUnderWay DEF Init, PidOK
<1>4. QED
  BY <1>1, <1>2, <1>3 DEF IInv

\* Start: under an idle id no PUBLISH and no PUBREC is left, so what is left is
\* ahead of the new PUBLISH.
LEMMA StartOK ==
  ASSUME IInv, NEW pid \in Pid, NEW m \in Msg, Start(pid, m)
  PROVE  IInv'
<1> DEFINE pub == Publish(pid, m)
<1>1. TypeOK /\ \A p \in Pid : PidOK(p)
  BY DEF IInv
<1>2. pub \in UpPacket /\ up \in Seq(UpPacket)
  BY <1>1 DEF UpPacket, TypeOK
<1>3. /\ exchange[pid] = Idle /\ exchange' = [exchange EXCEPT ![pid] = Awaits("rec", m)]
      /\ exchange \in [Pid -> {Idle} \cup [phase : {"rec", "comp"}, msg : Msg]]
      /\ up' = Append(up, pub) /\ connected /\ connected'
      /\ UNCHANGED <<complete, received_qos2, write_queue, down, conn, forwards, routings>>
  BY <1>1 DEF Start, client, TypeOK
<1> HIDE DEF pub
<1>4. TypeOK'
  <2>1. Append(up, pub) \in Seq(UpPacket)
    BY <1>2, AppendProperties
  <2>2. exchange' \in [Pid -> {Idle} \cup [phase : {"rec", "comp"}, msg : Msg]]
    BY <1>3 DEF Awaits
  <2>3. QED
    BY <1>1, <1>3, <2>1, <2>2 DEF TypeOK
<1>5. GoneOK'
  BY <1>3 DEF GoneOK
<1>6. ASSUME NEW p \in Pid PROVE PidOK(p)'
  <2>1. PidOK(p) /\ RoutedIn(conn)' = RoutedIn(conn)
    BY <1>1, <1>3, RoutedSame
  <2>2. CASE p # pid
    <3>1. LessUp(p, up', up)
      BY <1>2, <1>3, <2>2, LessUpAppend, PacketsDiffer DEF pub
    <3>2. LessAcks(p, down', write_queue', down, write_queue)
      BY <1>3, LessSame
    <3>3. exchange'[p] = exchange[p]
      BY <1>3, <2>2
    <3>4. QED
      BY <1>3, <2>1, <3>1, <3>2, <3>3, Thinner DEF PidOK
  <2>3. CASE p = pid
    <3>1. /\ \A n \in Msg : ~Contains(up, Publish(p, n))
          /\ p \notin received_qos2 /\ ~OnWay(down, write_queue, Ack("PUBREC", p))
      BY <1>3, <2>1, <2>3 DEF PidOK, Consistent
    <3>2. /\ exchange'[p] # Idle /\ exchange'[p].msg = m /\ exchange'[p].phase = "rec"
      BY <1>3, <2>3 DEF Awaits, Idle
    <3>3. \A n \in Msg : ~Precedes(up', Publish(p, n), Pubrel(p))
      BY <1>2, <1>3, <2>3, <3>1, AppendOrder, BeforeMeansThere, PacketsDiffer DEF pub
    <3>4. \A n \in Msg : Contains(up', Publish(p, n)) => n = m
      BY <1>2, <1>3, <2>3, <3>1, AppendOrder, PacketsDiffer DEF pub
    <3>5. ~OnWayBefore(down, write_queue, Ack("PUBREC", p), Ack("PUBCOMP", p))
      BY <3>1, BeforeMeansThere
    <3>6. QED
      BY <1>3, <3>1, <3>2, <3>3, <3>4, <3>5 DEF PidOK, Consistent
  <2>4. QED
    BY <2>2, <2>3
<1>7. QED
  BY <1>4, <1>5, <1>6 DEF IInv

\* Resend: another PUBLISH before PUBREC, another PUBREL after it.
LEMMA ResendOK ==
  ASSUME IInv, NEW pid \in Pid, Resend(pid)
  PROVE  IInv'
<1> DEFINE pkt == Unanswered(pid)
<1>1. TypeOK /\ \A p \in Pid : PidOK(p)
  BY DEF IInv
<1>2. /\ exchange[pid] # Idle /\ connected /\ connected' /\ up' = Append(up, pkt)
      /\ up \in Seq(UpPacket) /\ down' = down /\ write_queue' = write_queue
      /\ exchange' = exchange /\ received_qos2' = received_qos2
      /\ UNCHANGED <<complete, conn, forwards, routings>>
  BY <1>1 DEF Resend, Open, client, publisher, TypeOK
<1>3. \/ exchange[pid].phase = "rec" /\ exchange[pid].msg \in Msg
         /\ pkt = Publish(pid, exchange[pid].msg)
      \/ exchange[pid].phase = "comp" /\ pkt = Pubrel(pid)
  BY <1>1, <1>2, ExchangeType DEF Unanswered
<1>4. pkt \in UpPacket
  BY <1>3 DEF UpPacket
<1> HIDE DEF pkt
<1>5. TypeOK'
  <2>1. Append(up, pkt) \in Seq(UpPacket)
    BY <1>2, <1>4, AppendProperties
  <2>2. QED
    BY <1>1, <1>2, <2>1 DEF TypeOK
<1>6. GoneOK'
  BY <1>2 DEF GoneOK
<1>7. ASSUME NEW p \in Pid PROVE PidOK(p)'
  <2>1. PidOK(p) /\ RoutedIn(conn)' = RoutedIn(conn)
    BY <1>1, <1>2, RoutedSame
  <2>2. CASE p # pid
    <3>1. LessUp(p, up', up)
      BY <1>2, <1>3, <1>4, <2>2, LessUpAppend, PacketsDiffer
    <3>2. LessAcks(p, down', write_queue', down, write_queue)
      BY <1>2, LessSame
    <3>3. QED
      BY <1>2, <2>1, <3>1, <3>2, Thinner DEF PidOK
  <2>3. CASE p = pid /\ exchange[pid].phase = "rec"
    <3>1. pkt = Publish(p, exchange[p].msg) /\ exchange[p].msg \in Msg
      BY <1>3, <2>3
    <3>2. /\ \A n \in Msg : Contains(up', Publish(p, n)) => n = exchange[p].msg
          /\ Contains(up', Pubrel(p)) => Contains(up, Pubrel(p))
          /\ \A n \in Msg : ~Precedes(up', Publish(p, n), Pubrel(p))
      BY <1>2, <1>4, <2>1, <2>3, <3>1, AppendOrder, PacketsDiffer DEF PidOK, Consistent
    <3>3. QED
      BY <1>2, <2>1, <2>3, <3>2 DEF PidOK, Consistent
  <2>4. CASE p = pid /\ exchange[pid].phase = "comp"
    <3>1. pkt = Pubrel(p)
      BY <1>3, <2>4
    <3>2. \A n \in Msg :
            /\ Contains(up', Publish(p, n)) => Contains(up, Publish(p, n))
            /\ ~Precedes(up', Pubrel(p), Publish(p, n))
      BY <1>2, <1>4, <2>1, <2>4, <3>1, AppendOrder, PacketsDiffer DEF PidOK, Consistent
    <3>3. QED
      BY <1>2, <2>1, <2>4, <3>2 DEF PidOK, Consistent
  <2>5. QED
    BY <1>3, <2>2, <2>3, <2>4
<1>8. QED
  BY <1>5, <1>6, <1>7 DEF IInv

\* Reading an acknowledgement: PUBREC can only be of the exchange that runs, and
\* no PUBCOMP is left behind it; behind PUBCOMP there is no PUBREC.
LEMMA ReadOK ==
  ASSUME IInv, PublisherRead
  PROVE  IInv'
<1>1. TypeOK /\ \A p \in Pid : PidOK(p)
  BY DEF IInv
<1>2. /\ connected /\ connected' /\ down # <<>> /\ down' = Tail(down)
      /\ down \in Seq(DownPacket) /\ up \in Seq(UpPacket)
      /\ write_queue' = write_queue /\ received_qos2' = received_qos2
      /\ UNCHANGED <<conn, forwards, routings>>
  BY <1>1 DEF PublisherRead, client, TypeOK
<1>3. /\ down' \in Seq(DownPacket) /\ Len(down') <= SOCK_CAP
  BY <1>1, <1>2, HeadTailProperties, LenProperties, InboundAssumption DEF TypeOK
<1>4. /\ \A p : LessAcks(p, down', write_queue', down, write_queue)
      /\ OnWay(down, write_queue, Head(down))
      /\ \A x : OnWay(down', write_queue', x) => OnWayBefore(down, write_queue, Head(down), x)
  BY <1>2, ReadAcks
<1>5. GoneOK'
  BY <1>2 DEF GoneOK
<1>6. RoutedIn(conn)' = RoutedIn(conn)
  BY <1>2, RoutedSame
<1>7. ASSUME UNCHANGED <<exchange, complete, up>> PROVE IInv'
  <2>1. TypeOK'
    BY <1>1, <1>2, <1>3, <1>7 DEF TypeOK
  <2>2. ASSUME NEW p \in Pid PROVE PidOK(p)'
    <3>1. LessUp(p, up', up) /\ PidOK(p)
      BY <1>1, <1>7, LessSame
    <3>2. QED
      BY <1>2, <1>4, <1>6, <1>7, <3>1, Thinner DEF PidOK
  <2>3. QED
    BY <1>5, <2>1, <2>2 DEF IInv
<1>8. ASSUME NEW pid \in Pid, ReadPubrec(pid), pid \in Open PROVE IInv'
  <2>1. /\ Head(down) = Ack("PUBREC", pid) /\ complete' = complete
        /\ exchange' = [exchange EXCEPT ![pid].phase = "comp"]
        /\ up' = up \/ up' = Append(up, Pubrel(pid))
    BY <1>8 DEF ReadPubrec
  <2>2. Pubrel(pid) \in UpPacket
    BY DEF UpPacket
  <2>3. /\ exchange[pid] # Idle /\ exchange[pid].phase \in {"rec", "comp"} /\ exchange[pid].msg \in Msg
        /\ exchange'[pid] # Idle /\ exchange'[pid].phase = "comp"
        /\ exchange'[pid].msg = exchange[pid].msg
        /\ exchange' \in [Pid -> {Idle} \cup [phase : {"rec", "comp"}, msg : Msg]]
        /\ \A p \in Pid : p # pid => exchange'[p] = exchange[p]
    BY <1>1, <1>8, <2>1, AnsweredExchange
  <2>4. TypeOK'
    <3>1. up' \in Seq(UpPacket)
      BY <1>2, <2>1, <2>2, AppendProperties
    <3>2. QED
      BY <1>1, <1>2, <1>3, <2>1, <2>3, <3>1 DEF TypeOK
  <2>5. ASSUME NEW p \in Pid, p # pid PROVE PidOK(p)'
    <3>1. LessUp(p, up', up)
      <4>1. CASE up' = up
        BY <4>1, LessSame
      <4>2. CASE up' = Append(up, Pubrel(pid))
        BY <4>2, <1>2, <2>2, <2>5, LessUpAppend, PacketsDiffer
      <4>3. QED
        BY <2>1, <4>1, <4>2
    <3>2. PidOK(p) /\ exchange'[p] = exchange[p]
      BY <1>1, <2>3, <2>5
    <3>3. QED
      BY <1>2, <1>4, <1>6, <3>1, <3>2, Thinner DEF PidOK
  <2>6. PidOK(pid)'
    <3>1. PidOK(pid)
      BY <1>1
    <3>2. /\ \A n \in Msg : Contains(up, Publish(pid, n)) => n = exchange[pid].msg
          /\ pid \in received_qos2 => exchange[pid].msg \in RoutedIn(conn)
      BY <3>1 DEF PidOK, Consistent
    <3>3. \A n \in Msg :
            /\ Contains(up', Publish(pid, n)) => Contains(up, Publish(pid, n))
            /\ Precedes(up', Pubrel(pid), Publish(pid, n)) => Precedes(up, Pubrel(pid), Publish(pid, n))
      <4>1. CASE up' = up
        BY <4>1
      <4>2. CASE up' = Append(up, Pubrel(pid))
        BY <4>2, <1>2, <2>2, AppendOrder, PacketsDiffer
      <4>3. QED
        BY <2>1, <4>1, <4>2
    <3>4. \A n \in Msg : ~Precedes(up, Pubrel(pid), Publish(pid, n))
      <4>1. CASE exchange[pid].phase = "rec"
        <5>1. ~Contains(up, Pubrel(pid))
          BY <4>1, <1>4, <2>1, <3>1 DEF PidOK, Consistent
        <5>2. QED
          BY <5>1, BeforeMeansThere
      <4>2. CASE exchange[pid].phase = "comp"
        BY <4>2, <3>1 DEF PidOK, Consistent
      <4>3. QED
        BY <2>3, <4>1, <4>2
    <3>5. /\ OnWay(down', write_queue', Ack("PUBCOMP", pid)) =>
               pid \notin received_qos2 /\ \A n \in Msg : ~Contains(up, Publish(pid, n))
          /\ ~OnWayBefore(down', write_queue', Ack("PUBCOMP", pid), Ack("PUBREC", pid))
      <4>1. CASE exchange[pid].phase = "rec"
        <5>1. ~OnWay(down', write_queue', Ack("PUBCOMP", pid))
          BY <4>1, <1>4, <2>1, <3>1 DEF PidOK, Consistent
        <5>2. QED
          BY <5>1, BeforeMeansThere
      <4>2. CASE exchange[pid].phase = "comp"
        BY <4>2, <1>4, <3>1 DEF PidOK, Consistent, LessAcks, AckType
      <4>3. QED
        BY <2>3, <4>1, <4>2
    <3>6. QED
      BY <1>2, <1>6, <2>3, <3>2, <3>3, <3>4, <3>5 DEF PidOK, Consistent
  <2>7. QED
    BY <1>5, <2>4, <2>5, <2>6 DEF IInv
<1>9. ASSUME NEW pid \in Pid, ReadPubcomp(pid), exchange[pid].phase = "comp" PROVE IInv'
  <2>1. /\ Head(down) = Ack("PUBCOMP", pid) /\ up' = up
        /\ complete' = complete \cup {exchange[pid].msg}
        /\ exchange' = [exchange EXCEPT ![pid] = Idle]
    BY <1>9 DEF ReadPubcomp
  <2>2. exchange[pid] # Idle /\ exchange[pid].msg \in Msg
    BY <1>1, <1>9, ExchangeType DEF Idle
  <2>3. /\ exchange' \in [Pid -> {Idle} \cup [phase : {"rec", "comp"}, msg : Msg]]
        /\ exchange'[pid] = Idle /\ \A p \in Pid : p # pid => exchange'[p] = exchange[p]
    BY <1>1, <2>1 DEF TypeOK
  <2>4. TypeOK'
    BY <1>1, <1>2, <1>3, <2>1, <2>2, <2>3 DEF TypeOK
  <2>5. ASSUME NEW p \in Pid, p # pid PROVE PidOK(p)'
    <3>1. PidOK(p) /\ exchange'[p] = exchange[p] /\ LessUp(p, up', up)
      BY <1>1, <2>1, <2>3, <2>5, LessSame
    <3>2. QED
      BY <1>2, <1>4, <1>6, <3>1, Thinner DEF PidOK
  <2>6. PidOK(pid)'
    <3>1. /\ pid \notin received_qos2 /\ \A n \in Msg : ~Contains(up, Publish(pid, n))
          /\ ~OnWay(down', write_queue', Ack("PUBREC", pid))
      BY <1>1, <1>4, <1>9, <2>1 DEF PidOK, Consistent
    <3>2. exchange'[pid].phase = "idle"
      BY <2>3 DEF Idle
    <3>3. QED
      BY <1>2, <2>1, <2>3, <3>1, <3>2 DEF PidOK, Consistent
  <2>7. QED
    BY <1>5, <2>4, <2>5, <2>6 DEF IInv
<1>10. QED
  <2>1. CASE ReadForward
    BY <2>1, <1>7 DEF ReadForward, publisher
  <2>2. ASSUME NEW pid \in Pid, ReadPubrec(pid) PROVE IInv'
    BY <2>2, <1>7, <1>8 DEF ReadPubrec
  <2>3. ASSUME NEW pid \in Pid, ReadPubcomp(pid) PROVE IInv'
    BY <2>3, <1>7, <1>9 DEF ReadPubcomp, publisher
  <2>4. QED
    BY <2>1, <2>2, <2>3 DEF PublisherRead

\* Reconnect: the channels hold one packet for each open exchange.
LEMMA ReconnectOK ==
  ASSUME IInv, Reconnect
  PROVE  IInv'
<1>1. /\ TypeOK /\ ~connected /\ connected' = TRUE /\ conn < MAX_CONN /\ conn' = conn + 1
      /\ down = <<>> /\ write_queue = <<>> /\ received_qos2 = {}
      /\ UNCHANGED <<exchange, complete, received_qos2, write_queue, down, forwards, routings>>
  BY DEF IInv, GoneOK, Reconnect, publisher, client
<1>2. PICK pids \in SetToSeqs(Open) : up' = [i \in DOMAIN pids |-> Unanswered(pids[i])]
  BY DEF Reconnect
<1>3. PICK n \in Nat : pids \in [1 .. n -> Open]
  <2>1. IsFiniteSet(Open)
    <3>1. IsFiniteSet(Pid)
      BY CapAssumption, FS_Interval DEF Pid
    <3>2. Open \subseteq Pid
      BY DEF Open
    <3>3. QED
      BY <3>1, <3>2, FS_Subset
  <2>2. Cardinality(Open) \in Nat
    BY <2>1, FS_CardinalityType
  <2>3. QED
    BY <2>2 DEF SetToSeqs
<1>4. \A p \in Open :
        /\ p \in Pid /\ Unanswered(p) \in UpPacket
        /\ \A r \in Pid, m \in Msg : Unanswered(p) = Publish(r, m) =>
             r = p /\ exchange[p].phase = "rec" /\ m = exchange[p].msg
        /\ \A r \in Pid : Unanswered(p) = Pubrel(r) => r = p /\ exchange[p].phase # "rec"
  <2> SUFFICES ASSUME NEW p \in Open
               PROVE  /\ p \in Pid /\ Unanswered(p) \in UpPacket
                      /\ \A r \in Pid, m \in Msg : Unanswered(p) = Publish(r, m) =>
                           r = p /\ exchange[p].phase = "rec" /\ m = exchange[p].msg
                      /\ \A r \in Pid : Unanswered(p) = Pubrel(r) => r = p /\ exchange[p].phase # "rec"
    OBVIOUS
  <2>1. p \in Pid /\ exchange[p].phase \in {"rec", "comp"} /\ exchange[p].msg \in Msg
    BY <1>1, ExchangeType DEF Open
  <2>2. CASE exchange[p].phase = "rec"
    <3>1. Unanswered(p) = Publish(p, exchange[p].msg)
      BY <2>2 DEF Unanswered
    <3>2. Unanswered(p) \in UpPacket
      BY <2>1, <3>1 DEF UpPacket
    <3>3. QED
      BY <2>1, <2>2, <3>1, <3>2, PacketsDiffer
  <2>3. CASE exchange[p].phase = "comp"
    <3>1. Unanswered(p) = Pubrel(p)
      BY <2>3 DEF Unanswered
    <3>2. Unanswered(p) \in UpPacket
      BY <2>1, <3>1 DEF UpPacket
    <3>3. QED
      BY <2>1, <2>3, <3>1, <3>2, PacketsDiffer
  <2>4. QED
    BY <2>1, <2>2, <2>3
<1>5. /\ up' \in [1 .. n -> UpPacket]
      /\ \A i \in 1 .. n : pids[i] \in Open /\ up'[i] = Unanswered(pids[i])
  BY <1>2, <1>3, <1>4
<1>6. up' \in Seq(UpPacket) /\ Len(up') = n
  BY <1>5
<1>7. \A r \in Pid, m \in Msg :
        /\ Contains(up', Publish(r, m)) => exchange[r] # Idle /\ exchange[r].msg = m /\ exchange[r].phase = "rec"
        /\ Contains(up', Pubrel(r)) => exchange[r].phase # "rec"
  BY <1>4, <1>5, <1>6 DEF Contains, Open
<1>8. TypeOK'
  <2>1. conn' \in 1 .. MAX_CONN
    BY <1>1, InboundAssumption DEF TypeOK
  <2>2. connected' \in BOOLEAN
    BY <1>1
  <2>3. routings' \in Seq([msg : Msg, conn : 1 .. MAX_CONN])
    BY <1>1 DEF TypeOK
  <2>4. QED
    BY <1>1, <1>6, <2>1, <2>2, <2>3 DEF TypeOK
<1>9. GoneOK'
  BY <1>1 DEF GoneOK
<1>10. ASSUME NEW p \in Pid PROVE PidOK(p)'
  <2>1. /\ \A x, y : ~OnWay(down', write_queue', x) /\ ~OnWayBefore(down', write_queue', x, y)
        /\ received_qos2' = {}
    <3>1. Len(<<>>) = 0
      OBVIOUS
    <3>2. \A x : ~OnWay(<<>>, <<>>, x)
      BY <3>1 DEF OnWay, Contains, Holds
    <3>3. QED
      BY <1>1, <3>2, BeforeMeansThere
  <2>2. \A m \in Msg : ~Precedes(up', Publish(p, m), Pubrel(p)) /\ ~Precedes(up', Pubrel(p), Publish(p, m))
    BY <1>7, BeforeMeansThere
  <2>3. Consistent(p, exchange[p], up', down', write_queue', received_qos2', RoutedIn(conn)')
    BY <1>7, <2>1, <2>2 DEF Consistent
  <2>4. QED
    BY <1>1, <2>3 DEF PidOK
<1>11. QED
  BY <1>8, <1>9, <1>10 DEF IInv

----------------------------------------------------------------------------
(* The steps of the broker.                                                *)

\* An acknowledgement is queued behind all others, or dropped.
LEMMA AckQueued ==
  ASSUME TypeOK, NEW t \in AckType, NEW p \in Pid,
         write_queue' = Queue0(write_queue, Ack(t, p))
  PROVE  /\ write_queue' \in Seq([rel : BOOLEAN, pkt : DownPacket])
         /\ Len(write_queue') <= WRITE_QUEUE_CAP
         /\ \A x : OnWay(down, write_queue', x) =>
                     OnWay(down, write_queue, x) \/ x = Ack(t, p)
         /\ \A x, y : OnWayBefore(down, write_queue', x, y) =>
                        \/ OnWayBefore(down, write_queue, x, y)
                        \/ y = Ack(t, p) /\ OnWay(down, write_queue, x)
<1>1. Ack(t, p) \in DownPacket
  BY DEF DownPacket, AckType
<1>2. write_queue \in QueueOf(DownPacket) /\ Len(write_queue) <= WRITE_QUEUE_CAP
  BY DEF TypeOK, QueueOf
<1>3. write_queue' \in QueueOf(DownPacket) /\ Len(write_queue') <= WRITE_QUEUE_CAP
  BY <1>1, <1>2, Queue0Bounded
<1>4. /\ \A x : Holds(write_queue', x) => Holds(write_queue, x) \/ x = Ack(t, p)
      /\ \A x, y : HoldsBefore(write_queue', x, y) =>
                     HoldsBefore(write_queue, x, y) \/ (y = Ack(t, p) /\ Holds(write_queue, x))
  BY <1>1, <1>2, Queue0Order
<1>5. QED
  BY <1>3, <1>4, QueueAcks DEF QueueOf

\* PUBLISH: before PUBREC is read nothing of an earlier exchange is behind it;
\* after that no PUBCOMP is under way yet.
LEMMA PublishOK ==
  ASSUME IInv, HandlePublish
  PROVE  IInv'
<1>1. TypeOK /\ (\A p \in Pid : PidOK(p)) /\ connected /\ up # <<>> /\ up' = Tail(up)
      /\ up \in Seq(UpPacket) /\ connected' = connected /\ down' = down /\ exchange' = exchange
      /\ UNCHANGED <<complete, conn, forwards>>
  BY DEF IInv, TypeOK, HandlePublish, Handles, publisher
<1>2. PICK pid \in Pid, m \in Msg : Head(up) = Publish(pid, m)
  BY <1>1, UpHead DEF HandlePublish, Handles
<1>3. /\ received_qos2' = received_qos2 \cup {pid}
      /\ write_queue' = Queue0(write_queue, Ack("PUBREC", pid))
      /\ routings' = IF pid \in received_qos2 THEN routings
                     ELSE Append(routings, [msg |-> m, conn |-> conn])
  BY <1>2 DEF HandlePublish, Publish
<1>4. /\ write_queue' \in Seq([rel : BOOLEAN, pkt : DownPacket])
      /\ Len(write_queue') <= WRITE_QUEUE_CAP
      /\ \A x : OnWay(down, write_queue', x) => OnWay(down, write_queue, x) \/ x = Ack("PUBREC", pid)
      /\ \A x, y : OnWayBefore(down, write_queue', x, y) =>
                     \/ OnWayBefore(down, write_queue, x, y)
                     \/ y = Ack("PUBREC", pid) /\ OnWay(down, write_queue, x)
  BY <1>1, <1>3, AckQueued DEF AckType
<1>5. /\ routings' \in Seq([msg : Msg, conn : 1 .. MAX_CONN])
      /\ RoutedIn(conn) \subseteq RoutedIn(conn)'
      /\ pid \notin received_qos2 => m \in RoutedIn(conn)'
  <2> DEFINE R == [msg : Msg, conn : 1 .. MAX_CONN]
             r == [msg |-> m, conn |-> conn]
  <2>1. routings \in Seq(R) /\ r \in R /\ r.msg = m /\ r.conn = conn
    BY <1>1 DEF TypeOK
  <2> HIDE DEF R, r
  <2>2. CASE pid \in received_qos2
    BY <1>1, <1>3, <2>1, <2>2 DEF RoutedIn, R
  <2>3. CASE pid \notin received_qos2
    <3>1. routings' = Append(routings, r)
      BY <1>3, <2>3 DEF r
    <3>2. /\ routings' \in Seq(R) /\ Len(routings) \in Nat /\ Len(routings') = Len(routings) + 1
          /\ \A i \in 1 .. Len(routings) : routings'[i] = routings[i]
          /\ routings'[Len(routings) + 1] = r
          /\ DOMAIN routings = 1 .. Len(routings)
      BY <2>1, <3>1, AppendProperties, LenProperties
    <3>3. DOMAIN routings' = 1 .. Len(routings')
      BY <3>2, LenProperties
    <3>4. ToSet(routings) \subseteq ToSet(routings') /\ r \in ToSet(routings')
      BY <3>2, <3>3 DEF ToSet
    <3>5. QED
      BY <1>1, <2>1, <3>2, <3>4 DEF RoutedIn, R
  <2>4. QED
    BY <2>2, <2>3
<1>6. TypeOK'
  <2>1. up' \in Seq(UpPacket)
    BY <1>1, UpHead
  <2>2. QED
    BY <1>1, <1>3, <1>4, <1>5, <2>1 DEF TypeOK
<1>7. GoneOK'
  BY <1>1 DEF GoneOK
<1>8. ASSUME NEW p \in Pid PROVE PidOK(p)'
  <2>1. PidOK(p) /\ LessUp(p, up', up)
    BY <1>1, LessUpTail
  <2>2. CASE p # pid
    <3>1. LessAcks(p, down', write_queue', down, write_queue)
      <4>1. \A t \in AckType : Ack("PUBREC", pid) # Ack(t, p)
        BY <2>2, PacketsDiffer DEF AckType
      <4>2. QED
        BY <1>1, <1>4, <4>1, LessAcksQueued
    <3>2. p \in received_qos2' => p \in received_qos2
      BY <1>3, <2>2
    <3>3. QED
      BY <1>1, <1>5, <2>1, <3>1, <3>2, Thinner DEF PidOK
  <2>3. CASE p = pid
    <3>1. /\ Contains(up, Publish(p, m))
          /\ \A x : Contains(Tail(up), x) => Precedes(up, Publish(p, m), x)
      BY <1>1, <1>2, <2>3, TailOrder
    <3>2. exchange[p] # Idle /\ exchange[p].msg = m
      BY <2>1, <3>1 DEF PidOK, Consistent
    <3>3. /\ \A n \in Msg : Contains(up', Publish(p, n)) => n = m
          /\ exchange[p].msg \in RoutedIn(conn)'
      BY <1>5, <2>1, <2>3, <3>2 DEF PidOK, Consistent, LessUp
    <3>4. CASE exchange[p].phase = "rec"
      <4>1. ~Contains(up', Pubrel(p))
        BY <1>1, <2>1, <3>1, <3>4 DEF PidOK, Consistent
      <4>2. ~OnWayBefore(down, write_queue', Ack("PUBREC", p), Ack("PUBCOMP", p))
        BY <1>4, <2>1, <2>3, <3>4, PacketsDiffer DEF PidOK, Consistent, AckType
      <4>3. \A n \in Msg : ~Precedes(up', Publish(p, n), Pubrel(p))
        BY <4>1, BeforeMeansThere
      <4>4. QED
        BY <1>1, <3>2, <3>3, <3>4, <4>1, <4>2, <4>3 DEF PidOK, Consistent
    <3>5. CASE exchange[p].phase = "comp"
      <4>1. ~OnWay(down, write_queue, Ack("PUBCOMP", p))
        BY <2>1, <3>1, <3>5 DEF PidOK, Consistent
      <4>2. ~OnWay(down, write_queue', Ack("PUBCOMP", p))
        BY <1>4, <2>3, <4>1, PacketsDiffer DEF AckType
      <4>3. ~OnWayBefore(down, write_queue', Ack("PUBCOMP", p), Ack("PUBREC", p))
        BY <4>2, BeforeMeansThere
      <4>4. \A n \in Msg : ~Precedes(up', Pubrel(p), Publish(p, n))
        BY <2>1, <3>5 DEF PidOK, Consistent, LessUp
      <4>5. QED
        BY <1>1, <3>2, <3>3, <3>5, <4>2, <4>3, <4>4 DEF PidOK, Consistent
    <3>6. QED
      BY <1>1, <3>2, <3>4, <3>5, ExchangeType
  <2>4. QED
    BY <2>2, <2>3
<1>9. QED
  BY <1>6, <1>7, <1>8 DEF IInv

\* PUBREL: before PUBREC is read none is under way, after that no PUBLISH is left
\* behind it.
LEMMA PubrelOK ==
  ASSUME IInv, HandlePubrel
  PROVE  IInv'
<1>1. TypeOK /\ (\A p \in Pid : PidOK(p)) /\ connected /\ up # <<>> /\ up' = Tail(up)
      /\ up \in Seq(UpPacket) /\ connected' = connected /\ down' = down /\ exchange' = exchange
      /\ UNCHANGED <<complete, conn, forwards, routings>>
  BY DEF IInv, TypeOK, HandlePubrel, Handles, publisher
<1>2. PICK pid \in Pid : Head(up) = Pubrel(pid)
  BY <1>1, UpHead DEF HandlePubrel, Handles
<1>3. /\ received_qos2' = received_qos2 \ {pid}
      /\ write_queue' = Queue0(write_queue, Ack("PUBCOMP", pid))
  BY <1>2 DEF HandlePubrel, Pubrel
<1>4. /\ write_queue' \in Seq([rel : BOOLEAN, pkt : DownPacket])
      /\ Len(write_queue') <= WRITE_QUEUE_CAP
      /\ \A x : OnWay(down, write_queue', x) => OnWay(down, write_queue, x) \/ x = Ack("PUBCOMP", pid)
      /\ \A x, y : OnWayBefore(down, write_queue', x, y) =>
                     \/ OnWayBefore(down, write_queue, x, y)
                     \/ y = Ack("PUBCOMP", pid) /\ OnWay(down, write_queue, x)
  BY <1>1, <1>3, AckQueued DEF AckType
<1>5. RoutedIn(conn)' = RoutedIn(conn)
  BY <1>1, RoutedSame
<1>6. TypeOK'
  <2>1. up' \in Seq(UpPacket)
    BY <1>1, UpHead
  <2>2. QED
    BY <1>1, <1>3, <1>4, <2>1 DEF TypeOK
<1>7. GoneOK'
  BY <1>1 DEF GoneOK
<1>8. ASSUME NEW p \in Pid PROVE PidOK(p)'
  <2>1. PidOK(p) /\ LessUp(p, up', up) /\ (p \in received_qos2' => p \in received_qos2)
    BY <1>1, <1>3, LessUpTail
  <2>2. CASE p # pid
    <3>1. LessAcks(p, down', write_queue', down, write_queue)
      <4>1. \A t \in AckType : Ack("PUBCOMP", pid) # Ack(t, p)
        BY <2>2, PacketsDiffer DEF AckType
      <4>2. QED
        BY <1>1, <1>4, <4>1, LessAcksQueued
    <3>2. QED
      BY <1>1, <1>5, <2>1, <3>1, Thinner DEF PidOK
  <2>3. CASE p = pid
    <3>1. /\ Contains(up, Pubrel(p)) /\ p \notin received_qos2'
          /\ \A x : Contains(Tail(up), x) => Precedes(up, Pubrel(p), x)
      BY <1>1, <1>2, <1>3, <2>3, TailOrder
    <3>2. /\ OnWay(down, write_queue', Ack("PUBREC", p)) => OnWay(down, write_queue, Ack("PUBREC", p))
          /\ OnWayBefore(down, write_queue', Ack("PUBCOMP", p), Ack("PUBREC", p)) =>
               OnWayBefore(down, write_queue, Ack("PUBCOMP", p), Ack("PUBREC", p))
      BY <1>4, <2>3, PacketsDiffer DEF AckType
    <3>3. CASE exchange[p] = Idle
      <4>1. exchange[p].phase = "idle"
        BY <3>3 DEF Idle
      <4>2. QED
        BY <1>1, <2>1, <3>1, <3>2, <3>3, <4>1 DEF PidOK, Consistent, LessUp
    <3>4. CASE exchange[p] # Idle /\ exchange[p].phase = "rec"
      <4>1. ~OnWay(down, write_queue', Ack("PUBREC", p))
        BY <2>1, <3>1, <3>2, <3>4 DEF PidOK, Consistent
      <4>2. ~OnWayBefore(down, write_queue', Ack("PUBREC", p), Ack("PUBCOMP", p))
        BY <4>1, BeforeMeansThere
      <4>3. QED
        BY <1>1, <2>1, <3>1, <3>4, <4>1, <4>2 DEF PidOK, Consistent, LessUp
    <3>5. CASE exchange[p] # Idle /\ exchange[p].phase = "comp"
      <4>1. \A n \in Msg : ~Contains(up', Publish(p, n))
        BY <1>1, <2>1, <3>1, <3>5 DEF PidOK, Consistent
      <4>2. QED
        BY <1>1, <2>1, <3>1, <3>2, <3>5, <4>1 DEF PidOK, Consistent, LessUp
    <3>6. QED
      BY <1>1, <3>3, <3>4, <3>5, ExchangeType
  <2>4. QED
    BY <2>2, <2>3
<1>9. QED
  BY <1>6, <1>7, <1>8 DEF IInv

\* The client is gone: nothing is under way.
LEMMA GoneStep ==
  ASSUME IInv, NoClient, UNCHANGED <<exchange, complete, conn, routings>>,
         forwards' \in 0 .. MAX_FORWARD
  PROVE  IInv'
<1>1. /\ TypeOK /\ connected' = FALSE /\ received_qos2' = {} /\ write_queue' = <<>>
      /\ up' = <<>> /\ down' = <<>>
  BY DEF IInv, NoClient
<1>2. TypeOK'
  <2>1. /\ <<>> \in Seq(UpPacket) /\ <<>> \in Seq(DownPacket) /\ Len(<<>>) = 0
        /\ <<>> \in Seq([rel : BOOLEAN, pkt : DownPacket])
    OBVIOUS
  <2>2. 0 <= SOCK_CAP /\ 0 <= WRITE_QUEUE_CAP
    BY InboundAssumption, CapAssumption
  <2>3. routings' \in Seq([msg : Msg, conn : 1 .. MAX_CONN])
    BY <1>1 DEF TypeOK
  <2>4. QED
    BY <1>1, <2>1, <2>2, <2>3 DEF TypeOK
<1>3. GoneOK'
  BY <1>1 DEF GoneOK
<1>4. ASSUME NEW p \in Pid PROVE PidOK(p)'
  BY <1>1, NothingUnderWay DEF PidOK
<1>5. QED
  BY <1>2, <1>3, <1>4 DEF IInv

\* A forwarded message takes a place behind the acknowledgements or evicts one.
LEMMA DeliverOK ==
  ASSUME IInv, NEW reliable \in BOOLEAN, DeliverTo(reliable)
  PROVE  IInv'
<1>1. /\ TypeOK /\ (\A p \in Pid : PidOK(p)) /\ connected /\ forwards < MAX_FORWARD
      /\ forwards' = forwards + 1
      /\ UNCHANGED <<exchange, complete, conn, routings>>
  BY DEF IInv, DeliverTo, publisher
<1>2. forwards' \in 0 .. MAX_FORWARD
  BY <1>1, InboundAssumption DEF TypeOK
<1>3. CASE reliable /\ ~Accepts1(write_queue)
  BY <1>1, <1>2, <1>3, GoneStep DEF DeliverTo
<1>4. CASE ~(reliable /\ ~Accepts1(write_queue))
  <2>1. /\ UNCHANGED <<received_qos2, connected, up, down>>
        /\ write_queue' = IF reliable THEN Queue1(write_queue, Forward) ELSE Queue0(write_queue, Forward)
    BY <1>4 DEF DeliverTo
  <2>2. /\ Forward \in DownPacket /\ write_queue \in QueueOf(DownPacket)
        /\ Len(write_queue) <= WRITE_QUEUE_CAP
    BY <1>1 DEF DownPacket, TypeOK, QueueOf
  <2>3. /\ write_queue' \in QueueOf(DownPacket) /\ Len(write_queue') <= WRITE_QUEUE_CAP
        /\ \A x : Holds(write_queue', x) => Holds(write_queue, x) \/ x = Forward
        /\ \A x, y : HoldsBefore(write_queue', x, y) =>
                       HoldsBefore(write_queue, x, y) \/ (y = Forward /\ Holds(write_queue, x))
    <3>1. CASE reliable
      BY <1>4, <2>1, <2>2, <3>1, Queue1Bounded, Queue1Order
    <3>2. CASE ~reliable
      BY <2>1, <2>2, <3>2, Queue0Bounded, Queue0Order
    <3>3. QED
      BY <3>1, <3>2
  <2>4. TypeOK'
    BY <1>1, <1>2, <2>1, <2>3 DEF TypeOK, QueueOf
  <2>5. GoneOK'
    BY <1>1, <2>1 DEF GoneOK
  <2>6. ASSUME NEW p \in Pid PROVE PidOK(p)'
    <3>1. LessAcks(p, down, write_queue', down, write_queue)
      <4>1. \A t \in AckType : Forward # Ack(t, p)
        BY PacketsDiffer
      <4>2. /\ \A x : OnWay(down, write_queue', x) => OnWay(down, write_queue, x) \/ x = Forward
            /\ \A x, y : OnWayBefore(down, write_queue', x, y) =>
                           \/ OnWayBefore(down, write_queue, x, y)
                           \/ y = Forward /\ OnWay(down, write_queue, x)
        BY <2>3 DEF OnWay, OnWayBefore
      <4>3. QED
        BY <4>1, <4>2, LessAcksQueued
    <3>2. PidOK(p) /\ LessUp(p, up', up) /\ RoutedIn(conn)' = RoutedIn(conn)
      BY <1>1, <2>1, LessSame, RoutedSame
    <3>3. QED
      BY <1>1, <2>1, <3>1, <3>2, Thinner DEF PidOK
  <2>7. QED
    BY <2>4, <2>5, <2>6 DEF IInv
<1>5. QED
  BY <1>3, <1>4

\* write_pending moves packets from the queue to the socket: the order of what is
\* on the way to the publisher stays.
LEMMA FlushOK ==
  ASSUME IInv, Flush
  PROVE  IInv'
<1>1. /\ TypeOK /\ (\A p \in Pid : PidOK(p)) /\ connected /\ write_queue # <<>>
      /\ Len(down) < SOCK_CAP /\ down' = Append(down, Head(write_queue).pkt)
      /\ write_queue' = Tail(write_queue)
      /\ UNCHANGED <<received_qos2, exchange, complete, up, conn, connected, forwards, routings>>
  BY DEF IInv, Flush, publisher
<1>2. write_queue \in QueueOf(DownPacket) /\ down \in Seq(DownPacket)
  BY <1>1 DEF TypeOK, QueueOf
<1>3. /\ Head(write_queue).pkt \in DownPacket /\ write_queue' \in QueueOf(DownPacket)
      /\ Len(write_queue') = Len(write_queue) - 1
  BY <1>1, <1>2, QueueTailOrder
<1>4. down' \in Seq(DownPacket) /\ Len(down') <= SOCK_CAP
  <2> DEFINE h == Head(write_queue).pkt
  <2>1. h \in DownPacket /\ down' = Append(down, h)
    BY <1>1, <1>3
  <2> HIDE DEF h
  <2>2. down' \in Seq(DownPacket) /\ Len(down') = Len(down) + 1 /\ Len(down) \in Nat
    BY <1>2, <2>1, AppendProperties, LenProperties
  <2>3. QED
    BY <1>1, <2>2, InboundAssumption
<1>5. Len(write_queue') <= WRITE_QUEUE_CAP
  <2>1. Len(write_queue) \in Nat
    BY <1>2, LenProperties DEF QueueOf
  <2>2. QED
    BY <1>1, <1>3, <2>1, CapAssumption DEF TypeOK
<1>6. TypeOK'
  BY <1>1, <1>3, <1>4, <1>5 DEF TypeOK, QueueOf
<1>7. GoneOK'
  BY <1>1 DEF GoneOK
<1>8. ASSUME NEW p \in Pid PROVE PidOK(p)'
  <2>1. LessAcks(p, down', write_queue', down, write_queue)
    BY <1>1, <1>2, FlushAcks
  <2>2. PidOK(p) /\ LessUp(p, up', up) /\ RoutedIn(conn)' = RoutedIn(conn)
    BY <1>1, LessSame, RoutedSame
  <2>3. QED
    BY <1>1, <2>1, <2>2, Thinner DEF PidOK
<1>9. QED
  BY <1>6, <1>7, <1>8 DEF IInv

\* A step that changes no variable keeps the invariant.
LEMMA StutterOK ==
  ASSUME IInv, UNCHANGED vars
  PROVE  IInv'
<1>1. UNCHANGED <<exchange, complete, received_qos2, write_queue, up, down, conn, connected, forwards, routings>>
  BY DEF vars, publisher, client
<1>2. TypeOK' /\ GoneOK'
  BY <1>1 DEF IInv, TypeOK, GoneOK
<1>3. ASSUME NEW p \in Pid PROVE PidOK(p)'
  <2>1. PidOK(p) /\ RoutedIn(conn)' = RoutedIn(conn)
    BY <1>1, RoutedSame DEF IInv
  <2>2. QED
    BY <1>1, <2>1 DEF PidOK
<1>4. QED
  BY <1>2, <1>3 DEF IInv

----------------------------------------------------------------------------
(* The theorems.                                                           *)

\* Every handler of the broker and every move of the publisher keeps IInv.
THEOREM InboundInductive == Spec => []IInv
<1>1. Init => IInv
  BY InitOK
<1>2. IInv /\ [Next]_vars => IInv'
  <2> SUFFICES ASSUME IInv, [Next]_vars PROVE IInv'
    OBVIOUS
  <2>1. ASSUME NEW pid \in Pid, Resend(pid) PROVE IInv'
    BY <2>1, ResendOK
  <2>2. ASSUME NEW pid \in Pid, NEW m \in Msg, Start(pid, m) PROVE IInv'
    BY <2>2, StartOK
  <2>3. CASE PublisherRead
    BY <2>3, ReadOK
  <2>4. CASE Reconnect
    BY <2>4, ReconnectOK
  <2>5. CASE HandlePublish
    BY <2>5, PublishOK
  <2>6. CASE HandlePubrel
    BY <2>6, PubrelOK
  <2>7. CASE Flush
    BY <2>7, FlushOK
  <2>8. CASE LoseConnection
    BY <2>8, GoneStep DEF LoseConnection, publisher, IInv, TypeOK
  <2>9. ASSUME NEW reliable \in BOOLEAN, DeliverTo(reliable) PROVE IInv'
    BY <2>9, DeliverOK
  <2>10. CASE UNCHANGED vars
    BY <2>10, StutterOK
  <2>11. QED
    BY <2>1, <2>2, <2>3, <2>4, <2>5, <2>6, <2>7, <2>8, <2>9, <2>10 DEF Next
<1>3. QED
  BY <1>1, <1>2, PTL DEF Spec

\* The handlers keep every variable in its type; the queue of acknowledgements
\* and forwarded messages stays within WRITE_QUEUE_CAP.
THEOREM InboundTypes == Spec => []TypeOK
<1>1. IInv => TypeOK
  BY DEF IInv
<1>2. QED
  BY <1>1, InboundInductive, PTL

\* However packets are repeated, acknowledgements dropped or evicted and
\* connections lost: an id in received_qos2 is that of the exchange the
\* publisher runs, and the exchange's message has been routed, so the
\* deduplication of the PUBLISH handler never swallows a new message.
THEOREM NoIdOutlivesExchange == Spec => []NoStaleId
<1>1. IInv => NoStaleId
  <2> SUFFICES ASSUME IInv, NEW p \in received_qos2
               PROVE  p \in Open /\ exchange[p].msg \in RoutedIn(conn)
    BY DEF NoStaleId
  <2>1. p \in Pid /\ PidOK(p)
    BY DEF IInv, TypeOK
  <2>2. QED
    BY <2>1 DEF PidOK, Consistent, Open
<1>2. QED
  BY <1>1, InboundInductive, PTL

----------------------------------------------------------------------------
(* The inductive invariant of the refinement.                              *)

Routed == {routings[i].msg : i \in DOMAIN routings}

\* Each exchange has a message of its own.
MessagesOK ==
  /\ \A p \in Open : exchange[p].msg \notin complete
  /\ \A p, r \in Open : exchange[p].msg = exchange[r].msg => p = r

\* What was routed belongs to an exchange, and to a connection up to this one.
HistoryOK ==
  \A i \in DOMAIN routings : routings[i].msg \in Started /\ routings[i].conn <= conn

\* A PUBREC under way, and an exchange whose PUBREC was read, stand for a
\* message that was routed.  A message routed on this connection keeps its id in
\* received_qos2 as long as a PUBLISH of it may arrive.
RoutedOK(p) ==
  /\ exchange[p].phase = "comp" \/ OnWay(down, write_queue, Ack("PUBREC", p)) =>
       exchange[p].msg \in Routed
  /\ /\ connected /\ exchange[p].msg \in RoutedIn(conn)
     /\ exchange[p].phase = "rec" \/ Contains(up, Publish(p, exchange[p].msg))
     => p \in received_qos2

RInv == MessagesOK /\ HistoryOK /\ \A p \in Open : RoutedOK(p)

----------------------------------------------------------------------------
(* RInv is inductive.                                                      *)

\* Nothing was started or routed at the start.
LEMMA RInvInit == Init => RInv
<1> SUFFICES ASSUME Init PROVE RInv
  OBVIOUS
<1>1. Open = {} /\ routings = <<>>
  BY DEF Init, Open
<1>2. DOMAIN routings = {}
  BY <1>1
<1>3. QED
  BY <1>1, <1>2 DEF RInv, MessagesOK, HistoryOK

\* Steps that start, end and route nothing.  Where they lose an id of
\* received_qos2, no PUBLISH of its exchange may arrive any more.
LEMMA Quiet ==
  ASSUME IInv, RInv, UNCHANGED <<exchange, complete, routings, conn>>,
         connected' => connected,
         \A p \in Open :
           /\ OnWay(down', write_queue', Ack("PUBREC", p)) =>
                OnWay(down, write_queue, Ack("PUBREC", p))
           /\ exchange[p].phase = "comp" /\ Contains(up', Publish(p, exchange[p].msg)) =>
                Contains(up, Publish(p, exchange[p].msg))
           /\ /\ connected' /\ p \in received_qos2 /\ exchange[p].msg \in RoutedIn(conn)
              /\ exchange[p].phase = "rec" \/ Contains(up', Publish(p, exchange[p].msg))
              => p \in received_qos2'
  PROVE  RInv'
<1>1. Open' = Open /\ Started' = Started /\ Routed' = Routed /\ RoutedIn(conn)' = RoutedIn(conn)
  BY DEF Open, Started, Routed, RoutedIn
<1>2. MessagesOK' /\ HistoryOK'
  BY <1>1 DEF RInv, MessagesOK, HistoryOK
<1>3. ASSUME NEW p \in Open PROVE RoutedOK(p)'
  <2>1. RoutedOK(p) /\ exchange[p].phase \in {"rec", "comp"}
    BY ExchangeType DEF RInv, IInv, Open
  <2>2. QED
    BY <1>1, <2>1 DEF RoutedOK
<1>4. QED
  BY <1>1, <1>2, <1>3 DEF RInv

\* What is read, evicted or lost is not sent.
LEMMA QuietThinner ==
  ASSUME IInv, RInv, UNCHANGED <<exchange, complete, routings, conn>>,
         connected' => connected /\ received_qos2' = received_qos2,
         \A p \in Pid : LessUp(p, up', up) /\ LessAcks(p, down', write_queue', down, write_queue)
  PROVE  RInv'
<1>1. ASSUME NEW p \in Open
      PROVE  /\ OnWay(down', write_queue', Ack("PUBREC", p)) =>
                  OnWay(down, write_queue, Ack("PUBREC", p))
             /\ Contains(up', Publish(p, exchange[p].msg)) =>
                  Contains(up, Publish(p, exchange[p].msg))
  <2>1. p \in Pid /\ exchange[p].msg \in Msg
    BY ExchangeType DEF IInv, Open
  <2>2. QED
    BY <2>1 DEF LessUp, LessAcks, AckType
<1>2. QED
  BY <1>1, Quiet

\* A new exchange takes a message that no other has or had.
LEMMA RInvStart ==
  ASSUME IInv, RInv, NEW pid \in Pid, NEW m \in Msg, Start(pid, m)
  PROVE  RInv'
<1>1. /\ TypeOK /\ PidOK(pid) /\ exchange[pid] = Idle /\ m \notin Started
      /\ exchange' = [exchange EXCEPT ![pid] = Awaits("rec", m)]
      /\ up' = Append(up, Publish(pid, m)) /\ connected' = connected
      /\ UNCHANGED <<complete, received_qos2, write_queue, down, conn, routings>>
  BY DEF IInv, Start, client
<1>2. /\ exchange'[pid].msg = m /\ exchange'[pid].phase = "rec" /\ exchange'[pid] # Idle
      /\ \A p \in Pid : p # pid => exchange'[p] = exchange[p]
  BY <1>1 DEF TypeOK, Awaits, Idle
<1>3. pid \notin Open /\ Open' = Open \cup {pid}
  BY <1>1, <1>2 DEF Open
<1>4. Started' = Started \cup {m} /\ Routed' = Routed /\ RoutedIn(conn)' = RoutedIn(conn)
  <2>1. {exchange'[p].msg : p \in Open'} = {exchange[p].msg : p \in Open} \cup {m}
    BY <1>2, <1>3 DEF Open
  <2>2. QED
    BY <1>1, <2>1 DEF Started, Routed, RoutedIn
<1>5. m \notin complete /\ \A p \in Open : exchange[p].msg # m
  BY <1>1 DEF Started
<1>6. MessagesOK'
  <2>1. \A p \in Open : p \in Pid /\ p # pid /\ exchange'[p].msg = exchange[p].msg
    BY <1>2, <1>3 DEF Open
  <2>2. QED
    BY <1>1, <1>2, <1>3, <1>5, <2>1 DEF RInv, MessagesOK
<1>7. HistoryOK'
  BY <1>1, <1>4 DEF RInv, HistoryOK
<1>8. ASSUME NEW p \in Open' PROVE RoutedOK(p)'
  <2>1. CASE p = pid
    <3>1. ~OnWay(down, write_queue, Ack("PUBREC", pid))
      BY <1>1 DEF PidOK, Consistent
    <3>2. m \notin RoutedIn(conn)
      <4>1. RoutedIn(conn) \subseteq Started
        BY DEF RoutedIn, ToSet, RInv, HistoryOK
      <4>2. QED
        BY <1>1, <4>1
    <3>3. QED
      BY <1>1, <1>2, <1>4, <2>1, <3>1, <3>2 DEF RoutedOK
  <2>2. CASE p # pid
    <3>1. p \in Open /\ p \in Pid /\ exchange'[p] = exchange[p] /\ exchange[p].msg \in Msg
      BY <1>1, <1>2, <1>3, <2>2, ExchangeType DEF Open
    <3>2. Contains(up', Publish(p, exchange[p].msg)) => Contains(up, Publish(p, exchange[p].msg))
      <4>1. up \in Seq(UpPacket) /\ Publish(pid, m) \in UpPacket
        BY <1>1 DEF TypeOK, UpPacket
      <4>2. QED
        BY <1>1, <2>2, <3>1, <4>1, AppendOrder, PacketsDiffer
    <3>3. RoutedOK(p)
      BY <3>1 DEF RInv
    <3>4. QED
      BY <1>1, <1>4, <3>1, <3>2, <3>3 DEF RoutedOK
  <2>3. QED
    BY <2>1, <2>2
<1>9. QED
  BY <1>6, <1>7, <1>8 DEF RInv

\* On a new connection nothing has been routed yet.
LEMMA RInvReconnect ==
  ASSUME IInv, RInv, Reconnect
  PROVE  RInv' /\ RoutedIn(conn)' = {}
<1>1. /\ TypeOK /\ conn \in Int /\ conn' = conn + 1
      /\ UNCHANGED <<exchange, complete, write_queue, down, routings>>
  BY DEF IInv, TypeOK, Reconnect, publisher, client
<1>2. /\ Open' = Open /\ Started' = Started /\ Routed' = Routed
  BY <1>1 DEF Open, Started, Routed
<1>3. \A i \in DOMAIN routings : routings[i].conn \in Int /\ routings[i].conn <= conn
  <2> DEFINE R == [msg : Msg, conn : 1 .. MAX_CONN]
  <2>1. routings \in Seq(R) /\ \A r \in R : r.conn \in Int
    BY <1>1 DEF TypeOK
  <2> HIDE DEF R
  <2>2. \A i \in DOMAIN routings : routings[i] \in R
    BY <2>1, LenProperties, ElementOfSeq
  <2>3. QED
    BY <2>1, <2>2 DEF RInv, HistoryOK
<1>4. RoutedIn(conn)' = {}
  BY <1>1, <1>3 DEF RoutedIn, ToSet
<1>5. MessagesOK' /\ HistoryOK'
  BY <1>1, <1>2, <1>3 DEF RInv, MessagesOK, HistoryOK
<1>6. \A p \in Open' : RoutedOK(p)'
  BY <1>1, <1>2, <1>4 DEF RInv, RoutedOK
<1>7. QED
  BY <1>4, <1>5, <1>6 DEF RInv

\* PUBREC is read: its message was routed.
LEMMA RInvPubrec ==
  ASSUME IInv, RInv, PublisherRead, NEW pid \in Open, ReadPubrec(pid)
  PROVE  RInv'
<1>1. /\ TypeOK /\ down # <<>> /\ down' = Tail(down) /\ Head(down) = Ack("PUBREC", pid)
      /\ exchange' = [exchange EXCEPT ![pid].phase = "comp"]
      /\ up' = up \/ up' = Append(up, Pubrel(pid))
      /\ down \in Seq(DownPacket) /\ up \in Seq(UpPacket)
      /\ UNCHANGED <<complete, received_qos2, write_queue, conn, connected, routings>>
  BY DEF IInv, TypeOK, PublisherRead, ReadPubrec, client
<1>2. /\ \A p : LessAcks(p, down', write_queue', down, write_queue)
      /\ OnWay(down, write_queue, Ack("PUBREC", pid))
  BY <1>1, ReadAcks
<1>3. /\ exchange[pid].phase \in {"rec", "comp"} /\ exchange'[pid] # Idle
      /\ exchange'[pid].phase = "comp" /\ exchange'[pid].msg = exchange[pid].msg
      /\ \A p \in Pid : p # pid => exchange'[p] = exchange[p]
  BY <1>1, AnsweredExchange
<1>4. \A p \in Pid : exchange'[p].msg = exchange[p].msg
  BY <1>3
<1>5. Open' = Open
  BY <1>3 DEF Open
<1>6. Started' = Started /\ Routed' = Routed /\ RoutedIn(conn)' = RoutedIn(conn)
  BY <1>1, <1>4, <1>5 DEF Started, Routed, RoutedIn, Open
<1>7. MessagesOK' /\ HistoryOK'
  BY <1>1, <1>4, <1>5, <1>6 DEF RInv, MessagesOK, HistoryOK, Open
<1>8. ASSUME NEW p \in Open PROVE RoutedOK(p)'
  <2>1. /\ p \in Pid /\ exchange[p].msg \in Msg /\ exchange[p].phase \in {"rec", "comp"}
        /\ RoutedOK(p)
    BY <1>1, ExchangeType DEF Open, RInv
  <2>2. OnWay(down', write_queue', Ack("PUBREC", p)) => OnWay(down, write_queue, Ack("PUBREC", p))
    BY <1>2 DEF LessAcks, AckType
  <2>3. Contains(up', Publish(p, exchange[p].msg)) => Contains(up, Publish(p, exchange[p].msg))
    <3>1. CASE up' = up
      BY <3>1
    <3>2. CASE up' = Append(up, Pubrel(pid))
      <4>1. pid \in Pid /\ Pubrel(pid) \in UpPacket
        BY DEF UpPacket, Open
      <4>2. QED
        BY <1>1, <2>1, <3>2, <4>1, AppendOrder, PacketsDiffer
    <3>3. QED
      BY <1>1, <3>1, <3>2
  <2>4. CASE p = pid
    BY <1>1, <1>2, <1>3, <1>6, <2>1, <2>3, <2>4 DEF RoutedOK
  <2>5. CASE p # pid
    BY <1>1, <1>3, <1>6, <2>1, <2>2, <2>3, <2>5 DEF RoutedOK
  <2>6. QED
    BY <2>4, <2>5
<1>9. QED
  BY <1>5, <1>7, <1>8 DEF RInv

\* PUBCOMP is read: the exchange ends, and its message was routed.
LEMMA RInvPubcomp ==
  ASSUME IInv, RInv, PublisherRead, NEW pid \in Pid, ReadPubcomp(pid), exchange[pid].phase = "comp"
  PROVE  RInv' /\ exchange[pid].msg \in Routed
<1>1. /\ TypeOK /\ down # <<>> /\ down' = Tail(down) /\ up' = up
      /\ complete' = complete \cup {exchange[pid].msg}
      /\ exchange' = [exchange EXCEPT ![pid] = Idle]
      /\ down \in Seq(DownPacket)
      /\ UNCHANGED <<received_qos2, write_queue, conn, connected, routings>>
  BY DEF IInv, TypeOK, PublisherRead, ReadPubcomp, client
<1>2. \A p : LessAcks(p, down', write_queue', down, write_queue)
  BY <1>1, ReadAcks
<1>3. /\ pid \in Open /\ exchange'[pid] = Idle
      /\ \A p \in Pid : p # pid => exchange'[p] = exchange[p]
  BY <1>1 DEF TypeOK, Idle, Open
<1>4. exchange[pid].msg \in Routed
  BY <1>3 DEF RInv, RoutedOK
<1>5. Open' = Open \ {pid}
  BY <1>3 DEF Open
<1>6. /\ \A p \in Open' : p \in Open /\ p \in Pid /\ p # pid /\ exchange'[p] = exchange[p]
      /\ Started' = Started /\ Routed' = Routed /\ RoutedIn(conn)' = RoutedIn(conn)
  <2>1. \A p \in Open' : p \in Open /\ p \in Pid /\ p # pid /\ exchange'[p] = exchange[p]
    BY <1>3, <1>5 DEF Open
  <2>2. {exchange[p].msg : p \in Open} = {exchange'[p].msg : p \in Open'} \cup {exchange[pid].msg}
    BY <1>3, <1>5, <2>1
  <2>3. Started' = Started
    BY <1>1, <2>2 DEF Started
  <2>4. QED
    BY <1>1, <2>1, <2>3 DEF Routed, RoutedIn
<1>7. MessagesOK'
  BY <1>1, <1>3, <1>6 DEF RInv, MessagesOK
<1>8. HistoryOK'
  BY <1>1, <1>6 DEF RInv, HistoryOK
<1>9. ASSUME NEW p \in Open' PROVE RoutedOK(p)'
  <2>1. RoutedOK(p)
    BY <1>6 DEF RInv
  <2>2. OnWay(down', write_queue', Ack("PUBREC", p)) => OnWay(down, write_queue, Ack("PUBREC", p))
    BY <1>2 DEF LessAcks, AckType
  <2>3. QED
    BY <1>1, <1>6, <2>1, <2>2 DEF RoutedOK
<1>10. QED
  BY <1>4, <1>7, <1>8, <1>9 DEF RInv

\* PUBLISH: a message routed on this connection is not routed again, one whose
\* exchange is complete is not either.
LEMMA RInvPublish ==
  ASSUME IInv, RInv, HandlePublish
  PROVE  /\ RInv'
         /\ \/ UNCHANGED routings
            \/ \E m \in Msg :
                 /\ m \notin RoutedIn(conn) /\ m \notin complete
                 /\ routings' = Append(routings, [msg |-> m, conn |-> conn])
<1> DEFINE R == [msg : Msg, conn : 1 .. MAX_CONN]
<1>1. /\ TypeOK /\ (\A p \in Pid : PidOK(p)) /\ connected /\ up # <<>> /\ up' = Tail(up)
      /\ up \in Seq(UpPacket) /\ routings \in Seq(R) /\ conn \in 1 .. MAX_CONN
      /\ UNCHANGED <<exchange, complete, conn, connected, down>>
  BY DEF IInv, TypeOK, HandlePublish, Handles, publisher
<1>2. PICK pid \in Pid, m \in Msg : Head(up) = Publish(pid, m)
  BY <1>1, UpHead DEF HandlePublish, Handles
<1>3. /\ received_qos2' = received_qos2 \cup {pid}
      /\ write_queue' = Queue0(write_queue, Ack("PUBREC", pid))
      /\ routings' = IF pid \in received_qos2 THEN routings
                     ELSE Append(routings, [msg |-> m, conn |-> conn])
  BY <1>2 DEF HandlePublish, Publish
<1>4. Contains(up, Publish(pid, m))
  BY <1>1, <1>2, TailOrder
<1>5. pid \in Open /\ exchange[pid].msg = m
  BY <1>1, <1>4 DEF PidOK, Consistent, Open
<1>6. /\ RoutedOK(pid) /\ m \notin complete /\ m \in Started
      /\ \A p \in Open : p # pid => exchange[p].msg # m
  BY <1>5 DEF RInv, MessagesOK, Started
<1>7. pid \notin received_qos2 => m \notin RoutedIn(conn)
  BY <1>1, <1>4, <1>5, <1>6 DEF RoutedOK
<1>8. /\ pid \in received_qos2 => routings' = routings /\ m \in Routed
      /\ pid \notin received_qos2 =>
           /\ Len(routings) \in Nat /\ DOMAIN routings = 1 .. Len(routings)
           /\ DOMAIN routings' = 1 .. Len(routings) + 1
           /\ \A i \in 1 .. Len(routings) : routings'[i] = routings[i]
           /\ routings'[Len(routings) + 1].msg = m /\ routings'[Len(routings) + 1].conn = conn
  <2>1. CASE pid \in received_qos2
    <3>1. m \in RoutedIn(conn)
      BY <1>1, <1>5, <2>1 DEF PidOK, Consistent
    <3>2. QED
      BY <1>3, <2>1, <3>1 DEF RoutedIn, Routed, ToSet
  <2>2. CASE pid \notin received_qos2
    <3> DEFINE r == [msg |-> m, conn |-> conn]
    <3>1. r \in R /\ r.msg = m /\ r.conn = conn /\ routings' = Append(routings, r)
      BY <1>1, <1>3, <2>2
    <3> HIDE DEF R, r
    <3>2. /\ routings' \in Seq(R) /\ Len(routings) \in Nat /\ Len(routings') = Len(routings) + 1
          /\ \A i \in 1 .. Len(routings) : routings'[i] = routings[i]
          /\ routings'[Len(routings) + 1] = r
          /\ DOMAIN routings = 1 .. Len(routings)
      BY <1>1, <3>1, AppendProperties, LenProperties
    <3>3. DOMAIN routings' = 1 .. Len(routings')
      BY <3>2, LenProperties
    <3>4. QED
      BY <2>2, <3>1, <3>2, <3>3
  <2>3. QED
    BY <2>1, <2>2
<1> HIDE DEF R
<1>9. /\ Open' = Open /\ Started' = Started /\ m \in Routed' /\ Routed \subseteq Routed'
      /\ \A n : n \in RoutedIn(conn)' => n \in RoutedIn(conn) \/ n = m
  <2>1. Open' = Open /\ Started' = Started
    BY <1>1 DEF Open, Started
  <2>2. m \in Routed' /\ Routed \subseteq Routed'
    BY <1>8 DEF Routed
  <2>3. \A n : n \in RoutedIn(conn)' => n \in RoutedIn(conn) \/ n = m
    BY <1>1, <1>8, SMTT(30) DEF RoutedIn, ToSet
  <2>4. QED
    BY <2>1, <2>2, <2>3
<1>10. MessagesOK'
  BY <1>1, <1>9 DEF RInv, MessagesOK
<1>11. HistoryOK'
  <2>1. conn <= conn
    BY <1>1
  <2>2. ASSUME NEW i \in DOMAIN routings'
        PROVE  routings'[i].msg \in Started /\ routings'[i].conn <= conn
    <3>1. CASE pid \in received_qos2
      BY <1>8, <2>2, <3>1 DEF RInv, HistoryOK
    <3>2. CASE pid \notin received_qos2
      <4>1. CASE i \in 1 .. Len(routings)
        BY <1>8, <3>2, <4>1 DEF RInv, HistoryOK
      <4>2. CASE i = Len(routings) + 1
        BY <1>6, <1>8, <2>1, <3>2, <4>2
      <4>3. QED
        BY <1>8, <2>2, <3>2, <4>1, <4>2
    <3>3. QED
      BY <3>1, <3>2
  <2>3. QED
    BY <1>1, <1>9, <2>2 DEF HistoryOK
<1>12. ASSUME NEW p \in Open PROVE RoutedOK(p)'
  <2>1. p \in Pid /\ exchange[p].msg \in Msg /\ RoutedOK(p)
    BY <1>1, ExchangeType DEF Open, RInv
  <2>2. CASE p = pid
    <3>1. exchange[p].msg \in Routed' /\ p \in received_qos2'
      BY <1>3, <1>5, <1>9, <2>2
    <3>2. QED
      BY <1>1, <3>1 DEF RoutedOK
  <2>3. CASE p # pid
    <3>1. OnWay(down, write_queue', Ack("PUBREC", p)) => OnWay(down, write_queue, Ack("PUBREC", p))
      <4>1. Ack("PUBREC", pid) # Ack("PUBREC", p)
        BY <2>1, <2>3, PacketsDiffer DEF AckType
      <4>2. \A x : OnWay(down, write_queue', x) => OnWay(down, write_queue, x) \/ x = Ack("PUBREC", pid)
        BY <1>1, <1>3, AckQueued DEF AckType
      <4>3. QED
        BY <4>1, <4>2
    <3>2. exchange[p].msg \in RoutedIn(conn)' => exchange[p].msg \in RoutedIn(conn)
      BY <1>6, <1>9, <2>3
    <3>3. Contains(up', Publish(p, exchange[p].msg)) => Contains(up, Publish(p, exchange[p].msg))
      BY <1>1, TailOrder
    <3>4. QED
      BY <1>1, <1>3, <1>9, <2>1, <3>1, <3>2, <3>3 DEF RoutedOK
  <2>4. QED
    BY <2>2, <2>3
<1>13. RInv'
  BY <1>9, <1>10, <1>11, <1>12 DEF RInv
<1>14. QED
  BY <1>3, <1>6, <1>7, <1>13

\* PUBREL takes an id out of received_qos2 when no PUBLISH of its exchange can
\* arrive any more, or its message was not routed.
LEMMA RInvPubrel ==
  ASSUME IInv, RInv, HandlePubrel
  PROVE  RInv'
<1>1. /\ TypeOK /\ (\A p \in Pid : PidOK(p)) /\ up # <<>> /\ up' = Tail(up) /\ up \in Seq(UpPacket)
      /\ UNCHANGED <<exchange, complete, routings, conn, connected, down>>
  BY DEF IInv, TypeOK, HandlePubrel, Handles, publisher
<1>2. PICK pid \in Pid : Head(up) = Pubrel(pid)
  BY <1>1, UpHead DEF HandlePubrel, Handles
<1>3. /\ received_qos2' = received_qos2 \ {pid}
      /\ write_queue' = Queue0(write_queue, Ack("PUBCOMP", pid))
  BY <1>2 DEF HandlePubrel, Pubrel
<1>4. ASSUME NEW p \in Open
      PROVE  /\ OnWay(down', write_queue', Ack("PUBREC", p)) =>
                  OnWay(down, write_queue, Ack("PUBREC", p))
             /\ Contains(up', Publish(p, exchange[p].msg)) =>
                  Contains(up, Publish(p, exchange[p].msg))
             /\ p \in received_qos2
                  /\ (exchange[p].phase = "rec" \/ Contains(up', Publish(p, exchange[p].msg)))
                => p \in received_qos2'
  <2>1. /\ p \in Pid /\ exchange[p].msg \in Msg /\ exchange[p].phase \in {"rec", "comp"}
        /\ PidOK(p)
    BY <1>1, ExchangeType DEF Open
  <2>2. OnWay(down', write_queue', Ack("PUBREC", p)) => OnWay(down, write_queue, Ack("PUBREC", p))
    <3>1. Ack("PUBCOMP", pid) # Ack("PUBREC", p)
      BY <2>1, PacketsDiffer DEF AckType
    <3>2. \A x : OnWay(down, write_queue', x) => OnWay(down, write_queue, x) \/ x = Ack("PUBCOMP", pid)
      BY <1>1, <1>3, AckQueued DEF AckType
    <3>3. QED
      BY <1>1, <3>1, <3>2
  <2>3. Contains(up', Publish(p, exchange[p].msg)) =>
          /\ Contains(up, Publish(p, exchange[p].msg))
          /\ Precedes(up, Pubrel(pid), Publish(p, exchange[p].msg))
    BY <1>1, <1>2, TailOrder
  <2>4. Contains(up, Pubrel(pid))
    BY <1>1, <1>2, TailOrder
  <2>5. p = pid => \/ p \notin received_qos2
                   \/ exchange[p].phase = "comp" /\ ~Contains(up', Publish(p, exchange[p].msg))
    BY <2>1, <2>3, <2>4 DEF PidOK, Consistent
  <2>6. QED
    BY <1>3, <2>1, <2>2, <2>3, <2>5
<1>5. QED
  BY <1>1, <1>4, Quiet

\* The packets that are thinned by the remaining steps.
LEMMA RInvResend ==
  ASSUME IInv, RInv, NEW pid \in Pid, Resend(pid)
  PROVE  RInv'
<1>1. /\ TypeOK /\ pid \in Open /\ up' = Append(up, Unanswered(pid)) /\ up \in Seq(UpPacket)
      /\ exchange[pid].phase \in {"rec", "comp"} /\ exchange[pid].msg \in Msg
      /\ UNCHANGED <<exchange, complete, received_qos2, write_queue, down, conn, connected, routings>>
  BY ExchangeType DEF IInv, TypeOK, Resend, client, publisher, Open
<1>2. \/ exchange[pid].phase = "rec" /\ Unanswered(pid) = Publish(pid, exchange[pid].msg)
      \/ exchange[pid].phase = "comp" /\ Unanswered(pid) = Pubrel(pid)
  BY <1>1 DEF Unanswered
<1>3. Unanswered(pid) \in UpPacket
  BY <1>1, <1>2 DEF UpPacket
<1>4. ASSUME NEW p \in Open, exchange[p].phase = "comp" \/ p # pid,
             Contains(up', Publish(p, exchange[p].msg))
      PROVE  Contains(up, Publish(p, exchange[p].msg))
  <2>1. p \in Pid /\ exchange[p].msg \in Msg
    BY <1>1, ExchangeType DEF Open
  <2>2. Unanswered(pid) # Publish(p, exchange[p].msg)
    BY <1>1, <1>2, <1>4, <2>1, PacketsDiffer
  <2>3. QED
    BY <1>1, <1>3, <1>4, <2>2, AppendOrder
<1>5. QED
  BY <1>1, <1>4, Quiet

\* A forward to the publisher evicts acknowledgements and adds none, or drops the
\* client.
LEMMA RInvDeliver ==
  ASSUME IInv, RInv, NEW reliable \in BOOLEAN, DeliverTo(reliable)
  PROVE  RInv'
<1>1. TypeOK /\ connected /\ UNCHANGED <<exchange, complete, conn, routings>>
  BY DEF IInv, DeliverTo, publisher
<1>2. CASE reliable /\ ~Accepts1(write_queue)
  <2>1. /\ ~connected' /\ up' = <<>> /\ down' = <<>> /\ write_queue' = <<>>
    BY <1>2 DEF DeliverTo, NoClient
  <2>2. \A x : ~Contains(up', x) /\ ~OnWay(down', write_queue', x)
    BY <2>1 DEF Contains, Holds, OnWay
  <2>3. QED
    BY <1>1, <2>1, <2>2, Quiet
<1>3. CASE ~(reliable /\ ~Accepts1(write_queue))
  <2>1. /\ UNCHANGED <<received_qos2, connected, up, down>>
        /\ write_queue' = IF reliable THEN Queue1(write_queue, Forward) ELSE Queue0(write_queue, Forward)
    BY <1>3 DEF DeliverTo
  <2>2. Forward \in DownPacket /\ write_queue \in QueueOf(DownPacket)
    BY <1>1 DEF DownPacket, TypeOK, QueueOf
  <2>3. \A x : Holds(write_queue', x) => Holds(write_queue, x) \/ x = Forward
    <3>1. CASE reliable
      BY <1>3, <2>1, <2>2, <3>1, Queue1Order
    <3>2. CASE ~reliable
      BY <2>1, <2>2, <3>2, Queue0Order
    <3>3. QED
      BY <3>1, <3>2
  <2>4. ASSUME NEW p \in Open
        PROVE  OnWay(down', write_queue', Ack("PUBREC", p)) =>
                 OnWay(down, write_queue, Ack("PUBREC", p))
    <3>1. Forward # Ack("PUBREC", p)
      BY PacketsDiffer DEF Open, AckType
    <3>2. QED
      BY <2>1, <2>3, <3>1 DEF OnWay
  <2>5. QED
    BY <1>1, <2>1, <2>4, Quiet
<1>4. QED
  BY <1>2, <1>3

\* A lost connection takes every packet under way with it.
LEMMA RInvLose ==
  ASSUME IInv, RInv, LoseConnection
  PROVE  RInv'
<1>1. /\ ~connected' /\ up' = <<>> /\ down' = <<>> /\ write_queue' = <<>>
      /\ UNCHANGED <<exchange, complete, conn, routings>>
  BY DEF LoseConnection, NoClient, publisher
<1>2. \A x : ~Contains(up', x) /\ ~OnWay(down', write_queue', x)
  BY <1>1 DEF Contains, Holds, OnWay
<1>3. QED
  BY <1>1, <1>2, Quiet

\* write_pending moves packets from the queue to the socket and no more.
LEMMA RInvFlush ==
  ASSUME IInv, RInv, Flush
  PROVE  RInv'
<1>1. /\ write_queue # <<>> /\ down' = Append(down, Head(write_queue).pkt)
      /\ write_queue' = Tail(write_queue)
      /\ write_queue \in QueueOf(DownPacket) /\ down \in Seq(DownPacket)
      /\ UNCHANGED <<received_qos2, exchange, complete, up, conn, connected, routings>>
  BY DEF IInv, TypeOK, QueueOf, Flush, publisher
<1>2. \A p \in Pid : LessUp(p, up', up) /\ LessAcks(p, down', write_queue', down, write_queue)
  BY <1>1, FlushAcks, LessSame
<1>3. QED
  BY <1>1, <1>2, QuietThinner

\* The publisher reads what changes nothing for it.
LEMMA RInvReadQuiet ==
  ASSUME IInv, RInv, PublisherRead, UNCHANGED <<exchange, complete, up>>
  PROVE  RInv'
<1>1. /\ down # <<>> /\ down' = Tail(down) /\ down \in Seq(DownPacket)
      /\ UNCHANGED <<received_qos2, write_queue, conn, connected, routings>>
  BY DEF IInv, TypeOK, PublisherRead, client
<1>2. \A p \in Pid : LessUp(p, up', up) /\ LessAcks(p, down', write_queue', down, write_queue)
  BY <1>1, ReadAcks, LessSame
<1>3. QED
  BY <1>1, <1>2, QuietThinner

----------------------------------------------------------------------------
(* The refinement.                                                         *)

RoutingsFinite == \A m : /\ IsFiniteSet({i \in DOMAIN routings : routings[i].msg = m})
                          /\ Routings(m) \in Nat

\* The routings of a message are finitely many, and a routed message has one.
LEMMA HistoryFinite ==
  ASSUME TypeOK
  PROVE  /\ RoutingsFinite
         /\ \A m \in Routed : Routings(m) > 0
<1>1. DOMAIN routings = 1 .. Len(routings) /\ Len(routings) \in Nat
  <2> DEFINE R == [msg : Msg, conn : 1 .. MAX_CONN]
  <2>1. routings \in Seq(R)
    BY DEF TypeOK
  <2> HIDE DEF R
  <2>2. QED
    BY <2>1, LenProperties
<1>2. IsFiniteSet(DOMAIN routings)
  BY <1>1, FS_Interval
<1>3. ASSUME NEW m
      PROVE  /\ IsFiniteSet({i \in DOMAIN routings : routings[i].msg = m})
             /\ Routings(m) \in Nat
  <2>1. {i \in DOMAIN routings : routings[i].msg = m} \subseteq DOMAIN routings
    OBVIOUS
  <2>2. IsFiniteSet({i \in DOMAIN routings : routings[i].msg = m})
    BY <1>2, <2>1, FS_Subset
  <2>3. QED
    BY <2>2, FS_CardinalityType DEF Routings
<1>4. ASSUME NEW m \in Routed PROVE Routings(m) > 0
  <2>1. {i \in DOMAIN routings : routings[i].msg = m} # {}
    BY DEF Routed
  <2>2. Routings(m) # 0
    BY <1>3, <2>1, FS_EmptySet DEF Routings
  <2> DEFINE k == Routings(m)
  <2>3. k \in Nat /\ k # 0
    BY <1>3, <2>2
  <2> HIDE DEF k
  <2>4. k > 0
    BY <2>3
  <2>5. QED
    BY <2>4 DEF k
<1>5. QED
  BY <1>3, <1>4 DEF RoutingsFinite

\* Routing a message counts it once, and adds it to those of this connection.
LEMMA RouteCounts ==
  ASSUME TypeOK, NEW m \in Msg, UNCHANGED conn,
         routings' = Append(routings, [msg |-> m, conn |-> conn])
  PROVE  /\ \A n \in Msg : Routings(n)' = IF n = m THEN Routings(n) + 1 ELSE Routings(n)
         /\ RoutedIn(conn)' = RoutedIn(conn) \cup {m}
<1> DEFINE R == [msg : Msg, conn : 1 .. MAX_CONN]
           r == [msg |-> m, conn |-> conn]
           k == Len(routings) + 1
<1>1. routings \in Seq(R) /\ r \in R /\ r.msg = m /\ r.conn = conn /\ routings' = Append(routings, r)
  BY DEF TypeOK
<1> HIDE DEF R, r
<1>2. /\ Len(routings) \in Nat /\ DOMAIN routings = 1 .. Len(routings)
      /\ \A i \in 1 .. Len(routings) : routings'[i] = routings[i]
      /\ routings'[k] = r /\ DOMAIN routings' = 1 .. k
  <2>1. /\ routings' \in Seq(R) /\ Len(routings') = k
        /\ \A i \in 1 .. Len(routings) : routings'[i] = routings[i]
        /\ routings'[k] = r
    BY <1>1, AppendProperties
  <2>2. QED
    BY <1>1, <2>1, LenProperties
<1>3. DOMAIN routings' = DOMAIN routings \cup {k} /\ k \notin DOMAIN routings
  BY <1>2
<1> HIDE DEF k
<1>4. ASSUME NEW n \in Msg
      PROVE  Routings(n)' = IF n = m THEN Routings(n) + 1 ELSE Routings(n)
  <2> DEFINE W == {i \in DOMAIN routings : routings[i].msg = n}
             W2 == {i \in DOMAIN routings' : routings'[i].msg = n}
  <2>1. W2 = IF n = m THEN W \cup {k} ELSE W
    BY <1>1, <1>2, <1>3
  <2>2. IsFiniteSet(W) /\ k \notin W
    BY <1>3, HistoryFinite DEF RoutingsFinite
  <2>3. Routings(n) = Cardinality(W) /\ Routings(n)' = Cardinality(W2)
    BY DEF Routings
  <2> HIDE DEF W, W2
  <2>4. Cardinality(W \cup {k}) = Cardinality(W) + 1
    BY <2>2, FS_AddElement
  <2>5. QED
    BY <2>1, <2>3, <2>4
<1>5. RoutedIn(conn)' = RoutedIn(conn) \cup {m}
  <2>1. ToSet(routings') = ToSet(routings) \cup {r}
    BY <1>2, <1>3 DEF ToSet
  <2>2. QED
    BY <1>1, <2>1 DEF RoutedIn
<1>6. QED
  BY <1>4, <1>5

Current == IF connected THEN RoutedIn(conn) ELSE {}
Count == [m \in Msg |-> Routings(m)]

\* The initial states map to initial states.
LEMMA PromiseInit == Init => Promise!Init
<1> SUFFICES ASSUME Init PROVE Promise!Init
  OBVIOUS
<1>1. DOMAIN routings = {} /\ complete = {}
  BY DEF Init
<1>2. \A m : Routings(m) = 0
  BY <1>1, FS_EmptySet DEF Routings
<1>3. RoutedIn(conn) = {}
  BY <1>1 DEF RoutedIn, ToSet
<1>4. QED
  BY <1>1, <1>2, <1>3 DEF Promise!Init

\* A step that routes and completes nothing changes nothing of the promise.
LEMMA PromiseSame ==
  ASSUME UNCHANGED <<routings, conn, connected, complete>>
  PROVE  UNCHANGED Promise!vars
BY DEF Promise!vars, Routings, RoutedIn

\* A lost connection routes and completes nothing: the promise loses it too.
LEMMA PromiseLoses ==
  ASSUME UNCHANGED <<routings, complete>>, connected' = FALSE
  PROVE  Promise!Next
BY DEF Promise!Next, Promise!LoseConnection, Routings

\* Every step keeps RInv and is a step of RouteOnce or changes nothing of it.
LEMMA PromiseStep ==
  ASSUME IInv, RInv, [Next]_vars
  PROVE  RInv' /\ [Promise!Next]_(Promise!vars)
<1>1. TypeOK
  BY DEF IInv
<1>2. ASSUME NEW pid \in Pid, Resend(pid) PROVE RInv' /\ UNCHANGED Promise!vars
  BY <1>2, RInvResend, PromiseSame DEF Resend, publisher
<1>3. ASSUME NEW pid \in Pid, NEW m \in Msg, Start(pid, m) PROVE RInv' /\ UNCHANGED Promise!vars
  BY <1>3, RInvStart, PromiseSame DEF Start
<1>4. CASE PublisherRead
  <2>1. ASSUME UNCHANGED <<exchange, complete, up>> PROVE RInv' /\ UNCHANGED Promise!vars
    BY <1>4, <2>1, RInvReadQuiet, PromiseSame DEF PublisherRead
  <2>2. CASE ReadForward
    BY <2>1, <2>2 DEF ReadForward, publisher
  <2>3. ASSUME NEW pid \in Pid, ReadPubrec(pid) PROVE RInv' /\ UNCHANGED Promise!vars
    <3>1. CASE pid \in Open
      BY <1>4, <2>3, <3>1, RInvPubrec, PromiseSame DEF ReadPubrec, PublisherRead
    <3>2. CASE pid \notin Open
      BY <2>1, <2>3, <3>2 DEF ReadPubrec
    <3>3. QED
      BY <3>1, <3>2
  <2>4. ASSUME NEW pid \in Pid, ReadPubcomp(pid) PROVE RInv' /\ [Promise!Next]_(Promise!vars)
    <3>1. CASE exchange[pid].phase = "comp"
      <4>1. RInv' /\ exchange[pid].msg \in Routed
        BY <1>4, <2>4, <3>1, RInvPubcomp
      <4>2. /\ complete' = complete \cup {exchange[pid].msg} /\ exchange[pid].msg \in Msg
            /\ UNCHANGED <<routings, conn, connected>>
        BY <1>1, <1>4, <2>4, <3>1, ExchangeType DEF ReadPubcomp, PublisherRead, Idle
      <4>3. Routings(exchange[pid].msg) > 0
        BY <1>1, <4>1, HistoryFinite
      <4>4. Promise!Complete(exchange[pid].msg)
        BY <4>2, <4>3 DEF Promise!Complete, Routings, RoutedIn
      <4>5. QED
        BY <4>1, <4>2, <4>4 DEF Promise!Next
    <3>2. CASE exchange[pid].phase # "comp"
      BY <2>1, <2>4, <3>2 DEF ReadPubcomp, publisher
    <3>3. QED
      BY <3>1, <3>2
  <2>5. QED
    BY <1>4, <2>2, <2>3, <2>4 DEF PublisherRead
<1>5. CASE Reconnect
  <2>1. RInv' /\ RoutedIn(conn)' = {}
    BY <1>5, RInvReconnect
  <2>2. ~connected /\ connected' = TRUE /\ UNCHANGED <<routings, complete>>
    BY <1>5 DEF Reconnect, publisher
  <2>3. UNCHANGED Promise!vars
    BY <2>1, <2>2 DEF Promise!vars, Routings
  <2>4. QED
    BY <2>1, <2>3
<1>6. CASE HandlePublish
  <2>1. RInv'
    BY <1>6, RInvPublish
  <2>2. connected /\ connected' = connected /\ UNCHANGED <<complete, conn>>
    BY <1>6 DEF HandlePublish, Handles, publisher
  <2>3. CASE UNCHANGED routings
    BY <2>1, <2>2, <2>3, PromiseSame
  <2>4. ASSUME NEW m \in Msg, m \notin RoutedIn(conn), m \notin complete,
               routings' = Append(routings, [msg |-> m, conn |-> conn])
        PROVE  Promise!Next
    <3>1. /\ \A n \in Msg : Routings(n)' = IF n = m THEN Routings(n) + 1 ELSE Routings(n)
          /\ RoutedIn(conn)' = RoutedIn(conn) \cup {m}
      BY <1>1, <2>2, <2>4, RouteCounts
    <3>2. Promise!Route(m)
      BY <2>2, <2>4, <3>1 DEF Promise!Route
    <3>3. QED
      BY <3>2 DEF Promise!Next
  <2>5. QED
    BY <1>6, <2>1, <2>3, <2>4, RInvPublish
<1>7. CASE HandlePubrel
  BY <1>7, RInvPubrel, PromiseSame DEF HandlePubrel, publisher
<1>8. CASE Flush
  BY <1>8, RInvFlush, PromiseSame DEF Flush, publisher
<1>9. CASE LoseConnection
  BY <1>9, RInvLose, PromiseLoses DEF LoseConnection, NoClient, publisher
<1>10. ASSUME NEW reliable \in BOOLEAN, DeliverTo(reliable)
       PROVE  RInv' /\ [Promise!Next]_(Promise!vars)
  <2>1. RInv' /\ UNCHANGED <<complete, conn, routings>>
    BY <1>10, RInvDeliver DEF DeliverTo, publisher
  <2>2. connected' = FALSE \/ UNCHANGED connected
    BY <1>10 DEF DeliverTo, NoClient
  <2>3. QED
    BY <2>1, <2>2, PromiseSame, PromiseLoses
<1>11. CASE UNCHANGED vars
  <2>1. \A p \in Pid : LessUp(p, up', up) /\ LessAcks(p, down', write_queue', down, write_queue)
    BY <1>11, LessSame DEF vars, client
  <2>2. UNCHANGED <<exchange, complete, routings, conn, connected, received_qos2>>
    BY <1>11 DEF vars, publisher, client
  <2>3. QED
    BY <2>1, <2>2, QuietThinner, PromiseSame
<1>12. QED
  BY <1>2, <1>3, <1>4, <1>5, <1>6, <1>7, <1>8, <1>9, <1>10, <1>11 DEF Next

\* However packets are repeated, acknowledgements dropped or evicted and
\* connections lost, the PUBLISH and PUBREL handlers implement RouteOnce: no
\* message is routed twice within a connection or after its exchange is complete,
\* and no exchange completes unrouted.
THEOREM HandlersRouteOnce == Spec => RoutesOnce
<1>1. Init => RInv /\ Promise!Init
  BY RInvInit, PromiseInit
<1>2. IInv /\ RInv /\ [Next]_vars => RInv' /\ [Promise!Next]_(Promise!vars)
  BY PromiseStep
<1>3. QED
  BY <1>1, <1>2, InboundInductive, PTL DEF Spec, RoutesOnce, Promise!Spec
=============================================================================
