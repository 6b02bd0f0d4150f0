---------------------------- MODULE ThreadedProofs ----------------------------
(***************************************************************************)
(* The threaded broker: all subscribers see the messages in one order, for *)
(* every number of connections, messages and subscriptions.                *)
(*                                                                         *)
(* A channel only grows while its sender holds the mutex, and the message  *)
(* a holder sends is the latest of every stream until it lets go.  Which   *)
(* subscriptions there are plays no part.                                  *)
(***************************************************************************)
EXTENDS ThreadedBroker, VectorProofs

----------------------------------------------------------------------------
(* Order in sequences.                                                     *)

In(s, x) == \E i \in DOMAIN s : s[i] = x

\* A sequence of one element.
LEMMA SingleOrder ==
  ASSUME NEW e
  PROVE  /\ \A x : In(<<e>>, x) <=> x = e
         /\ \A x, y : ~Before(<<e>>, x, y)
<1>1. DOMAIN <<e>> = {1} /\ <<e>>[1] = e
  OBVIOUS
<1>2. QED
  BY <1>1 DEF In, Before

\* No element, no order.
LEMMA EmptyOrder ==
  \A x, y : ~In(<<>>, x) /\ ~Before(<<>>, x, y)
<1>1. DOMAIN <<>> = {}
  OBVIOUS
<1>2. QED
  BY <1>1 DEF In, Before

\* What is in a concatenation, and in which order.
LEMMA ConcatOrder ==
  ASSUME NEW S, NEW s \in Seq(S), NEW t \in Seq(S)
  PROVE  /\ \A x : In(s \o t, x) <=> In(s, x) \/ In(t, x)
         /\ \A x, y : Before(s \o t, x, y) <=>
              Before(s, x, y) \/ Before(t, x, y) \/ (In(s, x) /\ In(t, y))
<1> DEFINE u == s \o t
           m == Len(s)
           n == Len(t)
<1>1. /\ m \in Nat /\ n \in Nat
      /\ DOMAIN s = 1 .. m /\ DOMAIN t = 1 .. n /\ DOMAIN u = 1 .. m + n
      /\ \A i \in 1 .. m + n : u[i] = IF i <= m THEN s[i] ELSE t[i - m]
  BY ConcatProperties, LenProperties
<1> HIDE DEF u, m, n
<1>2. /\ \A i \in 1 .. m : i \in 1 .. m + n /\ u[i] = s[i]
      /\ \A i \in 1 .. n : m + i \in 1 .. m + n /\ u[m + i] = t[i] /\ (m + i) - m = i
      /\ \A i \in 1 .. m + n : i \in 1 .. m \/ (i - m \in 1 .. n /\ u[i] = t[i - m])
  BY <1>1
<1>3. ASSUME NEW x PROVE In(u, x) <=> In(s, x) \/ In(t, x)
  <2>1. ASSUME In(u, x) PROVE In(s, x) \/ In(t, x)
    <3>1. PICK i \in 1 .. m + n : u[i] = x
      BY <1>1, <2>1 DEF In
    <3>2. (i \in 1 .. m /\ s[i] = x) \/ (i - m \in 1 .. n /\ t[i - m] = x)
      BY <1>2, <3>1
    <3>3. QED
      BY <1>1, <3>2 DEF In
  <2>2. In(s, x) => In(u, x)
    BY <1>1, <1>2 DEF In
  <2>3. In(t, x) => In(u, x)
    BY <1>1, <1>2 DEF In
  <2>4. QED
    BY <2>1, <2>2, <2>3
<1>4. ASSUME NEW x, NEW y, Before(u, x, y), ~Before(s, x, y), ~Before(t, x, y)
      PROVE  In(s, x) /\ In(t, y)
  <2>1. PICK i \in 1 .. m + n, j \in 1 .. m + n : i < j /\ u[i] = x /\ u[j] = y
    BY <1>1, <1>4 DEF Before
  <2>2. i \in 1 .. m
    <3>1. SUFFICES ASSUME i \notin 1 .. m PROVE FALSE
      OBVIOUS
    <3>2. j \notin 1 .. m
      BY <1>1, <2>1, <3>1
    <3>3. i - m \in 1 .. n /\ j - m \in 1 .. n /\ i - m < j - m /\ t[i - m] = x /\ t[j - m] = y
      BY <1>1, <1>2, <2>1, <3>1, <3>2
    <3>4. QED
      BY <1>1, <1>4, <3>3 DEF Before
  <2>3. j \notin 1 .. m
    BY <1>1, <1>2, <1>4, <2>1, <2>2 DEF Before
  <2>4. QED
    BY <1>1, <1>2, <2>1, <2>2, <2>3 DEF In
<1>5. ASSUME NEW x, NEW y, Before(s, x, y) PROVE Before(u, x, y)
  BY <1>1, <1>2, <1>5 DEF Before
<1>6. ASSUME NEW x, NEW y, Before(t, x, y) PROVE Before(u, x, y)
  <2>1. PICK i \in 1 .. n, j \in 1 .. n : i < j /\ t[i] = x /\ t[j] = y
    BY <1>1, <1>6 DEF Before
  <2>2. m + i < m + j
    BY <1>1, <2>1
  <2>3. /\ m + i \in 1 .. m + n /\ m + j \in 1 .. m + n
        /\ u[m + i] = x /\ u[m + j] = y
    BY <1>1, <1>2, <2>1
  <2>4. DOMAIN u = 1 .. m + n
    BY <1>1
  <2>5. QED
    BY <2>2, <2>3, <2>4 DEF Before
<1>7. ASSUME NEW x, NEW y, In(s, x), In(t, y) PROVE Before(u, x, y)
  <2>1. PICK i \in 1 .. m, j \in 1 .. n : s[i] = x /\ t[j] = y
    BY <1>1, <1>7 DEF In
  <2>2. i < m + j
    BY <1>1, <2>1
  <2>3. i \in 1 .. m + n /\ m + j \in 1 .. m + n /\ u[i] = x /\ u[m + j] = y
    BY <1>1, <1>2, <2>1
  <2>4. DOMAIN u = 1 .. m + n
    BY <1>1
  <2>5. QED
    BY <2>2, <2>3, <2>4 DEF Before
<1>8. QED
  BY <1>3, <1>4, <1>5, <1>6, <1>7 DEF u

\* A sequence grows at its end.
LEMMA AppendOrder ==
  ASSUME NEW S, NEW s \in Seq(S), NEW e \in S
  PROVE  /\ Append(s, e) \in Seq(S)
         /\ \A x : In(Append(s, e), x) <=> In(s, x) \/ x = e
         /\ \A x, y : Before(Append(s, e), x, y) <=> Before(s, x, y) \/ (In(s, x) /\ y = e)
<1>1. <<e>> \in Seq(S) /\ Append(s, e) = s \o <<e>> /\ Append(s, e) \in Seq(S)
  BY AppendIsConcat, AppendProperties
<1> DEFINE f == <<e>>
<1>2. /\ \A x : In(s \o f, x) <=> In(s, x) \/ In(f, x)
      /\ \A x, y : Before(s \o f, x, y) <=>
           Before(s, x, y) \/ Before(f, x, y) \/ (In(s, x) /\ In(f, y))
  BY <1>1, ConcatOrder
<1>3. (\A x : In(f, x) <=> x = e) /\ \A x, y : ~Before(f, x, y)
  BY SingleOrder
<1>4. Append(s, e) = s \o f /\ Append(s, e) \in Seq(S)
  BY <1>1
<1> HIDE DEF f
<1>5. QED
  BY <1>2, <1>3, <1>4

\* A sequence is consumed at its head.
LEMMA TailOrder ==
  ASSUME NEW S, NEW s \in Seq(S), s # <<>>
  PROVE  /\ Head(s) \in S /\ Tail(s) \in Seq(S)
         /\ \A x : In(s, x) <=> x = Head(s) \/ In(Tail(s), x)
         /\ \A x, y : Before(s, x, y) <=>
              Before(Tail(s), x, y) \/ (x = Head(s) /\ In(Tail(s), y))
<1> DEFINE h == Head(s)
           t == Tail(s)
           n == Len(t)
<1>1. /\ h \in S /\ t \in Seq(S) /\ n \in Nat /\ Len(s) = n + 1
      /\ DOMAIN s = 1 .. n + 1 /\ DOMAIN t = 1 .. n
      /\ s[1] = h /\ \A i \in 1 .. n : t[i] = s[i + 1]
  BY HeadTailProperties, LenProperties, EmptySeq
<1> HIDE DEF h, t, n
<1>2. /\ 1 \in 1 .. n + 1
      /\ \A i \in 1 .. n : i + 1 \in 1 .. n + 1 /\ 1 < i + 1 /\ s[i + 1] = t[i]
      /\ \A i \in 1 .. n + 1 : i = 1 \/ (i - 1 \in 1 .. n /\ s[i] = t[i - 1])
  BY <1>1
<1>3. ASSUME NEW x PROVE In(s, x) <=> x = h \/ In(t, x)
  <2>1. ASSUME In(s, x) PROVE x = h \/ In(t, x)
    <3>1. PICK i \in 1 .. n + 1 : s[i] = x
      BY <1>1, <2>1 DEF In
    <3>2. i = 1 \/ (i - 1 \in 1 .. n /\ t[i - 1] = x)
      BY <1>2, <3>1
    <3>3. QED
      BY <1>1, <3>1, <3>2 DEF In
  <2>2. In(s, h)
    BY <1>1, <1>2 DEF In
  <2>3. In(t, x) => In(s, x)
    BY <1>1, <1>2 DEF In
  <2>4. QED
    BY <2>1, <2>2, <2>3
<1>4. ASSUME NEW x, NEW y, Before(s, x, y) PROVE Before(t, x, y) \/ (x = h /\ In(t, y))
  <2>1. PICK i \in 1 .. n + 1, j \in 1 .. n + 1 : i < j /\ s[i] = x /\ s[j] = y
    BY <1>1, <1>4 DEF Before
  <2>2. j - 1 \in 1 .. n /\ t[j - 1] = y
    BY <1>1, <1>2, <2>1
  <2>3. CASE i = 1
    BY <1>1, <2>1, <2>2, <2>3 DEF In
  <2>4. CASE i # 1
    <3>1. i - 1 \in 1 .. n /\ t[i - 1] = x /\ i - 1 < j - 1
      BY <1>1, <1>2, <2>1, <2>4
    <3>2. QED
      BY <1>1, <2>2, <3>1 DEF Before
  <2>5. QED
    BY <2>3, <2>4
<1>5. ASSUME NEW x, NEW y, Before(t, x, y) PROVE Before(s, x, y)
  <2>1. PICK i \in 1 .. n, j \in 1 .. n : i < j /\ t[i] = x /\ t[j] = y
    BY <1>1, <1>5 DEF Before
  <2>2. i + 1 \in 1 .. n + 1 /\ j + 1 \in 1 .. n + 1 /\ i + 1 < j + 1
    BY <1>1, <2>1
  <2>3. s[i + 1] = x /\ s[j + 1] = y
    BY <1>2, <2>1
  <2>4. QED
    BY <1>1, <2>2, <2>3 DEF Before
<1>6. ASSUME NEW y, In(t, y) PROVE Before(s, h, y)
  BY <1>1, <1>2, <1>6 DEF Before, In
<1>7. QED
  BY <1>1, <1>3, <1>4, <1>5, <1>6 DEF h, t

\* Order needs presence.
LEMMA BeforeIsIn ==
  \A s, x, y : Before(s, x, y) => In(s, x) /\ In(s, y)
BY DEF Before, In

----------------------------------------------------------------------------
(* Streams.                                                                *)

Packet == Msg \cup {Reply}
Holding == Packet \cup {Recv, Ended}

\* A stream from its parts: what the peer has read, the socket, the writer and
\* the channel.
StreamOf(g, s, w, k) == g \o s \o <<w>> \o k

\* What is in a stream, and in which order.
OrderOf(all, g, s, w, k) ==
  /\ \A x : In(all, x) <=> In(g, x) \/ In(s, x) \/ x = w \/ In(k, x)
  /\ \A x, y : Before(all, x, y) <=>
       \/ Before(g, x, y) \/ Before(s, x, y) \/ Before(k, x, y)
       \/ In(g, x) /\ (In(s, y) \/ y = w \/ In(k, y))
       \/ In(s, x) /\ (y = w \/ In(k, y))
       \/ x = w /\ In(k, y)

\* OrderOf describes every stream.
LEMMA StreamOrder ==
  ASSUME NEW g \in Seq(Msg), NEW s \in Seq(Packet), NEW w \in Holding, NEW k \in Seq(Packet)
  PROVE  OrderOf(StreamOf(g, s, w, k), g, s, w, k)
<1> DEFINE v == <<w>>
           gs == g \o s
           gsv == gs \o v
           all == gsv \o k
<1>1. g \in Seq(Holding) /\ s \in Seq(Holding) /\ v \in Seq(Holding) /\ k \in Seq(Holding)
  BY DEF Holding, Packet
<1>2. gs \in Seq(Holding) /\ gsv \in Seq(Holding)
  BY <1>1, ConcatProperties
<1>3. (\A x : In(v, x) <=> x = w) /\ \A x, y : ~Before(v, x, y)
  BY SingleOrder
<1>4. /\ \A x : In(gs, x) <=> In(g, x) \/ In(s, x)
      /\ \A x, y : Before(gs, x, y) <=> Before(g, x, y) \/ Before(s, x, y) \/ (In(g, x) /\ In(s, y))
  BY <1>1, ConcatOrder
<1> HIDE DEF gs, v
<1>5. /\ \A x : In(gsv, x) <=> In(gs, x) \/ In(v, x)
      /\ \A x, y : Before(gsv, x, y) <=> Before(gs, x, y) \/ Before(v, x, y) \/ (In(gs, x) /\ In(v, y))
  BY <1>1, <1>2, ConcatOrder
<1> HIDE DEF gsv
<1>6. /\ \A x : In(all, x) <=> In(gsv, x) \/ In(k, x)
      /\ \A x, y : Before(all, x, y) <=> Before(gsv, x, y) \/ Before(k, x, y) \/ (In(gsv, x) /\ In(k, y))
  BY <1>1, <1>2, ConcatOrder
<1> HIDE DEF all
<1>7. \A x : In(all, x) <=> In(g, x) \/ In(s, x) \/ x = w \/ In(k, x)
  BY <1>3, <1>4, <1>5, <1>6
<1>8. ASSUME NEW x, NEW y
      PROVE  Before(all, x, y) <=>
              \/ Before(g, x, y) \/ Before(s, x, y) \/ Before(k, x, y)
              \/ In(g, x) /\ (In(s, y) \/ y = w \/ In(k, y))
              \/ In(s, x) /\ (y = w \/ In(k, y))
              \/ x = w /\ In(k, y)
  BY <1>3, <1>4, <1>5, <1>6
<1>9. QED
  BY <1>7, <1>8 DEF OrderOf, StreamOf, all, gsv, gs, v

\* t has no message and no order of messages that s does not have.
Thins(t, s) ==
  \A x, y \in Msg : (In(t, x) => In(s, x)) /\ (Before(t, x, y) => Before(s, x, y))

----------------------------------------------------------------------------
(* What each move of a packet does to a stream.                            *)

\* Neither replies nor the states of a writer are messages.
LEMMA NotMessages ==
  /\ Reply \notin Msg /\ Recv \notin Msg /\ Ended \notin Msg
  /\ Recv \in Holding /\ Ended \in Holding
  /\ Msg \subseteq Packet /\ Packet \subseteq Holding /\ Reply \in Packet
BY ThreadedAssumption DEF Holding, Packet

\* The writer takes the head of the channel.
LEMMA TakeThins ==
  ASSUME NEW g \in Seq(Msg), NEW s \in Seq(Packet), NEW k \in Seq(Packet), k # <<>>
  PROVE  Thins(StreamOf(g, s, Head(k), Tail(k)), StreamOf(g, s, Recv, k))
<1> DEFINE h == Head(k)
           t == Tail(k)
           old == StreamOf(g, s, Recv, k)
           new == StreamOf(g, s, h, t)
<1>1. /\ h \in Packet /\ t \in Seq(Packet)
      /\ \A x : In(k, x) <=> x = h \/ In(t, x)
      /\ \A x, y : Before(k, x, y) <=> Before(t, x, y) \/ (x = h /\ In(t, y))
  BY TailOrder
<1> HIDE DEF h, t
<1>2. OrderOf(old, g, s, Recv, k) /\ OrderOf(new, g, s, h, t)
  BY <1>1, StreamOrder, NotMessages
<1> HIDE DEF old, new
<1>3. Thins(new, old)
  BY <1>1, <1>2, NotMessages DEF OrderOf, Thins
<1>4. QED
  BY <1>3 DEF old, new, h, t

\* The writer has written its packet.
LEMMA WriteThins ==
  ASSUME NEW g \in Seq(Msg), NEW s \in Seq(Packet), NEW w \in Packet, NEW k \in Seq(Packet)
  PROVE  Thins(StreamOf(g, Append(s, w), Recv, k), StreamOf(g, s, w, k))
<1> DEFINE t == Append(s, w)
           old == StreamOf(g, s, w, k)
           new == StreamOf(g, t, Recv, k)
<1>1. /\ t \in Seq(Packet)
      /\ \A x : In(t, x) <=> In(s, x) \/ x = w
      /\ \A x, y : Before(t, x, y) <=> Before(s, x, y) \/ (In(s, x) /\ y = w)
  BY AppendOrder
<1> HIDE DEF t
<1>2. OrderOf(old, g, s, w, k) /\ OrderOf(new, g, t, Recv, k)
  BY <1>1, StreamOrder, NotMessages
<1> HIDE DEF old, new
<1>3. Thins(new, old)
  BY <1>1, <1>2, NotMessages DEF OrderOf, Thins
<1>4. QED
  BY <1>3 DEF old, new, t

\* The peer reads a message.
LEMMA ReadThins ==
  ASSUME NEW g \in Seq(Msg), NEW s \in Seq(Packet), NEW w \in Holding, NEW k \in Seq(Packet),
         s # <<>>, Head(s) \in Msg
  PROVE  Thins(StreamOf(Append(g, Head(s)), Tail(s), w, k), StreamOf(g, s, w, k))
<1> DEFINE h == Head(s)
           t == Tail(s)
           gh == Append(g, h)
           old == StreamOf(g, s, w, k)
           new == StreamOf(gh, t, w, k)
<1>1. /\ t \in Seq(Packet)
      /\ \A x : In(s, x) <=> x = h \/ In(t, x)
      /\ \A x, y : Before(s, x, y) <=> Before(t, x, y) \/ (x = h /\ In(t, y))
  BY TailOrder
<1>2. /\ gh \in Seq(Msg)
      /\ \A x : In(gh, x) <=> In(g, x) \/ x = h
      /\ \A x, y : Before(gh, x, y) <=> Before(g, x, y) \/ (In(g, x) /\ y = h)
  BY AppendOrder
<1> HIDE DEF h, t, gh
<1>3. OrderOf(old, g, s, w, k) /\ OrderOf(new, gh, t, w, k)
  BY <1>1, <1>2, StreamOrder
<1> HIDE DEF old, new
<1>4. Thins(new, old)
  BY <1>1, <1>2, <1>3 DEF OrderOf, Thins
<1>5. QED
  BY <1>4 DEF old, new, gh, h, t

\* The peer reads a reply.
LEMMA ReplyReadThins ==
  ASSUME NEW g \in Seq(Msg), NEW s \in Seq(Packet), NEW w \in Holding, NEW k \in Seq(Packet),
         s # <<>>
  PROVE  Thins(StreamOf(g, Tail(s), w, k), StreamOf(g, s, w, k))
<1> DEFINE h == Head(s)
           t == Tail(s)
           old == StreamOf(g, s, w, k)
           new == StreamOf(g, t, w, k)
<1>1. /\ t \in Seq(Packet)
      /\ \A x : In(s, x) <=> x = h \/ In(t, x)
      /\ \A x, y : Before(s, x, y) <=> Before(t, x, y) \/ (x = h /\ In(t, y))
  BY TailOrder
<1> HIDE DEF h, t
<1>2. OrderOf(old, g, s, w, k) /\ OrderOf(new, g, t, w, k)
  BY <1>1, StreamOrder
<1> HIDE DEF old, new
<1>3. Thins(new, old)
  BY <1>1, <1>2 DEF OrderOf, Thins
<1>4. QED
  BY <1>3 DEF old, new, t

\* What socket, writer and channel hold is lost.
LEMMA DropThins ==
  ASSUME NEW g \in Seq(Msg), NEW s \in Seq(Packet), NEW w \in Holding, NEW k \in Seq(Packet),
         NEW t \in {s, <<>>}, NEW v \in {w, Ended}, NEW l \in {k, <<>>}
  PROVE  Thins(StreamOf(g, t, v, l), StreamOf(g, s, w, k))
<1> DEFINE old == StreamOf(g, s, w, k)
           new == StreamOf(g, t, v, l)
<1>1. /\ t \in Seq(Packet) /\ v \in Holding /\ l \in Seq(Packet)
      /\ \A x : (In(t, x) => In(s, x)) /\ (In(l, x) => In(k, x))
      /\ \A x, y : (Before(t, x, y) => Before(s, x, y)) /\ (Before(l, x, y) => Before(k, x, y))
  <2> DEFINE e == <<>>
  <2>1. e \in Seq(Packet) /\ \A x, y : ~In(e, x) /\ ~Before(e, x, y)
    BY EmptyOrder
  <2>2. t \in {s, e} /\ l \in {k, e}
    OBVIOUS
  <2> HIDE DEF e
  <2>3. QED
    BY <2>1, <2>2, NotMessages
<1>2. OrderOf(old, g, s, w, k) /\ OrderOf(new, g, t, v, l)
  BY <1>1, StreamOrder
<1> HIDE DEF old, new
<1>3. Thins(new, old)
  BY <1>1, <1>2, NotMessages DEF OrderOf, Thins
<1>4. QED
  BY <1>3 DEF old, new

\* A packet is sent: it comes after everything in the stream.
LEMMA SendOrder ==
  ASSUME NEW g \in Seq(Msg), NEW s \in Seq(Packet), NEW w \in Holding, NEW k \in Seq(Packet),
         NEW e \in Packet
  PROVE  \A x, y : /\ In(StreamOf(g, s, w, Append(k, e)), x) => In(StreamOf(g, s, w, k), x) \/ x = e
                   /\ Before(StreamOf(g, s, w, Append(k, e)), x, y) =>
                        Before(StreamOf(g, s, w, k), x, y) \/ (In(StreamOf(g, s, w, k), x) /\ y = e)
<1> DEFINE l == Append(k, e)
           old == StreamOf(g, s, w, k)
           new == StreamOf(g, s, w, l)
<1>1. /\ l \in Seq(Packet)
      /\ \A x : In(l, x) <=> In(k, x) \/ x = e
      /\ \A x, y : Before(l, x, y) <=> Before(k, x, y) \/ (In(k, x) /\ y = e)
  BY AppendOrder
<1> HIDE DEF l
<1>2. OrderOf(old, g, s, w, k) /\ OrderOf(new, g, s, w, l)
  BY <1>1, StreamOrder
<1> HIDE DEF old, new
<1>3. \A x, y : /\ In(new, x) => In(old, x) \/ x = e
                /\ Before(new, x, y) => Before(old, x, y) \/ (In(old, x) /\ y = e)
  BY <1>1, <1>2 DEF OrderOf
<1>4. QED
  BY <1>3 DEF old, new, l

----------------------------------------------------------------------------
(* The inductive invariant.                                                *)

Requests == [op : Op, arg : Msg \cup SUBSET Msg, reply : BOOLEAN, i : Nat]
Places == {"read", "send", "lock", "locked", Ended}

Types ==
  /\ reader \in [Conn -> [pc : Places, req : Requests]]
  /\ writer \in [Conn -> Holding]
  /\ chan \in [Conn -> Seq(Packet)] /\ sock \in [Conn -> Seq(Packet)]
  /\ got \in [Conn -> Seq(Msg)]
  /\ sent \subseteq Msg

\* The mutex has one holder.
Exclusion == lock \in Conn \cup {Free} /\ \A c \in Conn : Is(c, "locked") <=> lock = c

Publishing(c) == Req(c).op = "publish"

\* A reader that publishes works on a sent message of its own.
Claims ==
  /\ \A c \in Conn : Publishing(c) => Req(c).arg \in sent
  /\ \A c, d \in Conn : Publishing(c) /\ Publishing(d) /\ Req(c).arg = Req(d).arg => c = d

\* Only sent messages are in streams; one whose publisher still waits for the
\* mutex is in none; one whose publisher holds it is the latest of all.
Streams ==
  /\ \A d \in Conn, m \in Msg : In(Stream(d), m) => m \in sent
  /\ \A c, d \in Conn : Publishing(c) /\ ~Is(c, "locked") => ~In(Stream(d), Req(c).arg)
  /\ \A c, d \in Conn : Publishing(c) /\ Is(c, "locked") =>
       \A n \in Msg \ {Req(c).arg} : ~Before(Stream(d), Req(c).arg, n)

IInv == Types /\ Exclusion /\ Claims /\ Streams /\ SameOrder

\* Nothing is published at the start.
LEMMA InitOK == Init => IInv
<1> SUFFICES ASSUME Init PROVE IInv
  OBVIOUS
<1>1. Types
  BY DEF Init, Types, Requests, Places, At, Request, Op, Holding, Packet
<1>2. Exclusion /\ Claims
  BY ThreadedAssumption DEF Init, Exclusion, Claims, Publishing, Is, Req, At, Request, Free
<1>3. ASSUME NEW d \in Conn, NEW x \in Msg, NEW y \in Msg
      PROVE  ~In(Stream(d), x) /\ ~Before(Stream(d), x, y)
  <2>1. got[d] = <<>> /\ sock[d] = <<>> /\ chan[d] = <<>> /\ writer[d] = Recv
    BY DEF Init
  <2>2. x # Recv /\ y # Recv /\ Recv \in Holding
    BY ThreadedAssumption DEF Holding
  <2>3. Stream(d) = <<>> \o <<>> \o <<Recv>> \o <<>>
    BY <2>1 DEF Stream
  <2> DEFINE e == <<>>
  <2>4. e \in Seq(Msg) /\ e \in Seq(Packet) /\ \A z1, z2 : ~In(e, z1) /\ ~Before(e, z1, z2)
    BY EmptyOrder
  <2>5. Stream(d) = e \o e \o <<Recv>> \o e
    BY <2>3
  <2> HIDE DEF e
  <2>6. OrderOf(StreamOf(e, e, Recv, e), e, e, Recv, e)
    BY <2>2, <2>4, StreamOrder
  <2>7. QED
    BY <2>2, <2>4, <2>5, <2>6 DEF OrderOf, StreamOf
<1>4. Streams
  BY <1>2, <1>3, ThreadedAssumption DEF Streams, Init, Publishing, Req, At, Request
<1>5. SameOrder
  BY <1>3 DEF SameOrder
<1>6. QED
  BY <1>1, <1>2, <1>4, <1>5 DEF IInv

\* Steps that thin the streams and begin no publication; a publisher may get
\* the mutex.
LEMMA ThinningStep ==
  ASSUME IInv, Types', Exclusion', sent \subseteq sent',
         \A d \in Conn : Thins(Stream(d)', Stream(d)),
         \A c \in Conn : Publishing(c)' =>
           Publishing(c) /\ Req(c)'.arg = Req(c).arg /\ (Is(c, "locked") => Is(c, "locked")')
  PROVE  IInv'
<1>1. /\ \A c \in Conn : Publishing(c) => Req(c).arg \in Msg
      /\ \A c \in Conn : Publishing(c) => Req(c).arg \in sent
      /\ \A c, d \in Conn : Publishing(c) /\ Publishing(d) /\ Req(c).arg = Req(d).arg => c = d
  BY DEF IInv, Types, Claims
<1>2. Claims'
  BY <1>1 DEF Claims
<1>3. \A d \in Conn, m \in Msg : In(Stream(d)', m) => m \in sent'
  BY DEF IInv, Streams, Thins
<1>4. ASSUME NEW c \in Conn, NEW d \in Conn, Publishing(c)', ~Is(c, "locked")'
      PROVE  ~In(Stream(d)', Req(c)'.arg)
  BY <1>1, <1>4 DEF IInv, Streams, Thins
<1>5. ASSUME NEW c \in Conn, NEW d \in Conn, Publishing(c)', NEW n \in Msg, n # Req(c)'.arg
      PROVE  ~Before(Stream(d)', Req(c)'.arg, n)
  <2>1. /\ Publishing(c) /\ Req(c).arg \in Msg /\ Req(c)'.arg = Req(c).arg
        /\ Thins(Stream(d)', Stream(d))
    BY <1>1, <1>5
  <2>2. ~Before(Stream(d), Req(c).arg, n)
    BY <1>5, <2>1, BeforeIsIn DEF IInv, Streams
  <2>3. QED
    BY <2>1, <2>2 DEF Thins
<1>6. Streams'
  BY <1>3, <1>4, <1>5 DEF Streams
<1>7. SameOrder'
  BY DEF IInv, SameOrder, Thins
<1>8. QED
  BY <1>2, <1>6, <1>7 DEF IInv

----------------------------------------------------------------------------
(* The steps.                                                              *)

Conveyed == <<writer, chan, sock, got>>
ConveyedTypes ==
  /\ writer \in [Conn -> Holding]
  /\ chan \in [Conn -> Seq(Packet)] /\ sock \in [Conn -> Seq(Packet)]
  /\ got \in [Conn -> Seq(Msg)]

\* Where no packet moves, no stream changes.
LEMMA StreamsStay ==
  ASSUME UNCHANGED Conveyed
  PROVE  \A d : Stream(d)' = Stream(d) /\ Thins(Stream(d)', Stream(d))
BY DEF Conveyed, Stream, Thins

\* One reader goes to another place, perhaps with another request, which may be
\* to publish only if it was before.
LEMMA ReaderMoves ==
  ASSUME IInv, NEW c \in Conn, NEW pc \in Places, NEW req \in Requests, Moves(c, pc, req),
         UNCHANGED sent, ConveyedTypes',
         \A d \in Conn : Thins(Stream(d)', Stream(d)),
         \/ UNCHANGED lock /\ (pc = "locked" <=> Is(c, "locked"))
         \/ lock = Free /\ lock' = c /\ pc = "locked"
         \/ Is(c, "locked") /\ lock' = Free /\ pc # "locked",
         req.op = "publish" =>
           Publishing(c) /\ req.arg = Req(c).arg /\ (Is(c, "locked") => pc = "locked")
  PROVE  IInv'
<1>1. /\ reader \in [Conn -> [pc : Places, req : Requests]]
      /\ reader' = [reader EXCEPT ![c] = At(pc, req)]
      /\ At(pc, req) \in [pc : Places, req : Requests]
  BY DEF IInv, Types, Moves, At
<1>2. /\ Is(c, "locked")' <=> pc = "locked"
      /\ Req(c)' = req
      /\ \A d \in Conn \ {c} : reader'[d] = reader[d]
  BY <1>1 DEF Is, Req, At
<1>3. Types'
  BY <1>1 DEF IInv, Types, ConveyedTypes
<1>4. Exclusion'
  <2>1. \A d \in Conn \ {c} : Is(d, "locked")' <=> Is(d, "locked")
    BY <1>2 DEF Is
  <2>2. QED
    BY <1>2, <2>1, ThreadedAssumption DEF IInv, Exclusion
<1>5. ASSUME NEW d \in Conn, Publishing(d)'
      PROVE  Publishing(d) /\ Req(d)'.arg = Req(d).arg /\ (Is(d, "locked") => Is(d, "locked")')
  BY <1>2, <1>5 DEF Publishing, Req, Is
<1>6. QED
  BY <1>3, <1>4, <1>5, ThinningStep

\* The writer threads and the peers leave the readers alone.
LEMMA OthersMove ==
  ASSUME IInv, UNCHANGED <<lock, reader, sent>>, ConveyedTypes',
         \A d \in Conn : Thins(Stream(d)', Stream(d))
  PROVE  IInv'
<1>1. Types' /\ Exclusion'
  BY DEF IInv, Types, ConveyedTypes, Exclusion, Is
<1>2. QED
  BY <1>1, ThinningStep DEF Publishing, Req, Is

\* Readers that read anything but a PUBLISH, get the mutex or let go of it.
LEMMA RequestOK ==
  ASSUME IInv, NEW c \in Conn,
         \/ \E f \in Filter : ReadSubscribe(c, f) \/ ReadUnsubscribe(c, f)
         \/ ReadPing(c) \/ EndLoop(c) \/ Lock(c) \/ Locked(c) \/ PublishDone(c)
  PROVE  IInv'
<1>1. UNCHANGED Conveyed /\ UNCHANGED sent
  BY DEF ReadSubscribe, ReadUnsubscribe, ReadPing, EndLoop, Lock, Locked, PublishDone, Conveyed
<1>2. ConveyedTypes' /\ \A d \in Conn : Thins(Stream(d)', Stream(d))
  BY <1>1, StreamsStay DEF IInv, Types, ConveyedTypes, Conveyed
<1>3. ASSUME NEW op \in Op \ {"publish"}, NEW arg \in SUBSET Msg, NEW reply \in BOOLEAN
      PROVE  Request(op, arg, reply) \in Requests /\ Request(op, arg, reply).op # "publish"
  BY DEF Request, Requests
<1>4. NoRequest \in Requests /\ NoRequest.op # "publish"
  BY <1>3 DEF NoRequest, Op
<1>5. /\ "read" \in Places /\ "send" \in Places /\ "lock" \in Places /\ "locked" \in Places
      /\ Ended \in Places
      /\ "read" # "locked" /\ "send" # "locked" /\ "lock" # "locked" /\ Ended # "locked"
  BY DEF Places, Ended
<1>6. Req(c) \in Requests
  BY DEF IInv, Types, Req
<1>7. ASSUME NEW f \in Filter, ReadSubscribe(c, f) PROVE IInv'
  <2> DEFINE req == Request("subscribe", f, TRUE)
  <2>1. req \in Requests /\ req.op # "publish"
    BY <1>3, ThreadedAssumption DEF Op
  <2>2. Moves(c, "lock", req) /\ UNCHANGED lock /\ ~Is(c, "locked")
    BY <1>5, <1>7 DEF ReadSubscribe, Is
  <2> HIDE DEF req
  <2>3. QED
    BY <1>1, <1>2, <1>5, <2>1, <2>2, ReaderMoves
<1>8. ASSUME NEW f \in Filter, ReadUnsubscribe(c, f) PROVE IInv'
  <2> DEFINE req == Request("unsubscribe", f, TRUE)
  <2>1. req \in Requests /\ req.op # "publish"
    BY <1>3, ThreadedAssumption DEF Op
  <2>2. Moves(c, "lock", req) /\ UNCHANGED lock /\ ~Is(c, "locked")
    BY <1>5, <1>8 DEF ReadUnsubscribe, Is
  <2> HIDE DEF req
  <2>3. QED
    BY <1>1, <1>2, <1>5, <2>1, <2>2, ReaderMoves
<1>9. CASE ReadPing(c)
  <2>1. Moves(c, "send", NoRequest) /\ UNCHANGED lock /\ ~Is(c, "locked")
    BY <1>5, <1>9 DEF ReadPing, Is
  <2>2. QED
    BY <1>1, <1>2, <1>4, <1>5, <2>1, ReaderMoves
<1>10. CASE EndLoop(c)
  <2> DEFINE req == Request("cleanup", {}, FALSE)
  <2>1. req \in Requests /\ req.op # "publish"
    BY <1>3 DEF Op
  <2>2. Moves(c, "lock", req) /\ UNCHANGED lock /\ ~Is(c, "locked")
    BY <1>5, <1>10 DEF EndLoop, Is
  <2> HIDE DEF req
  <2>3. QED
    BY <1>1, <1>2, <1>5, <2>1, <2>2, ReaderMoves
<1>11. CASE Lock(c)
  <2>1. Moves(c, "locked", Req(c)) /\ lock = Free /\ lock' = c
    BY <1>11 DEF Lock
  <2>2. QED
    BY <1>1, <1>2, <1>5, <1>6, <2>1, ReaderMoves DEF Publishing
<1>12. CASE Locked(c)
  <2>1. Is(c, "locked") /\ lock' = Free
        /\ (Moves(c, "send", NoRequest) \/ Moves(c, Ended, NoRequest))
    BY <1>12 DEF Locked
  <2>2. QED
    BY <1>1, <1>2, <1>4, <1>5, <2>1, ReaderMoves
<1>13. CASE PublishDone(c)
  <2>1. Is(c, "locked") /\ lock' = Free /\ Moves(c, "read", NoRequest)
    BY <1>13 DEF PublishDone
  <2>2. QED
    BY <1>1, <1>2, <1>4, <1>5, <2>1, ReaderMoves
<1>14. QED
  BY <1>7, <1>8, <1>9, <1>10, <1>11, <1>12, <1>13

\* A PUBLISH is read: its message is new, and in no stream.
LEMMA ReadPublishOK ==
  ASSUME IInv, NEW c \in Conn, NEW m \in Msg, NEW qos, ReadPublish(c, m, qos)
  PROVE  IInv'
<1> DEFINE pc == IF qos = 1 THEN "send" ELSE "lock"
           req == Request("publish", m, FALSE)
<1>1. /\ reader \in [Conn -> [pc : Places, req : Requests]]
      /\ reader' = [reader EXCEPT ![c] = At(pc, req)]
      /\ pc \in Places /\ pc # "locked" /\ req \in Requests /\ At(pc, req).pc = pc
      /\ At(pc, req).req = req /\ req.op = "publish" /\ req.arg = m
  BY DEF IInv, Types, ReadPublish, Moves, At, Request, Requests, Op, Places
<1>2. m \notin sent /\ sent' = sent \cup {m} /\ ~Is(c, "locked") /\ lock' = lock
  BY DEF ReadPublish, Is
<1>3. ConveyedTypes' /\ \A d \in Conn : Stream(d)' = Stream(d)
  <2>1. UNCHANGED Conveyed
    BY DEF ReadPublish, Conveyed
  <2>2. QED
    BY <2>1, StreamsStay DEF IInv, Types, ConveyedTypes, Conveyed
<1> HIDE DEF pc, req
<1>4. At(pc, req) \in [pc : Places, req : Requests]
  BY <1>1 DEF At
<1>5. /\ ~Is(c, "locked")' /\ Req(c)' = req /\ Publishing(c)'
      /\ \A d \in Conn \ {c} : reader'[d] = reader[d]
  BY <1>1, <1>4 DEF Is, Req, Publishing
<1>6. \A d \in Conn \ {c} : /\ Is(d, "locked")' <=> Is(d, "locked")
                            /\ Req(d)' = Req(d) /\ (Publishing(d)' <=> Publishing(d))
  BY <1>5 DEF Is, Req, Publishing
<1>7. Types' /\ Exclusion'
  BY <1>1, <1>2, <1>3, <1>4, <1>5, <1>6 DEF IInv, Types, ConveyedTypes, Exclusion
<1>8. Claims'
  BY <1>1, <1>2, <1>5, <1>6 DEF IInv, Claims
<1>9. \A d \in Conn : ~In(Stream(d), m)
  BY <1>2 DEF IInv, Streams
<1>10. Streams'
  <2>1. \A d \in Conn, n \in Msg : In(Stream(d)', n) => n \in sent'
    BY <1>2, <1>3 DEF IInv, Streams
  <2>2. ASSUME NEW b \in Conn, NEW d \in Conn, Publishing(b)', ~Is(b, "locked")'
        PROVE  ~In(Stream(d)', Req(b)'.arg)
    BY <1>1, <1>3, <1>5, <1>6, <1>9, <2>2 DEF IInv, Streams
  <2>3. ASSUME NEW b \in Conn, NEW d \in Conn, Publishing(b)', Is(b, "locked")',
               NEW n \in Msg \ {Req(b)'.arg}
        PROVE  ~Before(Stream(d)', Req(b)'.arg, n)
    BY <1>3, <1>5, <1>6, <2>3 DEF IInv, Streams
  <2>4. QED
    BY <2>1, <2>2, <2>3 DEF Streams
<1>11. SameOrder'
  BY <1>3 DEF IInv, SameOrder
<1>12. QED
  BY <1>7, <1>8, <1>10, <1>11 DEF IInv

\* The holder of the mutex sends its message to a subscription: whatever it comes
\* after, it is the latest.
LEMMA PublishSends ==
  ASSUME IInv, NEW c \in Conn, NEW u, Is(c, "locked"), Publishing(c),
         chan' = [chan EXCEPT ![u] = Append(@, Req(c).arg)],
         Moves(c, "locked", [Req(c) EXCEPT !.i = @ + 1]),
         UNCHANGED <<lock, writer, sock, got, sent>>
  PROVE  IInv'
<1> DEFINE req == [Req(c) EXCEPT !.i = @ + 1]
           m == Req(c).arg
<1>1. /\ Req(c) \in Requests /\ m \in sent /\ m \in Msg /\ m \in Packet
      /\ reader \in [Conn -> [pc : Places, req : Requests]]
  BY NotMessages DEF IInv, Types, Claims, Req
<1>2. req \in Requests /\ req.op = "publish" /\ req.arg = m
  BY <1>1 DEF Requests, Publishing
<1>3. reader' = [reader EXCEPT ![c] = At("locked", req)]
  BY DEF Moves
<1>4. chan' = [chan EXCEPT ![u] = Append(@, m)]
  OBVIOUS
<1> HIDE DEF req, m
<1>5. At("locked", req) \in [pc : Places, req : Requests] /\ At("locked", req).pc = "locked"
      /\ At("locked", req).req = req
  BY <1>2 DEF At, Places
<1>6. \A b \in Conn : /\ Is(b, "locked")' <=> Is(b, "locked")
                      /\ Req(b)'.arg = Req(b).arg /\ (Publishing(b)' <=> Publishing(b))
  BY <1>1, <1>2, <1>3, <1>5 DEF Is, Req, Publishing, m
<1>7. Types' /\ Exclusion'
  <2>1. reader' \in [Conn -> [pc : Places, req : Requests]]
    BY <1>1, <1>3, <1>5
  <2>2. chan' \in [Conn -> Seq(Packet)]
    <3>1. \A d \in Conn : Append(chan[d], m) \in Seq(Packet)
      BY <1>1, AppendProperties DEF IInv, Types
    <3>2. chan \in [Conn -> Seq(Packet)]
      BY DEF IInv, Types
    <3>3. chan' = [d \in Conn |-> IF d = u THEN Append(chan[d], m) ELSE chan[d]]
      BY <1>4, <3>2
    <3>4. QED
      BY <3>1, <3>2, <3>3
  <2>3. QED
    BY <1>6, <2>1, <2>2 DEF IInv, Types, Exclusion
<1>8. Claims'
  BY <1>6 DEF IInv, Claims
<1>9. ASSUME NEW d \in Conn, NEW x \in Msg, NEW y \in Msg
      PROVE  /\ In(Stream(d)', x) => In(Stream(d), x) \/ x = m
             /\ Before(Stream(d)', x, y) => Before(Stream(d), x, y) \/ (In(Stream(d), x) /\ y = m)
  <2>1. /\ got[d] \in Seq(Msg) /\ sock[d] \in Seq(Packet) /\ writer[d] \in Holding
        /\ chan[d] \in Seq(Packet)
    BY DEF IInv, Types
  <2>2. CASE d = u
    <3>1. chan'[d] = Append(chan[d], m)
      BY <1>4, <2>2 DEF IInv, Types
    <3>2. /\ Stream(d) = StreamOf(got[d], sock[d], writer[d], chan[d])
          /\ Stream(d)' = StreamOf(got[d], sock[d], writer[d], Append(chan[d], m))
      BY <3>1 DEF Stream, StreamOf
    <3> DEFINE old == StreamOf(got[d], sock[d], writer[d], chan[d])
               new == StreamOf(got[d], sock[d], writer[d], Append(chan[d], m))
    <3>3. \A a, b : /\ In(new, a) => In(old, a) \/ a = m
                    /\ Before(new, a, b) => Before(old, a, b) \/ (In(old, a) /\ b = m)
      BY <1>1, <2>1, SendOrder
    <3>4. Stream(d) = old /\ Stream(d)' = new
      BY <3>2
    <3> HIDE DEF old, new
    <3>5. QED
      BY <3>3, <3>4
  <2>3. CASE d # u
    <3>1. chan'[d] = chan[d]
      BY <1>4, <2>3 DEF IInv, Types
    <3>2. QED
      BY <3>1 DEF Stream
  <2>4. QED
    BY <2>2, <2>3
<1>10. \A d \in Conn, n \in Msg : n # m => ~Before(Stream(d), m, n)
  BY DEF IInv, Streams, m
<1>11. \A b \in Conn : Publishing(b) /\ Is(b, "locked") => b = c
  BY DEF IInv, Exclusion
<1>12. \A b \in Conn : Publishing(b) => Req(b).arg \in Msg /\ (Req(b).arg = m => b = c)
  BY DEF IInv, Types, Claims, m
<1>13. Streams'
  <2>1. \A d \in Conn, n \in Msg : In(Stream(d)', n) => n \in sent'
    BY <1>1, <1>9 DEF IInv, Streams
  <2>2. ASSUME NEW b \in Conn, NEW d \in Conn, Publishing(b)', ~Is(b, "locked")'
        PROVE  ~In(Stream(d)', Req(b)'.arg)
    <3>1. Publishing(b) /\ ~Is(b, "locked") /\ Req(b)'.arg = Req(b).arg
      BY <1>6, <2>2
    <3>2. Req(b).arg \in Msg /\ Req(b).arg # m /\ ~In(Stream(d), Req(b).arg)
      BY <1>12, <3>1 DEF IInv, Streams
    <3>3. QED
      BY <1>9, <3>1, <3>2
  <2>3. ASSUME NEW b \in Conn, NEW d \in Conn, Publishing(b)', Is(b, "locked")',
               NEW n \in Msg \ {Req(b)'.arg}
        PROVE  ~Before(Stream(d)', Req(b)'.arg, n)
    <3>1. b = c /\ Req(b)'.arg = m /\ n # m
      BY <1>6, <1>11, <2>3 DEF m
    <3>2. QED
      BY <1>1, <1>9, <1>10, <3>1
  <2>4. QED
    BY <2>1, <2>2, <2>3 DEF Streams
<1>14. SameOrder'
  <2>1. SUFFICES ASSUME NEW d \in Conn, NEW e \in Conn, NEW x \in Msg, NEW y \in Msg, x # y,
                        Before(Stream(d)', x, y), Before(Stream(e)', y, x)
                 PROVE  FALSE
    BY DEF SameOrder
  <2>2. Before(Stream(d), x, y) \/ y = m
    BY <1>9, <2>1
  <2>3. Before(Stream(e), y, x) \/ x = m
    BY <1>9, <2>1
  <2>4. y = m => Before(Stream(e), y, x)
    BY <2>1, <2>3
  <2>5. x = m => Before(Stream(d), x, y)
    BY <2>1, <2>2
  <2>6. ~(Before(Stream(d), x, y) /\ Before(Stream(e), y, x))
    BY <2>1 DEF IInv, SameOrder
  <2>7. QED
    BY <1>10, <2>1, <2>2, <2>3, <2>4, <2>5, <2>6
<1>15. QED
  BY <1>7, <1>8, <1>13, <1>14 DEF IInv

\* One turn of the loop of publish.
LEMMA PublishOneOK ==
  ASSUME IInv, NEW c \in Conn, PublishOne(c)
  PROVE  IInv'
<1> DEFINE req == Req(c)
           u == subs[req.i].token
           next == [req EXCEPT !.i = @ + 1]
<1>1. Is(c, "locked") /\ Publishing(c) /\ UNCHANGED <<lock, writer, sock, got, sent>>
  BY DEF PublishOne, Publishing
<1>2. \/ Moves(c, "locked", next) /\ chan' = chan
      \/ UNCHANGED <<reader, chan>>
      \/ Moves(c, "locked", next) /\ chan' = [chan EXCEPT ![u] = Append(@, req.arg)]
  BY DEF PublishOne
<1>3. CASE Moves(c, "locked", next) /\ chan' = chan
  <2>1. next \in Requests /\ next.arg = req.arg /\ "locked" \in Places
    <3>1. req \in Requests
      BY DEF IInv, Types, Req
    <3>2. QED
      BY <3>1 DEF Requests, Places
  <2>2. UNCHANGED Conveyed
    BY <1>1, <1>3 DEF Conveyed
  <2>3. ConveyedTypes' /\ \A d \in Conn : Thins(Stream(d)', Stream(d))
    BY <2>2, StreamsStay DEF IInv, Types, ConveyedTypes, Conveyed
  <2> HIDE DEF next
  <2>4. QED
    BY <1>1, <1>3, <2>1, <2>3, ReaderMoves
<1>4. CASE UNCHANGED <<reader, chan>>
  <2>1. UNCHANGED Conveyed
    BY <1>1, <1>4 DEF Conveyed
  <2>2. ConveyedTypes' /\ \A d \in Conn : Thins(Stream(d)', Stream(d))
    BY <2>1, StreamsStay DEF IInv, Types, ConveyedTypes, Conveyed
  <2>3. QED
    BY <1>1, <1>4, <2>2, OthersMove
<1>5. CASE Moves(c, "locked", next) /\ chan' = [chan EXCEPT ![u] = Append(@, req.arg)]
  BY <1>1, <1>5, PublishSends
<1>6. QED
  BY <1>2, <1>3, <1>4, <1>5

\* Where the packets of one connection thin out, and no others move.
LEMMA OneConveys ==
  ASSUME IInv, NEW c \in Conn,
         NEW g \in Seq(Msg), NEW s \in Seq(Packet), NEW w \in Holding, NEW k \in Seq(Packet),
         got' = [got EXCEPT ![c] = g], sock' = [sock EXCEPT ![c] = s],
         writer' = [writer EXCEPT ![c] = w], chan' = [chan EXCEPT ![c] = k],
         Thins(StreamOf(g, s, w, k), StreamOf(got[c], sock[c], writer[c], chan[c]))
  PROVE  ConveyedTypes' /\ \A d \in Conn : Thins(Stream(d)', Stream(d))
<1>1. ConveyedTypes
  BY DEF IInv, Types, ConveyedTypes
<1>2. ConveyedTypes'
  BY <1>1 DEF ConveyedTypes
<1>3. ASSUME NEW d \in Conn PROVE Thins(Stream(d)', Stream(d))
  <2>1. CASE d = c
    <3>1. got'[d] = g /\ sock'[d] = s /\ writer'[d] = w /\ chan'[d] = k
      BY <1>1, <2>1 DEF ConveyedTypes
    <3>2. Stream(d)' = StreamOf(g, s, w, k)
      BY <3>1 DEF Stream, StreamOf
    <3>3. Stream(d) = StreamOf(got[c], sock[c], writer[c], chan[c])
      BY <2>1 DEF Stream, StreamOf
    <3>4. QED
      BY <3>2, <3>3
  <2>2. CASE d # c
    <3>1. got'[d] = got[d] /\ sock'[d] = sock[d] /\ writer'[d] = writer[d] /\ chan'[d] = chan[d]
      BY <1>1, <2>2 DEF ConveyedTypes
    <3>2. Stream(d)' = Stream(d)
      BY <3>1 DEF Stream
    <3>3. QED
      BY <3>2 DEF Thins
  <2>3. QED
    BY <2>1, <2>2
<1>4. QED
  BY <1>2, <1>3

\* What a connection holds is as its type says.
LEMMA Parts ==
  ASSUME IInv, NEW c \in Conn
  PROVE  /\ got[c] \in Seq(Msg) /\ sock[c] \in Seq(Packet) /\ writer[c] \in Holding
         /\ chan[c] \in Seq(Packet)
BY DEF IInv, Types

\* What does not change keeps its value at c.
LEMMA Kept ==
  ASSUME IInv, NEW c \in Conn
  PROVE  /\ got' = got => got' = [got EXCEPT ![c] = got[c]]
         /\ sock' = sock => sock' = [sock EXCEPT ![c] = sock[c]]
         /\ writer' = writer => writer' = [writer EXCEPT ![c] = writer[c]]
         /\ chan' = chan => chan' = [chan EXCEPT ![c] = chan[c]]
<1>1. /\ got \in [Conn -> Seq(Msg)] /\ sock \in [Conn -> Seq(Packet)]
      /\ writer \in [Conn -> Holding] /\ chan \in [Conn -> Seq(Packet)]
  BY DEF IInv, Types
<1>2. QED
  BY <1>1

\* A reply goes into the connection's own channel, or nowhere.
LEMMA SendReplyOK ==
  ASSUME IInv, NEW c \in Conn, SendReply(c)
  PROVE  IInv'
<1> DEFINE k == Append(chan[c], Reply)
<1>1. /\ Is(c, "send") /\ UNCHANGED <<lock, writer, sock, got, sent>>
      /\ chan' = chan \/ chan' = [chan EXCEPT ![c] = k]
      /\ \/ Publishing(c) /\ Moves(c, "lock", Req(c))
         \/ Moves(c, "read", NoRequest)
  BY DEF SendReply, Publishing
<1>2. ConveyedTypes' /\ \A d \in Conn : Thins(Stream(d)', Stream(d))
  <2>1. CASE chan' = chan
    <3>1. UNCHANGED Conveyed
      BY <1>1, <2>1 DEF Conveyed
    <3>2. QED
      BY <3>1, StreamsStay DEF IInv, Types, ConveyedTypes, Conveyed
  <2>2. CASE chan' = [chan EXCEPT ![c] = k]
    <3>1. k \in Seq(Packet)
      BY Parts, NotMessages, AppendProperties
    <3>2. Thins(StreamOf(got[c], sock[c], writer[c], k), StreamOf(got[c], sock[c], writer[c], chan[c]))
      <4>1. \A x, y :
              /\ In(StreamOf(got[c], sock[c], writer[c], k), x) =>
                   In(StreamOf(got[c], sock[c], writer[c], chan[c]), x) \/ x = Reply
              /\ Before(StreamOf(got[c], sock[c], writer[c], k), x, y) =>
                   \/ Before(StreamOf(got[c], sock[c], writer[c], chan[c]), x, y)
                   \/ y = Reply
        BY Parts, NotMessages, SendOrder
      <4> HIDE DEF k
      <4>2. QED
        BY <4>1, NotMessages DEF Thins
    <3> HIDE DEF k
    <3>3. /\ got' = [got EXCEPT ![c] = got[c]] /\ sock' = [sock EXCEPT ![c] = sock[c]]
          /\ writer' = [writer EXCEPT ![c] = writer[c]] /\ chan' = [chan EXCEPT ![c] = k]
      BY <1>1, <2>2, Kept
    <3>4. QED
      BY <3>1, <3>2, <3>3, Parts, OneConveys
  <2>3. QED
    BY <1>1, <2>1, <2>2
<1>3. /\ ~Is(c, "locked") /\ "lock" \in Places /\ "read" \in Places
      /\ "lock" # "locked" /\ "read" # "locked"
  BY <1>1 DEF Is, Places
<1>4. Req(c) \in Requests
  BY DEF IInv, Types, Req
<1>5. NoRequest \in Requests /\ NoRequest.op # "publish"
  BY DEF NoRequest, Request, Requests, Op
<1>6. CASE Publishing(c) /\ Moves(c, "lock", Req(c))
  BY <1>1, <1>2, <1>3, <1>4, <1>6, ReaderMoves
<1>7. CASE Moves(c, "read", NoRequest)
  BY <1>1, <1>2, <1>3, <1>5, <1>7, ReaderMoves
<1>8. QED
  BY <1>1, <1>6, <1>7

\* The writer takes, writes, fails and ends.
LEMMA WriterOK ==
  ASSUME IInv, NEW c \in Conn, WriterRuns(c)
  PROVE  IInv'
<1>1. UNCHANGED <<lock, reader, sent>>
  BY DEF WriterRuns, Take, Write, Finish
<1>2. ASSUME Take(c) PROVE ConveyedTypes' /\ \A d \in Conn : Thins(Stream(d)', Stream(d))
  <2> DEFINE h == Head(chan[c])
             t == Tail(chan[c])
  <2>1. /\ writer[c] = Recv /\ chan[c] # <<>> /\ UNCHANGED <<sock, got>>
        /\ writer' = [writer EXCEPT ![c] = h] /\ chan' = [chan EXCEPT ![c] = t]
    BY <1>2 DEF Take
  <2>2. h \in Holding /\ t \in Seq(Packet)
    BY <2>1, Parts, TailOrder, NotMessages
  <2>3. Thins(StreamOf(got[c], sock[c], h, t), StreamOf(got[c], sock[c], writer[c], chan[c]))
    BY <2>1, Parts, TakeThins
  <2> HIDE DEF h, t
  <2>4. /\ got' = [got EXCEPT ![c] = got[c]] /\ sock' = [sock EXCEPT ![c] = sock[c]]
        /\ writer' = [writer EXCEPT ![c] = h] /\ chan' = [chan EXCEPT ![c] = t]
    BY <2>1, Kept
  <2>5. QED
    BY <2>2, <2>3, <2>4, Parts, OneConveys
<1>3. ASSUME Write(c) PROVE ConveyedTypes' /\ \A d \in Conn : Thins(Stream(d)', Stream(d))
  <2> DEFINE a == Append(sock[c], writer[c])
             e == <<>>
  <2>1. CASE sock' = [sock EXCEPT ![c] = a] /\ writer' = [writer EXCEPT ![c] = Recv]
             /\ chan' = chan
    <3>1. writer[c] \in Packet /\ got' = got
      BY <1>3, Parts DEF Write, Holding
    <3>2. a \in Seq(Packet) /\ Recv \in Holding
      BY <3>1, Parts, AppendProperties, NotMessages
    <3>3. Thins(StreamOf(got[c], a, Recv, chan[c]), StreamOf(got[c], sock[c], writer[c], chan[c]))
      BY <3>1, Parts, WriteThins
    <3> HIDE DEF a
    <3>4. /\ got' = [got EXCEPT ![c] = got[c]] /\ sock' = [sock EXCEPT ![c] = a]
          /\ writer' = [writer EXCEPT ![c] = Recv] /\ chan' = [chan EXCEPT ![c] = chan[c]]
      BY <2>1, <3>1, Kept
    <3>5. QED
      BY <3>2, <3>3, <3>4, Parts, OneConveys
  <2>2. CASE writer' = [writer EXCEPT ![c] = Ended] /\ chan' = [chan EXCEPT ![c] = e]
             /\ sock' = sock
    <3>1. got' = got /\ e \in Seq(Packet) /\ Ended \in Holding
      BY <1>3, NotMessages DEF Write
    <3>2. Thins(StreamOf(got[c], sock[c], Ended, e), StreamOf(got[c], sock[c], writer[c], chan[c]))
      BY Parts, DropThins
    <3> HIDE DEF e
    <3>3. /\ got' = [got EXCEPT ![c] = got[c]] /\ sock' = [sock EXCEPT ![c] = sock[c]]
          /\ writer' = [writer EXCEPT ![c] = Ended] /\ chan' = [chan EXCEPT ![c] = e]
      BY <2>2, <3>1, Kept
    <3>4. QED
      BY <3>1, <3>2, <3>3, Parts, OneConveys
  <2>3. QED
    BY <1>3, <2>1, <2>2 DEF Write
<1>4. ASSUME Finish(c) PROVE ConveyedTypes' /\ \A d \in Conn : Thins(Stream(d)', Stream(d))
  <2>1. writer' = [writer EXCEPT ![c] = Ended] /\ UNCHANGED <<chan, sock, got>>
    BY <1>4 DEF Finish
  <2>2. Thins(StreamOf(got[c], sock[c], Ended, chan[c]),
              StreamOf(got[c], sock[c], writer[c], chan[c]))
    BY Parts, DropThins
  <2>3. /\ got' = [got EXCEPT ![c] = got[c]] /\ sock' = [sock EXCEPT ![c] = sock[c]]
        /\ writer' = [writer EXCEPT ![c] = Ended] /\ chan' = [chan EXCEPT ![c] = chan[c]]
    BY <2>1, Kept
  <2>4. Ended \in Holding
    BY NotMessages
  <2>5. QED
    BY <2>2, <2>3, <2>4, Parts, OneConveys
<1>5. QED
  BY <1>1, <1>2, <1>3, <1>4, OthersMove DEF WriterRuns

\* The peer reads its socket or closes it.
LEMMA PeerOK ==
  ASSUME IInv, NEW c \in Conn, PeerRead(c) \/ PeerClose(c)
  PROVE  IInv'
<1>1. UNCHANGED <<lock, reader, sent, writer, chan>>
  BY DEF PeerRead, PeerClose
<1>2. ASSUME PeerRead(c) PROVE ConveyedTypes' /\ \A d \in Conn : Thins(Stream(d)', Stream(d))
  <2> DEFINE h == Head(sock[c])
             t == Tail(sock[c])
             g == Append(got[c], h)
  <2>1. /\ sock[c] # <<>> /\ sock' = [sock EXCEPT ![c] = t]
        /\ got' = IF h = Reply THEN got ELSE [got EXCEPT ![c] = g]
    BY <1>2 DEF PeerRead
  <2>2. h \in Packet /\ t \in Seq(Packet)
    BY <2>1, Parts, TailOrder
  <2>3. CASE h = Reply
    <3>1. Thins(StreamOf(got[c], t, writer[c], chan[c]), StreamOf(got[c], sock[c], writer[c], chan[c]))
      BY <2>1, Parts, ReplyReadThins
    <3>2. got' = got
      BY <2>1, <2>3
    <3> HIDE DEF h, t, g
    <3>3. /\ got' = [got EXCEPT ![c] = got[c]] /\ sock' = [sock EXCEPT ![c] = t]
          /\ writer' = [writer EXCEPT ![c] = writer[c]] /\ chan' = [chan EXCEPT ![c] = chan[c]]
      BY <1>1, <2>1, <3>2, Kept
    <3>4. QED
      BY <2>2, <3>1, <3>3, Parts, OneConveys
  <2>4. CASE h # Reply
    <3>1. h \in Msg /\ got' = [got EXCEPT ![c] = g]
      BY <2>1, <2>2, <2>4 DEF Packet
    <3>2. g \in Seq(Msg)
      BY <3>1, Parts, AppendProperties
    <3>3. Thins(StreamOf(g, t, writer[c], chan[c]), StreamOf(got[c], sock[c], writer[c], chan[c]))
      BY <2>1, <3>1, Parts, ReadThins
    <3> HIDE DEF h, t, g
    <3>4. /\ got' = [got EXCEPT ![c] = g] /\ sock' = [sock EXCEPT ![c] = t]
          /\ writer' = [writer EXCEPT ![c] = writer[c]] /\ chan' = [chan EXCEPT ![c] = chan[c]]
      BY <1>1, <2>1, <3>1, Kept
    <3>5. QED
      BY <2>2, <3>2, <3>3, <3>4, Parts, OneConveys
  <2>5. QED
    BY <2>3, <2>4
<1>3. ASSUME PeerClose(c) PROVE ConveyedTypes' /\ \A d \in Conn : Thins(Stream(d)', Stream(d))
  <2> DEFINE e == <<>>
  <2>1. sock' = [sock EXCEPT ![c] = e] /\ got' = got /\ e \in Seq(Packet)
    BY <1>3 DEF PeerClose
  <2>2. Thins(StreamOf(got[c], e, writer[c], chan[c]), StreamOf(got[c], sock[c], writer[c], chan[c]))
    BY Parts, DropThins
  <2> HIDE DEF e
  <2>3. /\ got' = [got EXCEPT ![c] = got[c]] /\ sock' = [sock EXCEPT ![c] = e]
        /\ writer' = [writer EXCEPT ![c] = writer[c]] /\ chan' = [chan EXCEPT ![c] = chan[c]]
    BY <1>1, <2>1, Kept
  <2>4. QED
    BY <2>1, <2>2, <2>3, Parts, OneConveys
<1>4. QED
  BY <1>1, <1>2, <1>3, OthersMove

----------------------------------------------------------------------------
(* The theorems.                                                           *)

\* IInv is inductive.
THEOREM ThreadedInductive == Spec => []IInv
<1>1. Init => IInv
  BY InitOK
<1>2. IInv /\ [Next]_vars => IInv'
  <2> SUFFICES ASSUME IInv, [Next]_vars PROVE IInv'
    OBVIOUS
  <2>1. ASSUME NEW c \in Conn, Reading(c) \/ EndLoop(c) \/ Lock(c) \/ ReaderRuns(c)
        PROVE  IInv'
    BY <2>1, RequestOK, ReadPublishOK, PublishOneOK, SendReplyOK DEF Reading, ReaderRuns
  <2>2. CASE UNCHANGED vars
    <3>1. UNCHANGED Conveyed /\ UNCHANGED <<lock, reader, sent>>
      BY <2>2 DEF vars, Conveyed
    <3>2. ConveyedTypes' /\ \A d \in Conn : Thins(Stream(d)', Stream(d))
      BY <3>1, StreamsStay DEF IInv, Types, ConveyedTypes, Conveyed
    <3>3. QED
      BY <3>1, <3>2, OthersMove
  <2>3. QED
    BY <2>1, <2>2, WriterOK, PeerOK DEF Next
<1>3. QED
  BY <1>1, <1>2, PTL DEF Spec

\* However readers, writers and peers interleave, and whatever full channels and
\* ending connections drop: no two subscribers see two messages in different
\* orders.
THEOREM OneOrder == Spec => []SameOrder
<1>1. IInv => SameOrder
  BY DEF IInv
<1>2. QED
  BY <1>1, ThreadedInductive, PTL

----------------------------------------------------------------------------
(* Types: what the subscription table, the channels and the sockets hold.  *)

SubType == [filter : Filter, token : Conn]

\* A request that is to enter its critical section has one; what a reader
\* subscribes to is a filter; the loop index of publish stays close to the table.
Fit(pc, req) ==
  /\ pc \in {"lock", "locked"} => req.op # "none"
  /\ req.op = "subscribe" => req.arg \in Filter
  /\ req.i \in 1 .. MAX_SUBS + 1

\* Subscriptions that have been read and not yet entered.
Subscribing == {c \in Conn : Req(c).op = "subscribe"}

Table ==
  /\ subs \in Seq(SubType)
  /\ IsFiniteSet(Subscribing) /\ Len(subs) + Cardinality(Subscribing) <= MAX_SUBS
  /\ \A c \in Conn : Fit(reader[c].pc, Req(c))

Buffers ==
  /\ peer \in [Conn -> BOOLEAN]
  /\ \A c \in Conn : Len(chan[c]) <= SUB_QUEUE_CAP /\ Len(sock[c]) <= SOCK_CAP

\* A reader moves, and takes its subscription from the set of those to be
\* entered, or adds one, or neither.
LEMMA SubscribingMoves ==
  ASSUME IInv, Table, NEW c \in Conn, NEW pc, NEW req, Moves(c, pc, req)
  PROVE  /\ \A d \in Conn \ {c} : reader'[d] = reader[d]
         /\ reader'[c].pc = pc /\ Req(c)' = req
         /\ IsFiniteSet(Subscribing') /\ Cardinality(Subscribing') \in Nat
         /\ Cardinality(Subscribing) \in Nat
         /\ req.op = "subscribe" => Cardinality(Subscribing') <= Cardinality(Subscribing) + 1
         /\ req.op # "subscribe" \/ Req(c).op = "subscribe" =>
              Cardinality(Subscribing') <= Cardinality(Subscribing)
         /\ req.op # "subscribe" /\ Req(c).op = "subscribe" =>
              Cardinality(Subscribing') = Cardinality(Subscribing) - 1
<1> DEFINE S == Subscribing
           T == Subscribing'
<1>1. /\ reader' = [reader EXCEPT ![c] = At(pc, req)] /\ DOMAIN reader = Conn
  BY DEF Moves, IInv, Types
<1>2. /\ \A d \in Conn \ {c} : reader'[d] = reader[d]
      /\ reader'[c].pc = pc /\ Req(c)' = req
  BY <1>1 DEF At, Req
<1>3. \A d \in Conn \ {c} : d \in T <=> d \in S
  BY <1>2 DEF Subscribing, Req
<1>4. (c \in T <=> req.op = "subscribe") /\ (c \in S <=> Req(c).op = "subscribe")
  BY <1>2 DEF Subscribing
<1>5. T \subseteq Conn /\ S \subseteq Conn
  BY DEF Subscribing
<1>6. IsFiniteSet(S)
  BY DEF Table
<1> HIDE DEF S, T
<1>7. T = IF req.op = "subscribe" THEN S \cup {c} ELSE S \ {c}
  BY <1>3, <1>4, <1>5
<1>8. /\ IsFiniteSet(S \cup {c}) /\ IsFiniteSet(S \ {c})
      /\ Cardinality(S) \in Nat /\ Cardinality(S \cup {c}) \in Nat /\ Cardinality(S \ {c}) \in Nat
  BY <1>6, FS_AddElement, FS_RemoveElement, FS_CardinalityType
<1>9. Cardinality(S \cup {c}) = IF c \in S THEN Cardinality(S) ELSE Cardinality(S) + 1
  BY <1>6, FS_AddElement
<1>10. Cardinality(S \ {c}) = IF c \in S THEN Cardinality(S) - 1 ELSE Cardinality(S)
  BY <1>6, FS_RemoveElement
<1>11. /\ IsFiniteSet(T) /\ Cardinality(T) \in Nat
       /\ req.op = "subscribe" => Cardinality(T) <= Cardinality(S) + 1
       /\ req.op # "subscribe" \/ Req(c).op = "subscribe" => Cardinality(T) <= Cardinality(S)
       /\ req.op # "subscribe" /\ Req(c).op = "subscribe" => Cardinality(T) = Cardinality(S) - 1
  BY <1>4, <1>7, <1>8, <1>9, <1>10
<1>12. QED
  BY <1>2, <1>8, <1>11 DEF S, T

\* The table stays in order where the number of subscriptions, entered or to be
\* entered, stays within the bound.
LEMMA TableMoves ==
  ASSUME IInv, Table, NEW c \in Conn, NEW pc, NEW req, Moves(c, pc, req), Fit(pc, req),
         subs' \in Seq(SubType),
         \/ /\ req.op = "subscribe" => Req(c).op = "subscribe"
            /\ Len(subs') <= Len(subs)
         \/ Len(subs) + Cardinality(Subscribing) < MAX_SUBS /\ req.op = "subscribe" /\ subs' = subs
         \/ /\ Req(c).op = "subscribe" /\ req.op # "subscribe"
            /\ Len(subs') <= Len(subs) + 1
  PROVE  Table'
<1>1. /\ subs \in Seq(SubType) /\ Len(subs) \in Nat /\ Len(subs') \in Nat
  BY LenProperties DEF Table
<1>2. Len(subs) + Cardinality(Subscribing) <= MAX_SUBS
  BY DEF Table
<1>3. MAX_SUBS \in Nat
  BY ThreadedAssumption
<1> DEFINE N == Cardinality(Subscribing)
           M == Cardinality(Subscribing')
<1>4. /\ IsFiniteSet(Subscribing') /\ M \in Nat /\ N \in Nat
      /\ req.op = "subscribe" => M <= N + 1
      /\ req.op # "subscribe" \/ Req(c).op = "subscribe" => M <= N
      /\ req.op # "subscribe" /\ Req(c).op = "subscribe" => M = N - 1
  BY SubscribingMoves
<1> HIDE DEF N, M
<1>5. Len(subs') + M <= MAX_SUBS
  BY <1>1, <1>2, <1>3, <1>4 DEF N
<1>6. \A d \in Conn : Fit(reader[d].pc, Req(d))'
  <2>1. /\ \A d \in Conn \ {c} : reader'[d] = reader[d]
        /\ reader'[c].pc = pc /\ Req(c)' = req
    BY SubscribingMoves
  <2>2. \A d \in Conn \ {c} : Fit(reader'[d].pc, reader'[d].req)
    BY <2>1 DEF Table, Req
  <2>3. Fit(reader'[c].pc, reader'[c].req)
    BY <2>1 DEF Req
  <2>4. QED
    BY <2>2, <2>3 DEF Req, Fit
<1>7. QED
  BY <1>4, <1>5, <1>6 DEF Table, M

\* RemoveAt takes one element out, or none.
LEMMA RemoveAtType ==
  ASSUME NEW S, NEW s \in Seq(S), NEW i \in 1 .. Len(s)
  PROVE  RemoveAt(s, i) \in Seq(S) /\ Len(RemoveAt(s, i)) <= Len(s)
<1> DEFINE a == SubSeq(s, 1, i - 1)
           b == SubSeq(s, i + 1, Len(s))
<1>1. Len(s) \in Nat
  BY LenProperties
<1>2. a \in Seq(S) /\ Len(a) = i - 1
  BY <1>1, SubSeqProperties
<1>3. b \in Seq(S) /\ Len(b) = Len(s) - i
  BY <1>1, SubSeqProperties
<1> HIDE DEF a, b
<1>4. a \o b \in Seq(S) /\ Len(a \o b) = Len(a) + Len(b)
  BY <1>2, <1>3, ConcatProperties
<1>5. RemoveAt(s, i) = a \o b
  BY DEF RemoveAt, a, b
<1>6. QED
  BY <1>1, <1>2, <1>3, <1>4, <1>5

LEMMA TableStays ==
  ASSUME Table, UNCHANGED <<reader, subs>>
  PROVE  Table'
<1>1. Subscribing' = Subscribing
  BY DEF Subscribing, Req
<1>2. \A d \in Conn : Fit(reader[d].pc, Req(d))'
  BY DEF Table, Req, Fit
<1>3. QED
  BY <1>1, <1>2 DEF Table

\* A reader reads a packet, and leaves the table as it is.
LEMMA ReadingTable ==
  ASSUME IInv, Table, NEW c \in Conn, Reading(c) \/ EndLoop(c)
  PROVE  Table'
<1>1. UNCHANGED subs /\ subs \in Seq(SubType) /\ Len(subs) \in Nat
  BY LenProperties DEF Table, Reading, EndLoop, ReadSubscribe, ReadUnsubscribe, ReadPublish, ReadPing
<1>2. 1 \in 1 .. MAX_SUBS + 1
  BY ThreadedAssumption
<1>3. ASSUME NEW f \in Filter, ReadSubscribe(c, f) PROVE Table'
  <2> DEFINE req == Request("subscribe", f, TRUE)
  <2>1. Fit("lock", req) /\ req.op = "subscribe"
    BY <1>2 DEF Fit, Request
  <2>2. Cardinality({d \in Conn : Req(d).op = "subscribe"}) = Cardinality(Subscribing)
    BY DEF Subscribing
  <2>3. Len(subs) + Cardinality(Subscribing) < MAX_SUBS /\ Moves(c, "lock", req)
    BY <1>3, <2>2 DEF ReadSubscribe
  <2> HIDE DEF req
  <2>4. QED
    BY <1>1, <2>1, <2>3, TableMoves
<1>4. ASSUME NEW pc, NEW req, Moves(c, pc, req), Fit(pc, req), req.op # "subscribe"
      PROVE  Table'
  BY <1>1, <1>4, TableMoves
<1>5. ASSUME NEW f \in Filter, ReadUnsubscribe(c, f) PROVE Table'
  <2> DEFINE req == Request("unsubscribe", f, TRUE)
  <2>1. Fit("lock", req) /\ req.op # "subscribe"
    BY <1>2 DEF Fit, Request
  <2>2. Moves(c, "lock", req)
    BY <1>5 DEF ReadUnsubscribe
  <2> HIDE DEF req
  <2>3. QED
    BY <1>4, <2>1, <2>2
<1>6. ASSUME NEW m \in Msg, NEW qos \in PUB_QOS, ReadPublish(c, m, qos) PROVE Table'
  <2> DEFINE req == Request("publish", m, FALSE)
             pc == IF qos = 1 THEN "send" ELSE "lock"
  <2>1. Fit(pc, req) /\ req.op # "subscribe"
    BY <1>2 DEF Fit, Request
  <2>2. Moves(c, pc, req)
    BY <1>6 DEF ReadPublish
  <2> HIDE DEF req, pc
  <2>3. QED
    BY <1>4, <2>1, <2>2
<1>7. ASSUME ReadPing(c) PROVE Table'
  <2>1. Fit("send", NoRequest) /\ NoRequest.op # "subscribe"
    BY <1>2 DEF Fit, Request, NoRequest
  <2>2. Moves(c, "send", NoRequest)
    BY <1>7 DEF ReadPing
  <2>3. QED
    BY <1>4, <2>1, <2>2
<1>8. ASSUME EndLoop(c) PROVE Table'
  <2> DEFINE req == Request("cleanup", {}, FALSE)
  <2>1. Fit("lock", req) /\ req.op # "subscribe"
    BY <1>2 DEF Fit, Request
  <2>2. Moves(c, "lock", req)
    BY <1>8 DEF EndLoop
  <2> HIDE DEF req
  <2>3. QED
    BY <1>4, <2>1, <2>2
<1>9. QED
  BY <1>3, <1>5, <1>6, <1>7, <1>8 DEF Reading

\* The critical sections: every request that enters has one of its own, and
\* leaves the table one subscription longer or no longer at all.
LEMMA LockedTable ==
  ASSUME IInv, Table, NEW c \in Conn, Locked(c)
  PROVE  Table'
<1> DEFINE req == Req(c)
           more == Append(subs, Sub(req.arg, c))
           left == Only(subs, ToSet(subs) \ {Sub(req.arg, c)})
           others == Only(subs, {s \in ToSet(subs) : s.token # c})
<1>1. subs \in Seq(SubType) /\ Len(subs) \in Nat
  <2>1. subs \in Seq(SubType)
    BY DEF Table
  <2>2. QED
    BY <2>1, LenProperties
<1>2. req.op \in {"connect", "subscribe", "unsubscribe", "cleanup"}
  <2>1. req.op \in Op
    BY DEF IInv, Types, Requests, Req
  <2>2. req.op # "none" /\ req.op # "publish"
    BY DEF Locked, Table, Fit, Is
  <2>3. QED
    BY <2>1, <2>2 DEF Op
<1>3. /\ subs' = CASE req.op = "connect" -> subs [] req.op = "subscribe" -> more
                   [] req.op = "unsubscribe" -> left [] req.op = "cleanup" -> others
      /\ Moves(c, "send", NoRequest) \/ Moves(c, Ended, NoRequest)
  BY DEF Locked
<1>4. /\ left \in Seq(SubType) /\ Len(left) <= Len(subs)
      /\ others \in Seq(SubType) /\ Len(others) <= Len(subs)
  <2>1. ASSUME NEW U PROVE Only(subs, U) \in Seq(SubType) /\ Len(Only(subs, U)) <= Len(subs)
    <3> DEFINE r == Only(subs, U)
    <3>1. r \in Seq(SubType \cap U) /\ Len(r) <= Len(subs)
      BY <1>1, OnlyType
    <3> HIDE DEF r
    <3>2. r \in Seq(SubType)
      BY <3>1
    <3>3. QED
      BY <3>1, <3>2 DEF r
  <2>2. QED
    BY <2>1, Zenon
<1>5. req.op = "subscribe" => more \in Seq(SubType) /\ Len(more) = Len(subs) + 1
  <2>1. req.op = "subscribe" => req.arg \in Filter
    BY DEF Table, Fit
  <2>2. req.op = "subscribe" => Sub(req.arg, c) \in SubType
    BY <2>1 DEF Sub, SubType
  <2>3. QED
    BY <1>1, <2>2, AppendProperties
<1>6. 1 \in 1 .. MAX_SUBS + 1
  BY ThreadedAssumption
<1>7. Fit("send", NoRequest) /\ Fit(Ended, NoRequest) /\ NoRequest.op # "subscribe"
  BY <1>6 DEF Fit, Request, NoRequest, Ended
<1> HIDE DEF more, left, others
<1>8. CASE req.op = "subscribe"
  <2>1. subs' \in Seq(SubType) /\ Len(subs') <= Len(subs) + 1
    BY <1>1, <1>3, <1>5, <1>8
  <2>2. QED
    BY <1>3, <1>7, <1>8, <2>1, TableMoves
<1>9. CASE req.op # "subscribe"
  <2>1. subs' \in Seq(SubType) /\ Len(subs') <= Len(subs)
    BY <1>1, <1>2, <1>3, <1>4, <1>9
  <2>2. QED
    BY <1>3, <1>7, <1>9, <2>1, TableMoves
<1>10. QED
  BY <1>8, <1>9

\* The other steps of a reader.
LEMMA ReaderTable ==
  ASSUME IInv, Table, NEW c \in Conn,
         Lock(c) \/ PublishOne(c) \/ PublishDone(c) \/ SendReply(c)
  PROVE  Table'
<1> DEFINE req == Req(c)
           next == [req EXCEPT !.i = @ + 1]
<1>1. subs \in Seq(SubType) /\ Len(subs) \in Nat
  <2>1. subs \in Seq(SubType)
    BY DEF Table
  <2>2. QED
    BY <2>1, LenProperties
<1>2. Fit(reader[c].pc, req) /\ req \in Requests
  BY DEF Table, IInv, Types, Req
<1>3. Len(subs) <= MAX_SUBS /\ MAX_SUBS \in Nat /\ 1 \in 1 .. MAX_SUBS + 1
  <2>1. IsFiniteSet(Subscribing) /\ Len(subs) + Cardinality(Subscribing) <= MAX_SUBS
    BY DEF Table
  <2>2. Cardinality(Subscribing) \in Nat
    BY <2>1, FS_CardinalityType
  <2>3. QED
    BY <1>1, <2>1, <2>2, ThreadedAssumption
<1>4. Fit("read", NoRequest) /\ NoRequest.op # "subscribe"
  BY <1>3 DEF Fit, Request, NoRequest
<1>5. CASE Lock(c)
  <2>1. Moves(c, "locked", req) /\ UNCHANGED subs /\ Fit("locked", req)
    BY <1>2, <1>5 DEF Lock, Is, Fit
  <2> HIDE DEF req
  <2>2. QED
    BY <1>1, <2>1, TableMoves DEF req
<1>6. CASE PublishDone(c)
  <2>1. Moves(c, "read", NoRequest) /\ UNCHANGED subs
    BY <1>6 DEF PublishDone
  <2>2. QED
    BY <1>1, <1>4, <2>1, TableMoves
<1>7. CASE SendReply(c)
  <2>1. /\ UNCHANGED subs
        /\ (req.op = "publish" /\ Moves(c, "lock", req)) \/ Moves(c, "read", NoRequest)
    BY <1>7 DEF SendReply
  <2>2. req.op = "publish" => Fit("lock", req)
    BY <1>2 DEF Fit
  <2> HIDE DEF req
  <2>3. CASE req.op = "publish" /\ Moves(c, "lock", req)
    <3>1. req.op # "subscribe"
      BY <2>3
    <3>2. QED
      BY <1>1, <2>1, <2>2, <2>3, <3>1, TableMoves
  <2>4. CASE Moves(c, "read", NoRequest)
    BY <1>1, <1>4, <2>1, <2>4, TableMoves
  <2>5. QED
    BY <2>1, <2>3, <2>4
<1>8. CASE PublishOne(c)
  <2>1. /\ req.op = "publish" /\ req.i <= Len(subs) /\ req.i \in 1 .. Len(subs)
    <3>1. req.op = "publish" /\ req.i <= Len(subs)
      BY <1>8 DEF PublishOne
    <3>2. req.i \in 1 .. MAX_SUBS + 1
      BY <1>2 DEF Fit
    <3> HIDE DEF req
    <3>3. QED
      BY <1>1, <1>3, <3>1, <3>2
  <2>2. \/ Moves(c, "locked", next) /\ UNCHANGED subs
        \/ subs' = RemoveAt(subs, req.i) /\ UNCHANGED reader
    BY <1>8 DEF PublishOne
  <2>3. next.op = "publish" /\ next.i = req.i + 1
    BY <1>2, <2>1 DEF Requests
  <2>4. Fit("locked", next)
    BY <1>1, <1>3, <2>1, <2>3 DEF Fit
  <2>5. CASE Moves(c, "locked", next) /\ UNCHANGED subs
    <3> HIDE DEF next
    <3>1. QED
      BY <1>1, <2>3, <2>4, <2>5, TableMoves
  <2>6. CASE subs' = RemoveAt(subs, req.i) /\ UNCHANGED reader
    <3>1. subs' \in Seq(SubType) /\ Len(subs') <= Len(subs) /\ Len(subs') \in Nat
      <4>1. subs' \in Seq(SubType) /\ Len(subs') <= Len(subs)
        BY <1>1, <2>1, <2>6, RemoveAtType
      <4>2. QED
        BY <4>1, LenProperties
    <3>2. Subscribing' = Subscribing
      BY <2>6 DEF Subscribing, Req
    <3>3. IsFiniteSet(Subscribing) /\ Cardinality(Subscribing) \in Nat
          /\ Len(subs) + Cardinality(Subscribing) <= MAX_SUBS
      BY FS_CardinalityType DEF Table
    <3>4. Len(subs') + Cardinality(Subscribing) <= MAX_SUBS
      BY <1>1, <1>3, <3>1, <3>3
    <3>5. \A d \in Conn : Fit(reader[d].pc, Req(d))'
      BY <2>6 DEF Table, Req, Fit
    <3>6. QED
      BY <3>1, <3>2, <3>3, <3>4, <3>5 DEF Table
  <2>7. QED
    BY <2>2, <2>5, <2>6
<1>9. QED
  BY <1>5, <1>6, <1>7, <1>8

\* Channels and sockets hold no more than they have room for.
LEMMA BuffersOK ==
  ASSUME IInv, Buffers, Next
  PROVE  Buffers'
<1>1. /\ chan \in [Conn -> Seq(Packet)] /\ sock \in [Conn -> Seq(Packet)]
      /\ peer \in [Conn -> BOOLEAN]
      /\ \A d \in Conn : Len(chan[d]) <= SUB_QUEUE_CAP /\ Len(sock[d]) <= SOCK_CAP
  BY DEF IInv, Types, Buffers
<1>2. /\ \A d \in Conn : Len(chan[d]) \in Nat /\ Len(sock[d]) \in Nat
      /\ SUB_QUEUE_CAP \in Nat /\ SOCK_CAP \in Nat
  BY <1>1, LenProperties, ThreadedAssumption
\* A buffer changes at most at u, where it becomes k.
<1>3. ASSUME NEW u, NEW k, Len(k) <= SUB_QUEUE_CAP,
             chan' = [chan EXCEPT ![u] = k], UNCHANGED <<sock, peer>>
      PROVE  Buffers'
  BY <1>1, <1>3 DEF Buffers
<1>4. ASSUME NEW u, NEW k, Len(k) <= SOCK_CAP,
             sock' = [sock EXCEPT ![u] = k], UNCHANGED chan, peer' \in [Conn -> BOOLEAN]
      PROVE  Buffers'
  BY <1>1, <1>4 DEF Buffers
<1>5. ASSUME UNCHANGED <<chan, sock, peer>> PROVE Buffers'
  BY <1>5 DEF Buffers
<1>6. \A s, x : s \in Seq(Packet) /\ x \in Packet => Len(Append(s, x)) = Len(s) + 1
  BY AppendProperties
<1>7. \A s : s \in Seq(Packet) /\ s # <<>> => Len(Tail(s)) = Len(s) - 1
  BY HeadTailProperties
<1>8. Len(<<>>) = 0
  OBVIOUS
<1>9. PICK c \in Conn :
        \/ Reading(c) \/ EndLoop(c) \/ Lock(c) \/ ReaderRuns(c)
        \/ WriterRuns(c) \/ PeerRead(c) \/ PeerClose(c)
  BY DEF Next
<1>10. CASE Reading(c) \/ EndLoop(c) \/ Lock(c) \/ Locked(c) \/ PublishDone(c)
  BY <1>5, <1>10
     DEF Reading, ReadSubscribe, ReadUnsubscribe, ReadPublish, ReadPing, EndLoop, Lock, Locked,
         PublishDone
<1>11. CASE PublishOne(c)
  <2> DEFINE req == Req(c)
             u == subs[req.i].token
             k == Append(chan[u], req.arg)
  <2>1. /\ UNCHANGED <<sock, peer>>
        /\ chan' = chan \/ (HasRoom(u) /\ chan' = [chan EXCEPT ![u] = k])
    BY <1>11 DEF PublishOne
  <2>2. CASE HasRoom(u) /\ chan' = [chan EXCEPT ![u] = k]
    <3>1. CASE u \in Conn
      <4>1. req.arg \in Msg
        BY <1>11 DEF IInv, Types, Claims, Publishing, PublishOne
      <4>2. Len(k) = Len(chan[u]) + 1
        BY <1>1, <1>6, <3>1, <4>1 DEF Packet
      <4>3. Len(k) <= SUB_QUEUE_CAP
        BY <1>2, <2>2, <3>1, <4>2 DEF HasRoom
      <4> HIDE DEF k, u
      <4>4. QED
        BY <1>3, <2>1, <2>2, <4>3
    <3>2. CASE u \notin Conn
      <4> HIDE DEF k, u
      <4>1. chan' = chan
        BY <1>1, <2>2, <3>2
      <4>2. QED
        BY <1>5, <2>1, <4>1
    <3>3. QED
      BY <3>1, <3>2
  <2>3. QED
    BY <1>5, <2>1, <2>2
<1>12. CASE SendReply(c)
  <2> DEFINE k == Append(chan[c], Reply)
  <2>1. /\ UNCHANGED <<sock, peer>>
        /\ chan' = chan \/ (HasRoom(c) /\ chan' = [chan EXCEPT ![c] = k])
    BY <1>12 DEF SendReply
  <2>2. Len(k) = Len(chan[c]) + 1
    BY <1>1, <1>6 DEF Packet
  <2>3. HasRoom(c) => Len(k) <= SUB_QUEUE_CAP
    BY <1>2, <2>2 DEF HasRoom
  <2> HIDE DEF k
  <2>4. QED
    BY <1>3, <1>5, <2>1, <2>3
<1>13. CASE Take(c)
  <2> DEFINE k == Tail(chan[c])
  <2>1. chan[c] # <<>> /\ chan' = [chan EXCEPT ![c] = k] /\ UNCHANGED <<sock, peer>>
    BY <1>13 DEF Take
  <2>2. Len(k) <= SUB_QUEUE_CAP
    BY <1>1, <1>2, <1>7, <2>1
  <2> HIDE DEF k
  <2>3. QED
    BY <1>3, <2>1, <2>2
<1>14. CASE Write(c)
  <2> DEFINE k == Append(sock[c], writer[c])
             e == <<>>
  <2>1. \/ /\ Len(sock[c]) < SOCK_CAP /\ sock' = [sock EXCEPT ![c] = k]
           /\ UNCHANGED <<chan, peer>>
        \/ chan' = [chan EXCEPT ![c] = e] /\ UNCHANGED <<sock, peer>>
    BY <1>14 DEF Write
  <2>2. writer[c] \in Packet
    BY <1>14 DEF Write, IInv, Types, Holding
  <2>3. Len(sock[c]) < SOCK_CAP => Len(k) <= SOCK_CAP
    BY <1>1, <1>2, <1>6, <2>2
  <2>4. Len(e) <= SUB_QUEUE_CAP
    BY <1>2, <1>8
  <2> HIDE DEF k, e
  <2>5. QED
    BY <1>1, <1>3, <1>4, <2>1, <2>3, <2>4
<1>15. CASE Finish(c)
  BY <1>5, <1>15 DEF Finish
<1>16. CASE PeerRead(c)
  <2> DEFINE k == Tail(sock[c])
  <2>1. sock[c] # <<>> /\ sock' = [sock EXCEPT ![c] = k] /\ UNCHANGED <<chan, peer>>
    BY <1>16 DEF PeerRead
  <2>2. Len(k) <= SOCK_CAP
    BY <1>1, <1>2, <1>7, <2>1
  <2> HIDE DEF k
  <2>3. QED
    BY <1>1, <1>4, <2>1, <2>2
<1>17. CASE PeerClose(c)
  <2> DEFINE k == <<>>
  <2>1. /\ sock' = [sock EXCEPT ![c] = k] /\ UNCHANGED chan
        /\ peer' = [peer EXCEPT ![c] = FALSE]
    BY <1>17 DEF PeerClose
  <2>2. Len(k) <= SOCK_CAP
    BY <1>2, <1>8
  <2> HIDE DEF k
  <2>3. QED
    BY <1>1, <1>4, <2>1, <2>2
<1>18. QED
  BY <1>9, <1>10, <1>11, <1>12, <1>13, <1>14, <1>15, <1>16, <1>17 DEF ReaderRuns, WriterRuns

\* Every state of the threaded broker has its types: the channels and sockets
\* stay within their capacity, the table within its bound, and the mutex is held
\* by the one reader that is in its critical section.
THEOREM ThreadedTypes == Spec => []TypeOK
<1>1. Init => Table /\ Buffers
  <2> SUFFICES ASSUME Init PROVE Table /\ Buffers
    OBVIOUS
  <2>1. Subscribing = {} /\ \A c \in Conn : Fit(reader[c].pc, Req(c))
    BY ThreadedAssumption DEF Init, Subscribing, Fit, Req, At, Request
  <2>2. subs = <<>> /\ subs \in Seq(SubType) /\ Len(subs) = 0
    BY DEF Init
  <2>3. IsFiniteSet(Subscribing) /\ Cardinality(Subscribing) = 0
    BY <2>1, FS_EmptySet
  <2>4. Len(subs) + Cardinality(Subscribing) <= MAX_SUBS
    BY <2>2, <2>3, ThreadedAssumption
  <2>5. Table
    BY <2>1, <2>2, <2>3, <2>4 DEF Table
  <2>6. \A c \in Conn : Len(chan[c]) = 0 /\ Len(sock[c]) = 0
    BY DEF Init
  <2>7. 0 <= SUB_QUEUE_CAP /\ 0 <= SOCK_CAP
    BY ThreadedAssumption
  <2>8. peer \in [Conn -> BOOLEAN]
    BY DEF Init
  <2>9. QED
    BY <2>5, <2>6, <2>7, <2>8 DEF Buffers
<1>2. IInv /\ Table /\ Buffers /\ [Next]_vars => Table' /\ Buffers'
  <2> SUFFICES ASSUME IInv, Table, Buffers, [Next]_vars PROVE Table' /\ Buffers'
    OBVIOUS
  <2>1. CASE UNCHANGED vars
    BY <2>1, TableStays DEF vars, Buffers
  <2>2. CASE Next
    <3>1. Buffers'
      BY <2>2, BuffersOK
    <3>2. PICK c \in Conn :
            \/ Reading(c) \/ EndLoop(c) \/ Lock(c) \/ ReaderRuns(c)
            \/ WriterRuns(c) \/ PeerRead(c) \/ PeerClose(c)
      BY <2>2 DEF Next
    <3>3. CASE WriterRuns(c) \/ PeerRead(c) \/ PeerClose(c)
      BY <3>1, <3>3, TableStays DEF WriterRuns, Take, Write, Finish, PeerRead, PeerClose
    <3>4. QED
      BY <3>1, <3>2, <3>3, ReadingTable, LockedTable, ReaderTable DEF ReaderRuns
  <2>3. QED
    BY <2>1, <2>2
<1>3. IInv /\ Table /\ Buffers => TypeOK
  <2> SUFFICES ASSUME IInv, Table, Buffers PROVE TypeOK
    OBVIOUS
  <2>1. lock \in Conn \cup {Free} /\ \A c \in Conn : Is(c, "locked") <=> lock = c
    BY DEF IInv, Exclusion
  <2>2. subs \in Seq([filter : Filter, token : Conn])
    BY DEF Table, SubType
  <2>3. ASSUME NEW c \in Conn
        PROVE  /\ reader[c].pc \in {"read", "send", "lock", "locked", Ended}
               /\ Req(c).op \in Op /\ Req(c).i \in 1 .. MAX_SUBS + 1
               /\ writer[c] \in Msg \cup {Reply, Recv, Ended}
               /\ chan[c] \in Seq(Msg \cup {Reply}) /\ Len(chan[c]) <= SUB_QUEUE_CAP
               /\ sock[c] \in Seq(Msg \cup {Reply}) /\ Len(sock[c]) <= SOCK_CAP
               /\ peer[c] \in BOOLEAN /\ got[c] \in Seq(Msg)
    <3>1. reader[c] \in [pc : Places, req : Requests]
      BY DEF IInv, Types
    <3>2. Req(c).op \in Op /\ reader[c].pc \in Places
      BY <3>1 DEF Requests, Req
    <3>3. Req(c).i \in 1 .. MAX_SUBS + 1
      BY DEF Table, Fit
    <3>4. /\ writer[c] \in Holding /\ chan[c] \in Seq(Packet) /\ sock[c] \in Seq(Packet)
          /\ got[c] \in Seq(Msg)
      BY DEF IInv, Types
    <3>5. peer[c] \in BOOLEAN /\ Len(chan[c]) <= SUB_QUEUE_CAP /\ Len(sock[c]) <= SOCK_CAP
      BY DEF Buffers
    <3>6. Holding = Msg \cup {Reply, Recv, Ended}
      BY DEF Holding, Packet
    <3>7. QED
      BY <3>2, <3>3, <3>4, <3>5, <3>6 DEF Places, Packet
  <2>4. sent \in SUBSET Msg
    BY DEF IInv, Types
  <2>5. QED
    BY <2>1, <2>2, <2>3, <2>4 DEF TypeOK
<1>4. QED
  BY <1>1, <1>2, <1>3, ThreadedInductive, PTL DEF Spec
=============================================================================
