------------------------------ MODULE StateFile ------------------------------
(***************************************************************************)
(* The state file of the event-loop broker (mio_broker/src/main.rs):       *)
(* serialize_state and deserialize_state.                                  *)
(*                                                                         *)
(* A file is a sequence of numbers: the magic, the version, one number for *)
(* each u16 field (its two bytes are written and read together) and one for*)
(* each byte of a text and each QoS.  The contents are                     *)
(*   [retained |-> sequence of <<topic, payload, qos>>,                    *)
(*    sessions |-> sequence of <<client id, subs, offline>>]               *)
(* in the order in which the HashMaps are iterated; subs is a sequence of  *)
(* <<filter, qos>>, offline one like retained, and a text is the sequence  *)
(* of its bytes.                                                           *)
(***************************************************************************)
EXTENDS Integers, SequencesExt

CONSTANT FIELD  \* values of a length or count field: 65536 for a u16

ASSUME StateFileAssumption == FIELD \in Nat \ {0, 1}

MAGIC == 77
VERSION == 1

----------------------------------------------------------------------------
(* serialize_state.                                                        *)

\* `as u16`: what does not fit is cut off.
Field(n) == <<n % FIELD>>

EncodeText(text) == Field(Len(text)) \o text

EncodeAll(entries, Encoded(_)) ==
  Field(Len(entries)) \o FlattenSeq([i \in DOMAIN entries |-> Encoded(entries[i])])

EncodeMessage(e) == EncodeText(e[1]) \o EncodeText(e[2]) \o <<e[3]>>
EncodeSub(e) == EncodeText(e[1]) \o <<e[2]>>

\* Slip: the offline queue is written without its count.
EncodeSessionUncounted(e) ==
  EncodeText(e[1]) \o EncodeAll(e[2], EncodeSub)
    \o FlattenSeq([i \in DOMAIN e[3] |-> EncodeMessage(e[3][i])])

EncodeSession(e) ==
  EncodeText(e[1]) \o EncodeAll(e[2], EncodeSub) \o EncodeAll(e[3], EncodeMessage)

Encode(state) ==
  <<MAGIC, VERSION>> \o EncodeAll(state.retained, EncodeMessage)
                     \o EncodeAll(state.sessions, EncodeSession)

----------------------------------------------------------------------------
(* deserialize_state.  A cursor is [ok, pos, read]: whether no read has    *)
(* failed, the number of cells consumed, and the values read so far.       *)

None == [ok |-> FALSE]

\* Slip: a short read is filled up.
TakeShort(data, cur, n) ==
  IF ~cur.ok THEN None
  ELSE [ok |-> TRUE, pos |-> cur.pos + n,
        read |-> Append(cur.read, [i \in 1 .. n |-> IF cur.pos + i <= Len(data)
                                                    THEN data[cur.pos + i] ELSE 0])]

Take(data, cur, n) ==
  IF ~cur.ok \/ cur.pos + n > Len(data) THEN None
  ELSE [ok |-> TRUE, pos |-> cur.pos + n,
        read |-> Append(cur.read, SubSeq(data, cur.pos + 1, cur.pos + n))]

\* The last value read, and the cursor without it.
Value(cur) == Last(cur.read)[1]
Without(cur) == [cur EXCEPT !.read = Front(@)]

TakeText(data, cur) ==
  LET len == Take(data, cur, 1)
  IN  IF len.ok THEN Take(data, Without(len), Value(len)) ELSE None

\* A QoS above 2 rejects the file.
TakeQos(data, cur) ==
  LET qos == Take(data, cur, 1)
  IN  IF qos.ok /\ Value(qos) <= 2
      THEN [qos EXCEPT !.read = Append(Front(@), Value(qos))] ELSE None

\* A count and so many entries, each read by Entry.
TakeAll(data, cur, Entry(_, _)) ==
  LET count == Take(data, cur, 1)
      One(all, i) ==
        LET e == IF all.ok THEN Entry(data, [all EXCEPT !.read = <<>>]) ELSE None
        IN  IF e.ok THEN [e EXCEPT !.read = Append(all.read, e.read)] ELSE None
      all == FoldLeft(One, [count EXCEPT !.read = <<>>], [i \in 1 .. Value(count) |-> i])
  IN  IF ~count.ok THEN None
      ELSE IF ~all.ok THEN None ELSE [all EXCEPT !.read = Append(cur.read, @)]

TakeMessage(data, cur) == TakeQos(data, TakeText(data, TakeText(data, cur)))
TakeSub(data, cur) == TakeQos(data, TakeText(data, cur))
TakeSession(data, cur) ==
  TakeAll(data, TakeAll(data, TakeText(data, cur), TakeSub), TakeMessage)

\* None stands for a file that cannot be read; the broker then starts empty.
\* What follows the last session is not looked at.
Decode(data) ==
  LET cur == TakeAll(data, TakeAll(data, [ok |-> TRUE, pos |-> 2, read |-> <<>>], TakeMessage),
                     TakeSession)
  IN  IF Len(data) < 2 \/ SubSeq(data, 1, 2) # <<MAGIC, VERSION>> THEN None
      ELSE IF ~cur.ok THEN None
      ELSE [retained |-> cur.read[1], sessions |-> cur.read[2]]

----------------------------------------------------------------------------
\* No text and no list is longer than its length field can say.
FitsText(text) == Len(text) < FIELD
FitsMessages(entries) ==
  Len(entries) < FIELD /\ \A e \in ToSet(entries) : FitsText(e[1]) /\ FitsText(e[2])
Fits(state) ==
  /\ FitsMessages(state.retained)
  /\ Len(state.sessions) < FIELD
  /\ \A s \in ToSet(state.sessions) :
       /\ FitsText(s[1]) /\ FitsMessages(s[3])
       /\ Len(s[2]) < FIELD /\ \A e \in ToSet(s[2]) : FitsText(e[1])

Restores(state) == Decode(Encode(state)) = state

\* A write that was cut short.
Torn(state) == {SubSeq(Encode(state), 1, n) : n \in 0 .. Len(Encode(state)) - 1}
=============================================================================
