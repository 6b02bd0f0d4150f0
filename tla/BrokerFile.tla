------------------------------ MODULE BrokerFile ------------------------------
(***************************************************************************)
(* The composition of Broker and StateFile.  Broker takes the state file   *)
(* for the value it was written from, and for Corrupt when a write was     *)
(* interrupted; StateFile writes and reads it field by field.  This module *)
(* says when the former is a faithful picture of the latter.               *)
(***************************************************************************)
EXTENDS Broker, StateFile

\* The bytes of the names and payloads of Broker.
CONSTANTS TopicText, PayloadText, FilterText, CidText

Texts == Seq(0 .. 255)
\* There are finitely many client ids: one has at most 65535 bytes.
ASSUME BrokerFileAssumption ==
  /\ IsFiniteSet(Cid)
  /\ TopicText \in [Topic -> Texts] /\ PayloadText \in [Msg -> Texts]
  /\ FilterText \in [Filter -> Texts] /\ CidText \in [Cid -> Texts]
  /\ IsInjective(TopicText) /\ IsInjective(FilterText) /\ IsInjective(CidText)

\* A message held under its topic, a subscription, a session, as saved.
Message(h) == <<TopicText[TopicOf[h.msg]], PayloadText[h.msg], h.qos>>
Listed(seq, Entry(_)) == [i \in DOMAIN seq |-> Entry(seq[i])]
SavedSub(s) == <<FilterText[s.filter], s.qos>>
SavedSession(c, s) == <<CidText[c], Listed(s.subs, SavedSub), Listed(s.offline, Message)>>

\* The arguments of serialize_state.
FileOf(state) ==
  LET topics == SetToSeq({t \in Topic : state.retained[t].msg # NoMsg})
      cids == SetToSeq({c \in Cid : state.sessions[c].stored})
  IN  [retained |-> [i \in DOMAIN topics |-> Message(state.retained[topics[i]])],
       sessions |-> [i \in DOMAIN cids |-> SavedSession(cids[i], state.sessions[cids[i]])]]

----------------------------------------------------------------------------
(* The files the properties speak of: those of the instance's names, with  *)
(* up to three entries in the two tables, and each session within its      *)
(* limits.                                                                 *)

Messages == {Message(Held(m, qos)) : m \in Msg, qos \in PUB_QOS \cup {WILL_QOS}}
Subs == {SavedSub(s) : s \in UNION {ToSet(topics) : topics \in Requests}}
Sessions == {CidText[c] : c \in Cid} \X SeqOf(Subs, MAX_SUBS) \X SeqOf(Messages, OFFLINE_CAP)
Keyed(table) == \A i, j \in DOMAIN table : table[i][1] = table[j][1] => i = j

Files ==
  {[retained |-> r, sessions |-> s] :
     r \in SeqOf(Messages, 1), s \in {s \in SeqOf(Sessions, 2) : Keyed(s)}}

\* Every length fits its field.
RestoresIfFits(f) == Fits(f) => Restores(f)
RejectsTorn(f) == Fits(f) => \A data \in Torn(f) : Decode(data) = None

AllRestore == \A f \in Files : RestoresIfFits(f)

----------------------------------------------------------------------------
(* Properties.                                                             *)

\* What save writes load_state restores: counts, lengths and nested lists are
\* read back as they were written, as long as every length fits its field, for
\* every file the broker writes and every other one of the same names.
FileRestores ==
  /\ AllRestore
  /\ disk # Corrupt => RestoresIfFits(FileOf(disk))

\* A crash inside fs::write leaves a strict beginning of the file, and
\* load_state takes none of them for a file: the broker starts empty, never with
\* part of a table or a session cut short.
TornFileRejected ==
  Running => RejectsTorn(FileOf(Snapshot(broker)))

----------------------------------------------------------------------------
(* A claim of the documentation that the code does not meet.               *)

\* jcode_backlog.json:14, a restart loses nothing: what was saved is read back,
\* however long a payload is.
SavedIsRestored == disk # Corrupt => Restores(FileOf(disk))
=============================================================================
