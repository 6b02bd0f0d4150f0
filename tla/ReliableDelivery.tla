--------------------------- MODULE ReliableDelivery ---------------------------
(***************************************************************************)
(* What the broker promises one subscriber connection for QoS1 and QoS2    *)
(* messages, without queues, packets, timers or retransmissions: a message *)
(* is accepted into a bounded window, handed to the subscriber, and leaves *)
(* the window only once it has been handed over, as long as the connection *)
(* lasts; a message is accepted at most once.  How the queue, the packet   *)
(* ids and the handshakes keep this promise is the subject of Outbound.    *)
(***************************************************************************)
EXTENDS Naturals, FiniteSets

CONSTANTS Msg, WindowSize

VARIABLES
  open,         \* the connection lasts
  accepted,     \* messages taken on for this subscriber
  outstanding,  \* accepted and not yet confirmed
  received      \* handed to the subscriber's application

vars == <<open, accepted, outstanding, received>>

TypeOK ==
  /\ open \in BOOLEAN
  /\ accepted \subseteq Msg /\ outstanding \subseteq Msg /\ received \subseteq Msg

Init == open = TRUE /\ accepted = {} /\ outstanding = {} /\ received = {}

Accept(m) ==
  /\ open /\ m \notin accepted
  /\ Cardinality(outstanding) < WindowSize
  /\ accepted' = accepted \cup {m}
  /\ outstanding' = outstanding \cup {m}
  /\ UNCHANGED <<open, received>>

\* At least once: also after a hand-over, also after the confirmation.
Receive(m) ==
  /\ open /\ m \in accepted
  /\ received' = received \cup {m}
  /\ UNCHANGED <<open, accepted, outstanding>>

Confirm(m) ==
  /\ open /\ m \in outstanding /\ m \in received
  /\ outstanding' = outstanding \ {m}
  /\ UNCHANGED <<open, accepted, received>>

Close ==
  /\ open /\ open' = FALSE
  /\ outstanding' = {}
  /\ UNCHANGED <<accepted, received>>

Next == Close \/ \E m \in Msg : Accept(m) \/ Receive(m) \/ Confirm(m)

Spec == Init /\ [][Next]_vars

\* The promise: whatever was accepted and not received is still tracked.
NothingForgotten == open => accepted \subseteq received \cup outstanding
=============================================================================
