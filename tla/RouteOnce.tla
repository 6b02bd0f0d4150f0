------------------------------- MODULE RouteOnce -------------------------------
(***************************************************************************)
(* What the broker promises for a QoS2 message published to it, abstractly:*)
(* within one connection the message is routed once, the publisher is told *)
(* that the exchange is complete only after that, and nothing is routed    *)
(* any more once it has been told.  A connection that is lost before the   *)
(* exchange completes may cost a second routing in the next one, because   *)
(* the record of what was received is lost with it.                        *)
(***************************************************************************)
EXTENDS Naturals

CONSTANT Msg

VARIABLES
  count,     \* count[m]: how often m was routed
  current,   \* messages routed since the present connection began
  complete   \* messages whose publisher knows the exchange to be complete

vars == <<count, current, complete>>

Init ==
  /\ count = [m \in Msg |-> 0]
  /\ current = {} /\ complete = {}

Route(m) ==
  /\ m \notin current /\ m \notin complete
  /\ count' = [count EXCEPT ![m] = @ + 1]
  /\ current' = current \cup {m}
  /\ UNCHANGED complete

Complete(m) ==
  /\ count[m] > 0
  /\ complete' = complete \cup {m}
  /\ UNCHANGED <<count, current>>

LoseConnection == current' = {} /\ UNCHANGED <<count, complete>>

Next == LoseConnection \/ \E m \in Msg : Route(m) \/ Complete(m)

Spec == Init /\ [][Next]_vars
=============================================================================
