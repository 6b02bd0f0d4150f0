------------------------------- MODULE MCBroker -------------------------------
(***************************************************************************)
(* TLC instances of Broker: two clients, up to two messages on one or two  *)
(* topics.                                                                 *)
(***************************************************************************)
EXTENDS Broker, TLC

CONSTANTS alice, bob, m1, m2, m3

\* Topics and filters: one filter that matches both topics, or one for each.
Topics == {"x", "y"}
WildOnly == {{"x", "y"}}
XorY == {{"x"}, {"y"}}
Ask(filters, qoss) == {<<[filter |-> f, qos |-> q]>> : f \in filters, q \in qoss}
WildQos1 == Ask(WildOnly, {1})
OneOrBoth == Ask(XorY, {0, 1}) \cup
  {<<[filter |-> {"x"}, qos |-> 1], [filter |-> {"y"}, qos |-> 0]>>}
NoSys == <<>>
SysM2 == <<m2>>
AllX == [m \in Msg |-> "x"]
XAndY == [m \in Msg |-> IF m = m1 THEN "x" ELSE "y"]

\* Alice chooses her session, or it persists; bob's is clean.
AliceChooses == [c \in Cid |-> IF c = alice THEN BOOLEAN ELSE {TRUE}]
AlicePersists == [c \in Cid |-> {c # alice}]

NoWills == [c \in Cid |-> NoMsg]
WillOfM1 == [c \in Cid |-> IF c = alice THEN m1 ELSE NoMsg]

\* Without crashes nothing reads the state file: the runs whose properties do
\* not speak of it leave it, and the flag that schedules it, out of the view.
NoFile == <<[broker EXCEPT !.dirty = FALSE], order>>
=============================================================================
