----------------------------- MODULE MCEventLoop -----------------------------
(***************************************************************************)
(* TLC instances of EventLoop: alice, whose session with one subscription  *)
(* is in the state file, and bob.                                          *)
(***************************************************************************)
EXTENDS EventLoop, TLC

CONSTANTS alice, bob, m1, will

Topics == {"x"}
All == {Topics}
OnX == [m \in Msg |-> "x"]
NoRequests == {}
NoSys == <<>>
Session(offline) == Stored(<<[filter |-> Topics, qos |-> 1]>>, offline)
Both == [EmptyState EXCEPT !.sessions =
  [c \in Cid |-> Session(IF c = bob THEN <<Held(will, 1)>> ELSE <<>>)]]
WillOfBob == [c \in Cid |-> IF c = bob THEN will ELSE NoMsg]
AllPersist == [c \in Cid |-> {FALSE}]
Owners == [t \in Token |-> IF t = 1 THEN alice ELSE bob]

\* Nothing reads the state file after the start: it and the flag that schedules
\* it are left out of the view.
WithoutFile == <<[broker EXCEPT !.dirty = FALSE], order, peers, loopVars>>

\* One packet after CONNECT for alice, two for bob.
TwoAndThree == [t \in Token |-> t + 1]

=============================================================================
