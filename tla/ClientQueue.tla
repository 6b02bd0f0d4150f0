----------------------------- MODULE ClientQueue -----------------------------
(***************************************************************************)
(* The outbound half of `struct Client` (mio_broker/src/main.rs): the      *)
(* bounded write queue with its two admission rules (queue_qos0,           *)
(* queue_qos1) and the packet-id allocator over the in-flight window       *)
(* (alloc_pid).  The operators are pure: they map a queue or a window to   *)
(* the value the method leaves behind, and the modules of the connection   *)
(* and of the broker apply them to their variables.                        *)
(*                                                                         *)
(* A window is a total function from packet ids to in-flight records in    *)
(* which Vacant marks an id that is not a key of the HashMap.              *)
(***************************************************************************)
EXTENDS Integers, Sequences, FiniteSets

CONSTANTS
  WRITE_QUEUE_CAP,   \* packets one write queue may hold
  IN_FLIGHT_CAP,     \* unacknowledged QoS1/2 messages of one connection
  MAX_PID            \* largest packet id (u16::MAX in the code)

\* The code has 8192, 256 and 65535: what matters is that a full window
\* still leaves an id free.
ASSUME CapAssumption ==
  /\ WRITE_QUEUE_CAP \in Nat \ {0}
  /\ IN_FLIGHT_CAP \in Nat \ {0}
  /\ MAX_PID \in Nat
  /\ IN_FLIGHT_CAP <= MAX_PID

Pid == 1 .. MAX_PID

----------------------------------------------------------------------------
(* The write queue: a sequence of [rel, pkt], rel being the is_qos1 flag.  *)

Queued(rel, pkt) == [rel |-> rel, pkt |-> pkt]

Accepts0(q) == Len(q) < WRITE_QUEUE_CAP

\* Slip: acknowledgements are exempt from the limit.
Queue0Always(q, pkt) == Append(q, Queued(FALSE, pkt))

\* queue_qos0: append, or leave the queue alone when it is full.
Queue0(q, pkt) == IF Accepts0(q) THEN Append(q, Queued(FALSE, pkt)) ELSE q

FirstQos0(q) ==
  CHOOSE i \in DOMAIN q : ~q[i].rel /\ \A j \in 1 .. i-1 : q[j].rel

\* A reliable packet finds room if the queue is not full or has a QoS0 entry.
Accepts1(q) == Accepts0(q) \/ \E i \in DOMAIN q : ~q[i].rel

DropAt(q, i) == SubSeq(q, 1, i-1) \o SubSeq(q, i+1, Len(q))

\* Slip of the eviction: it takes the oldest entry, whatever its flag.
EvictOldest(q) == IF Accepts0(q) THEN q ELSE Tail(q)

\* The while loop of queue_qos1.  A queue never exceeds WRITE_QUEUE_CAP
\* (MemoryBounded of Outbound), so one eviction makes room.
Evict(q) == IF Accepts0(q) THEN q ELSE DropAt(q, FirstQos0(q))

\* queue_qos1, when Accepts1(q).
Queue1(q, pkt) == Append(Evict(q), Queued(TRUE, pkt))

----------------------------------------------------------------------------
(* The in-flight window and packet ids.                                    *)

InUse(win, vacant) == {p \in Pid : win[p] # vacant}

\* Slip: the limit is off by one.
WindowOverfull(win, vacant) == Cardinality(InUse(win, vacant)) > IN_FLIGHT_CAP

WindowFull(win, vacant) == Cardinality(InUse(win, vacant)) >= IN_FLIGHT_CAP

\* How many steps the allocator takes from next_pid to p; 0 counts as 1.
Distance(next, p) ==
  LET from == IF next = 0 THEN 1 ELSE next
  IN  IF p >= from THEN p - from ELSE p + MAX_PID - from

\* p is what the for loop of alloc_pid returns: the first id at or after
\* next_pid, cyclically and skipping 0, that is not in flight.
IsNextPid(win, vacant, next, p) ==
  /\ win[p] = vacant
  /\ \A r \in Pid : Distance(next, r) < Distance(next, p) => win[r] # vacant

\* Slips: the id does not wrap, or does not advance.
AfterPidUnwrapped(p) == p + 1
AfterPidStuck(p) == p

\* next_pid.wrapping_add(1): 0 after the largest id.
AfterPid(p) == (p + 1) % (MAX_PID + 1)
=============================================================================
