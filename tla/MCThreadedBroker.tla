--------------------------- MODULE MCThreadedBroker ---------------------------
(***************************************************************************)
(* TLC instances of ThreadedBroker: two connections, both of which may     *)
(* subscribe to everything and publish.                                    *)
(***************************************************************************)
EXTENDS ThreadedBroker, TLC

CONSTANTS a, b, m1, m2

All == {Msg}
ConnSymmetry == Permutations(Conn)
MsgSymmetry == Permutations(Msg)
BothSymmetries == ConnSymmetry \cup MsgSymmetry
=============================================================================
