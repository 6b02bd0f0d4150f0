------------------------------ MODULE MCOutbound ------------------------------
(***************************************************************************)
(* TLC instances of Outbound.  Messages are interchangeable: symmetry is   *)
(* used in the runs that check no liveness.                                *)
(***************************************************************************)
EXTENDS Outbound, TLC

MsgSymmetry == Permutations(Msg)
=============================================================================
