---------------------------- MODULE MCInboundQos2 ----------------------------
(***************************************************************************)
(* TLC instances of InboundQos2.                                           *)
(***************************************************************************)
EXTENDS InboundQos2, TLC

CONSTANTS m1, m2
=============================================================================
