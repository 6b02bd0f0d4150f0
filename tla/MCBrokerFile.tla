----------------------------- MODULE MCBrokerFile -----------------------------
(***************************************************************************)
(* The TLC instance of BrokerFile: texts of no, one and as many bytes as a *)
(* length field can say.                                                   *)
(***************************************************************************)
EXTENDS MCBroker, BrokerFile

TopicTexts == [t \in Topic |-> IF t = "x" THEN <<1>> ELSE <<2>>]
PayloadTexts == [m \in Msg |-> IF m \in Empty THEN <<>> ELSE <<77, 1, 2>>]
FilterTexts == [f \in Filter |-> <<1, 2>>]
CidTexts == [c \in Cid |-> IF c = alice THEN <<1>> ELSE <<1, 1>>]
=============================================================================
