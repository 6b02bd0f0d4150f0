------------------------------ MODULE MCSubIndex ------------------------------
(***************************************************************************)
(* TLC instance of SubIndex: filters with every kind of level in each      *)
(* position, one with a "+" inside a level, and topics of up to three      *)
(* levels, one of which looks like a wildcard.                             *)
(***************************************************************************)
EXTENDS SubIndex

WildLevels == {Plus, Hash, "a+"}

Filters == {<<"a">>, <<Plus>>, <<Hash>>, <<"a+">>,
            <<"a", "b">>, <<"a", Plus>>, <<Plus, "b">>, <<"a", Hash>>}
Topics == {<<"a">>, <<Plus>>, <<"a+">>, <<"a", "b">>, <<"a", "b", "b">>}
=============================================================================
