----------------------------- MODULE MCVariables -----------------------------
(* Words of three bits and two symbols, of which the second is entered wrong;   *)
(* the first part, the last and one between.                                    *)
EXTENDS Variables

MCExpected == [entered |-> "right", entered2 |-> "right2"]
MCCounters == [x |-> 3]
MCMoves == {<<"x", 0>>, <<"x", 5>>, <<"mark", 0>>, <<"entered", 1>>, <<"right", 1>>,
            <<"entered2", 0>>, <<"right2", 1>>}
MCHeld == {{}, {"A", "left"}, {"C_up"}, {"C_up", "left", "right"}, {"up", "down"}}
=============================================================================
