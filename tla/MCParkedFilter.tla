--------------------------- MODULE MCParkedFilter ---------------------------
(* One front clip and the two rear clips of the same two minutes.            *)
EXTENDS ParkedFilter

Front == 1
RearA == 2
RearB == 3

MCStart == <<2, 2, 3>>
MCEnd == <<4, 3, 4>>
MCCamera == <<"F", "R", "R">>
MCWords(c) == CASE c = Front -> {"pending", "skip"}
                [] c = RearA -> {"quiet_wait", "peer_pending"}
                [] c = RearB -> {"peer", "activity"}
MCQuiets == {{Front, RearA, RearB}}
=============================================================================
