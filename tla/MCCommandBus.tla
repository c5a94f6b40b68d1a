---------------------------- MODULE MCCommandBus ----------------------------
(* Instances of CommandBus for TLC: what the requests ask for. *)
EXTENDS CommandBus

CONSTANTS r1, r2

Pairs == {[r \in Requests |-> IF r = r1 THEN a ELSE b] :
            <<a, b>> \in {<<"plugin", "missing">>, <<"quit", "refused">>}}
=============================================================================
