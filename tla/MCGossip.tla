------------------------------ MODULE MCGossip ------------------------------
EXTENDS Gossip

List3 == <<"v1", "v2", "v3">>
SignerOf == [m \in Messages |-> IF m = "m1" THEN "v1" ELSE "v2"]
=============================================================================
