------------------------------ MODULE MCArena ------------------------------
(* Arena for TLC. In an index of four slots two keys are at home in the    *)
(* last slot and one in the first, so that clusters wrap round its end.    *)
EXTENDS Arena

CONSTANTS k1, k2, k3

Spread == [k \in Keys |-> CASE k = k1 -> 3 [] k = k2 -> 7 [] k = k3 -> 4]
=============================================================================
