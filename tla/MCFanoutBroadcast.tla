------------------------- MODULE MCFanoutBroadcast -------------------------
EXTENDS FanoutBroadcast, TLC
CONSTANTS w1, w2, f1, f2, f3, c1, c2

Interchangeable == Permutations(Frontends) \cup Permutations(Coins)
=============================================================================
