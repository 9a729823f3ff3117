----------------------------- MODULE MCChainView -----------------------------
(***************************************************************************)
(* Two frontends whose nodes move between sibling tips and a stronger one.   *)
(***************************************************************************)
EXTENDS ChainView, TLC

CONSTANTS a, b, high, o1, o2

TipWork == [t \in Tips |-> IF t = high THEN 2 ELSE 1]
TipHeight == [t \in Tips |-> IF t = high THEN 2 ELSE 1]

\* Nothing tells the frontends apart.
Frontends == Permutations(Observers)
=============================================================================
