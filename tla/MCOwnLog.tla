------------------------------- MODULE MCOwnLog -------------------------------
(***************************************************************************)
(* Instances of the two-writer pair, chosen in the initial state: both     *)
(* append, sweep and fail; both land blocks, one of them adopting, and     *)
(* prepared jobs; one is restored from its backup or rebuilt from a copy   *)
(* of the other's database, with shares or with a block at stake.          *)
(***************************************************************************)
EXTENDS OwnLog, TLC

CONSTANTS h1, h2

Pair(first, second) == (0 :> first) @@ (1 :> second)

AllPlans ==
  { Pair({h1, h2, "abort", "sweep", "fail"}, {h1, "sweep", "fail"}),
    Pair({h1, "block"}, {"block"}),
    Pair({"block", "prepared"}, {"block", "fail"}),
    Pair({h1, h2, "fail", "backup"}, {h1}),
    Pair({h1, "crash"}, {h1, "backup"}), Pair({h1, h2}, {h1, "backup"}),
    Pair({"block", "backup"}, {h1}) }
=============================================================================
