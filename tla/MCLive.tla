------------------------------- MODULE MCLive -------------------------------
(***************************************************************************)
(* Instances for liveness of parts that share no state, one of them chosen *)
(* in the initial state: a frontend whose node moves between tips of equal  *)
(* work at different heights and a stronger one (ChainView), and a          *)
(* broadcaster with two fanouts and one coin (FanoutBroadcast).             *)
(***************************************************************************)
EXTENDS ChainView, FanoutBroadcast

CONSTANTS a, level, high, o1, w1, f1, f2, c1

VARIABLE part
liveVars == <<part, viewVars, fanVars>>

TipWork == [t \in Tips |-> IF t = high THEN 2 ELSE 1]
TipHeight == [t \in Tips |-> IF t = a THEN 2 ELSE 1]

LiveInit ==
  /\ ViewInit /\ FanInit
  /\ \/ part = "view" /\ paying = {}
     \/ part = "fanouts" /\ nodeTip = [i \in Observers |-> StartTip]

LiveNext ==
  /\ UNCHANGED part
  /\ \/ part = "view" /\ ViewNext /\ UNCHANGED fanVars
     \/ part = "fanouts" /\ FanNext /\ UNCHANGED viewVars

(* Each part is scheduled as its own module says.                           *)
LiveSpec ==
  /\ LiveInit /\ [][LiveNext]_liveVars
  /\ \/ part = "view" /\ ViewFairness
     \/ part = "fanouts" /\ FanFairness
=============================================================================
