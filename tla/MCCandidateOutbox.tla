-------------------------- MODULE MCCandidateOutbox --------------------------
(***************************************************************************)
(* Instances of CandidateOutbox for TLC.  Block b1's parent is the tip p;  *)
(* a, a2 and a3 hold b1, a2 and a3 with a thousand blocks on top; x and x3 *)
(* are a competing chain, x too short to prove b1 an orphan.               *)
(***************************************************************************)
EXTENDS CandidateOutbox, TLC

CONSTANTS b1, p, a, a2, a3, x, x3

MCWork == p :> 1 @@ a :> 2 @@ x :> 2 @@ a2 :> 3 @@ x3 :> 4 @@ a3 :> 4

(* What each tip says of b1. *)
MCChain == p :> "open" @@ a :> "active" @@ a2 :> "deep" @@ a3 :> "deep"
        @@ x :> "competing" @@ x3 :> "buried"

(* The values the instance's tips and blocks give the chain's parameters. *)
WorkOf == [tip \in Tips |-> MCWork[tip]]
ViewOf == [tip \in Tips |-> [b \in Blocks |-> MCChain[tip]]]
RankOf == [b \in Blocks |-> 1]

Interchangeable == Permutations(Tokens) \union Permutations(Frontends)

=============================================================================
