--------------------------- MODULE OfferLifecycle ---------------------------
(***************************************************************************)
(* What the candidate outbox promises about a found block, whatever        *)
(* crashes, takeovers and lost answers its frontends meet: the node runs   *)
(* at most one offer of it; the decision to offer is durable before the    *)
(* call is made and is taken back only while that call can provably no     *)
(* longer run; a block that was given up is never offered.                 *)
(* CandidateOutbox implements this specification.                          *)
(***************************************************************************)
EXTENDS Naturals

CONSTANT Blocks

VARIABLES
    phase,   \* what is decided of the block
    armed,   \* a process or a call on the wire may still make the node run it
    offers   \* how often the node ran it

offerVars == <<phase, armed, offers>>

Phases == {"undecided", "committed", "withdrawn"}

OfferInit ==
    /\ phase = [b \in Blocks |-> "undecided"]
    /\ armed = [b \in Blocks |-> FALSE]
    /\ offers = [b \in Blocks |-> 0]

(* The reservation commits. *)
Commit(b) ==
    /\ phase[b] = "undecided"
    /\ phase' = [phase EXCEPT ![b] = "committed"]
    /\ armed' = [armed EXCEPT ![b] = TRUE]
    /\ UNCHANGED offers

(* The chain holds the block already: it is never offered. *)
Accept(b) ==
    /\ phase[b] = "undecided"
    /\ phase' = [phase EXCEPT ![b] = "committed"]
    /\ UNCHANGED <<armed, offers>>

RunOffer(b) ==
    /\ phase[b] = "committed"
    /\ armed[b] /\ offers[b] = 0
    /\ offers' = [offers EXCEPT ![b] = 1]
    /\ armed' = [armed EXCEPT ![b] = FALSE]
    /\ UNCHANGED phase

(* The one chance is lost, and never given again. *)
LoseOffer(b) ==
    /\ armed[b]
    /\ armed' = [armed EXCEPT ![b] = FALSE]
    /\ UNCHANGED <<phase, offers>>

(* The call provably did not run and never will. *)
TakeBack(b) ==
    /\ phase[b] = "committed"
    /\ armed[b] /\ offers[b] = 0
    /\ phase' = [phase EXCEPT ![b] = "undecided"]
    /\ armed' = [armed EXCEPT ![b] = FALSE]
    /\ UNCHANGED offers

(* A policy transition withdraws every undecided block at once. *)
Withdraw(bs) ==
    /\ bs # {}
    /\ \A b \in bs : phase[b] = "undecided"
    /\ phase' = [b \in Blocks |-> IF b \in bs THEN "withdrawn" ELSE phase[b]]
    /\ UNCHANGED <<armed, offers>>

OfferNext ==
    \/ \E b \in Blocks :
         Commit(b) \/ Accept(b) \/ RunOffer(b) \/ LoseOffer(b) \/ TakeBack(b)
    \/ \E bs \in SUBSET Blocks : Withdraw(bs)

OfferSpec == OfferInit /\ [][OfferNext]_offerVars

=============================================================================
