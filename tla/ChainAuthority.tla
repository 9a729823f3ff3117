--------------------------- MODULE ChainAuthority ---------------------------
(***************************************************************************)
(* What the cluster row promises about the chain: one accepted tip, shared *)
(* by every frontend through PostgreSQL, that never loses cumulative work, *)
(* and one payout revision, bumped by every change of the accepted tip and *)
(* by every settlement.  A frontend that later finds the revision it read  *)
(* unchanged therefore knows that the accepted tip is unchanged as well.   *)
(*                                                                         *)
(* ChainView (the observers) implements this specification; the candidate  *)
(* ledger uses these actions.                                              *)
(***************************************************************************)
EXTENDS Integers

CONSTANTS
    Tips,         \* the chain tips a node may report
    Work,         \* their cumulative chainwork
    StartTip      \* the accepted tip the cluster starts from

ASSUME ChainAssumption ==
    /\ Work \in [Tips -> Nat]
    /\ StartTip \in Tips

VARIABLES
    acceptedTip,  \* qbit_prism_cluster.best_tip_hash
    revision      \* qbit_prism_cluster.payout_revision

authorityVars == <<acceptedTip, revision>>

AuthorityTypeOK ==
    /\ acceptedTip \in Tips
    /\ revision \in Nat

AuthorityInit ==
    /\ acceptedTip = StartTip
    /\ revision = 0

(* A tip with at least the accepted work replaces another accepted tip. *)
AcceptTip(tip) ==
    /\ tip # acceptedTip
    /\ Work[tip] >= Work[acceptedTip]
    /\ acceptedTip' = tip
    /\ revision' = revision + 1

(* A settlement moves balances and keeps the tip.  One transaction may bump *)
(* more than once.                                                          *)
BumpRevision ==
    /\ revision' \in Nat /\ revision' > revision
    /\ UNCHANGED acceptedTip

AuthorityNext ==
    \/ \E tip \in Tips : AcceptTip(tip)
    \/ BumpRevision

AuthoritySpec == AuthorityInit /\ [][AuthorityNext]_authorityVars

=============================================================================
