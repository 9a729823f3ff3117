--------------------------- MODULE CandidateLedger ---------------------------
(***************************************************************************)
(* The durable side of a found block: its outbox row (ledger/candidates.rs, *)
(* ledger/divergence.rs), its pool block (ledger/blocks.rs) and the cluster *)
(* row, with one operator per ledger transaction.  PostgreSQL's settlement  *)
(* lock and row locks make each transaction one atomic step; its fences     *)
(* (claim token, state, payout revision, submission hold, write guard) are  *)
(* the guards.  A transaction whose guard fails rolls back and changes      *)
(* nothing.  The frontends that call them are in CandidateOutbox.           *)
(***************************************************************************)
EXTENDS ChainAuthority, FiniteSets

CONSTANTS
    Blocks,         \* found blocks
    Tokens,         \* claim tokens (UUIDs)
    NoToken,        \* SQL NULL in claim_token
    View,           \* what each tip says of each block, a Relation below
    MaxRevision,    \* bound on revisions moved by actors outside this module
    Leased,         \* blocks of leased work: offered before any staleness check
    Captured,       \* blocks whose overpay bound is within the ceiling
    CaptureOn,      \* capture_overpay_ceiling_bps # 0
    Rank,           \* order of the blocks by height, then hash
    Rebuildable,    \* blocks whose audit can be rebuilt and verified
    Unreadable      \* rows whose stored candidate some release fails to decode

(* The chain as one tip sees a block: its parent is the tip, it is active,  *)
(* it is active and at least 1000 blocks deep, it is not active (another    *)
(* block competes at its height), or the competitor has the confirmations   *)
(* that prove an orphan.                                                    *)
Relation == {"open", "active", "deep", "competing", "buried"}

ASSUME LedgerAssumption ==
    /\ NoToken \notin Tokens
    /\ View \in [Tips -> [Blocks -> Relation]]
    /\ MaxRevision \in Nat
    /\ Rank \in [Blocks -> Nat]
    /\ \A b, c \in Blocks : Rank[b] = Rank[c] => b = c
    /\ CaptureOn \in BOOLEAN
    /\ Leased \subseteq Blocks /\ Captured \subseteq Blocks
    /\ Rebuildable \subseteq Blocks /\ Unreadable \subseteq Blocks

VARIABLES
    state,      \* qbit_block_candidate_outbox.state, "absent" before enqueue
    token,      \* claim_token
    parked,     \* next_attempt_at = infinity
    outcome,    \* offer_outcome
    issued,     \* the payout_revision of the block's work, NoWork before any
    hold,       \* the cluster-wide block submission hold
    fatal,      \* qbit_prism_cluster.fatal_error is set
    poolState,  \* qbit_pool_blocks.chain_state, "none" before the landing
    mature,     \* maturity_state = mature
    fanout,     \* settlement_status of the block's CTV fanout artifacts
    credited    \* the block's deferred share is in the share ledger

rowVars  == <<state, token, parked, outcome, issued>>
poolVars == <<poolState, mature, fanout, credited>>
ledgerVars == <<rowVars, poolVars, hold, fatal, authorityVars>>

NoWork == -1

OfferedStates  == {"offer_reserved", "offered", "reconciliation"}
Unfinished     == {"pending"} \union OfferedStates
TerminalStates == {"submitted", "abandoned", "orphaned"}
RowStates      == {"absent"} \union Unfinished \union TerminalStates
Outcomes       == {"accepted", "rejected", "unknown"}
PoolStates     == {"none", "prepared", "confirmed", "inactive"}
FanoutStates   == {"none", "awaiting_maturity", "broadcastable", "reorged"}

LedgerTypeOK ==
    /\ AuthorityTypeOK
    /\ state \in [Blocks -> RowStates]
    /\ token \in [Blocks -> Tokens \union {NoToken}]
    /\ parked \in [Blocks -> BOOLEAN]
    /\ outcome \in [Blocks -> Outcomes \union {"none"}]
    /\ issued \in [Blocks -> Nat \union {NoWork}]
    /\ hold \in BOOLEAN /\ fatal \in BOOLEAN
    /\ poolState \in [Blocks -> PoolStates]
    /\ mature \in [Blocks -> BOOLEAN]
    /\ fanout \in [Blocks -> FanoutStates]
    /\ credited \in [Blocks -> BOOLEAN]

LedgerInit ==
    /\ AuthorityInit
    /\ state = [b \in Blocks |-> "absent"]
    /\ token = [b \in Blocks |-> NoToken]
    /\ parked = [b \in Blocks |-> FALSE]
    /\ outcome = [b \in Blocks |-> "none"]
    /\ issued = [b \in Blocks |-> NoWork]
    /\ hold = FALSE /\ fatal = FALSE
    /\ poolState = [b \in Blocks |-> "none"]
    /\ mature = [b \in Blocks |-> FALSE]
    /\ fanout = [b \in Blocks |-> "none"]
    /\ credited = [b \in Blocks |-> FALSE]

Active(tip, b) == View[tip][b] \in {"active", "deep"}

(* The write guard of every transaction (connect.rs `writable`). *)
Writable == ~fatal

(* The fences of a write under a claim: this token holds the unfinished row. *)
Holds(b, t) == t # NoToken /\ token[b] = t /\ state[b] \in Unfinished
AtRevision(r) == revision = r

(* bump_revision, as often as one transaction calls it. *)
BumpBy(n) ==
    /\ revision' = revision + n
    /\ UNCHANGED acceptedTip

(* Mutant of Coalesced: a lost call leaves no outcome. *)
CoalescedToNull(b) == outcome[b]

Coalesced(b) == IF outcome[b] = "none" THEN "unknown" ELSE outcome[b]

-----------------------------------------------------------------------------
(* The outbox row's transactions. *)

(* Work on the accepted tip is issued at the current revision, and issued *)
(* again when the revision moves.                                         *)
IssueTx(b) ==
    /\ state[b] = "absent"
    /\ View[acceptedTip][b] = "open"
    /\ issued[b] # revision
    /\ issued' = [issued EXCEPT ![b] = revision]
    /\ UNCHANGED <<state, token, parked, outcome, poolVars, hold, fatal, authorityVars>>

(* A found block's row.  Its work may have been superseded: the share append *)
(* then captures the block instead of crediting the share.                   *)
EnqueueTx(b) ==
    /\ Writable
    /\ state[b] = "absent"
    /\ issued[b] # NoWork
    /\ state' = [state EXCEPT ![b] = "pending"]
    /\ UNCHANGED <<token, parked, outcome, issued, poolVars, hold, fatal, authorityVars>>

(* Mutant of ClaimTx: a dead claim is never replaced. *)
ClaimTxUnclaimedOnly(b, t) ==
    /\ Writable /\ ~hold
    /\ state[b] \in Unfinished /\ ~parked[b] /\ token[b] = NoToken
    /\ token' = [token EXCEPT ![b] = t]
    /\ UNCHANGED <<state, parked, outcome, issued, poolVars, hold, fatal, authorityVars>>

(* A lane claims an unclaimed due row; a takeover replaces a holder's token.  *)
(* Both refuse a parked row and write nothing while submission is held.       *)
ClaimTx(b, t) ==
    /\ Writable /\ ~hold
    /\ state[b] \in Unfinished /\ ~parked[b]
    /\ token' = [token EXCEPT ![b] = t]
    /\ UNCHANGED <<state, parked, outcome, issued, poolVars, hold, fatal, authorityVars>>

(* The operator's claim by hash ignores the schedule, parking included, and *)
(* the hold: it never offers.                                               *)
RecoveryClaimTx(b, t) ==
    /\ Writable
    /\ state[b] \in Unfinished
    /\ token' = [token EXCEPT ![b] = t]
    /\ UNCHANGED <<state, parked, outcome, issued, poolVars, hold, fatal, authorityVars>>

(* A row that cannot be decoded leaves the lanes, in the state it was claimed. *)
ParkTx(b, t, s) ==
    /\ Writable
    /\ Holds(b, t) /\ state[b] = s
    /\ token' = [token EXCEPT ![b] = NoToken]
    /\ parked' = [parked EXCEPT ![b] = TRUE]
    /\ UNCHANGED <<state, outcome, issued, poolVars, hold, fatal, authorityVars>>

(* Mutant of ReleaseTx: a failed attempt takes its reservation back. *)
ReleaseTxRequeues(b, t) ==
    /\ Writable
    /\ Holds(b, t)
    /\ state' = [state EXCEPT ![b] = IF @ = "offer_reserved" THEN "pending" ELSE @]
    /\ token' = [token EXCEPT ![b] = NoToken]
    /\ parked' = [parked EXCEPT ![b] = FALSE]
    /\ UNCHANGED <<outcome, issued, poolVars, hold, fatal, authorityVars>>

(* A failed attempt's claim is given back and the row rescheduled as it is. *)
ReleaseTx(b, t) ==
    /\ Writable
    /\ Holds(b, t)
    /\ token' = [token EXCEPT ![b] = NoToken]
    /\ parked' = [parked EXCEPT ![b] = FALSE]
    /\ UNCHANGED <<state, outcome, issued, poolVars, hold, fatal, authorityVars>>

(* Mutant of ReleaseRecoveryTx: the hand-back reschedules the row. *)
ReleaseRecoveryTxReschedules(b, t) ==
    /\ Writable
    /\ Holds(b, t)
    /\ token' = [token EXCEPT ![b] = NoToken]
    /\ parked' = [parked EXCEPT ![b] = FALSE]
    /\ UNCHANGED <<state, outcome, issued, poolVars, hold, fatal, authorityVars>>

(* The recovery's and the shutdown's release keeps the schedule as well. *)
ReleaseRecoveryTx(b, t) ==
    /\ Writable
    /\ Holds(b, t)
    /\ token' = [token EXCEPT ![b] = NoToken]
    /\ UNCHANGED <<state, parked, outcome, issued, poolVars, hold, fatal, authorityVars>>

(* The durable reservation before the one submitblock call. *)
ReserveTx(b, t) ==
    /\ Writable /\ ~hold
    /\ Holds(b, t) /\ state[b] = "pending"
    /\ state' = [state EXCEPT ![b] = "offer_reserved"]
    /\ UNCHANGED <<token, parked, outcome, issued, poolVars, hold, fatal, authorityVars>>

RecordOfferTx(b, t, o) ==
    /\ Writable
    /\ Holds(b, t) /\ state[b] = "offer_reserved"
    /\ state' = [state EXCEPT ![b] = "offered"]
    /\ outcome' = [outcome EXCEPT ![b] = o]
    /\ UNCHANGED <<token, parked, issued, poolVars, hold, fatal, authorityVars>>

(* A reservation whose call provably never ran returns to pending. *)
ReleaseUnsentTx(b, t) ==
    /\ Writable
    /\ Holds(b, t) /\ state[b] = "offer_reserved" /\ outcome[b] = "none"
    /\ state' = [state EXCEPT ![b] = "pending"]
    /\ token' = [token EXCEPT ![b] = NoToken]
    /\ parked' = [parked EXCEPT ![b] = FALSE]
    /\ UNCHANGED <<outcome, issued, poolVars, hold, fatal, authorityVars>>

(* A pending row whose block the node already holds is never offered. *)
AdoptTx(b, t) ==
    /\ Writable
    /\ Holds(b, t) /\ state[b] = "pending"
    /\ state' = [state EXCEPT ![b] = "reconciliation"]
    /\ outcome' = [outcome EXCEPT ![b] = "unknown"]
    /\ UNCHANGED <<token, parked, issued, poolVars, hold, fatal, authorityVars>>

ReconcileTx(b, t) ==
    /\ Writable
    /\ Holds(b, t) /\ state[b] \in OfferedStates
    /\ state' = [state EXCEPT ![b] = "reconciliation"]
    /\ outcome' = [outcome EXCEPT ![b] = Coalesced(b)]
    /\ token' = [token EXCEPT ![b] = NoToken]
    /\ parked' = [parked EXCEPT ![b] = FALSE]
    /\ UNCHANGED <<issued, poolVars, hold, fatal, authorityVars>>

(* The terminal write of a settlement: the claim and the payload go. *)
Close(b, s, o) ==
    /\ state' = [state EXCEPT ![b] = s]
    /\ outcome' = [outcome EXCEPT ![b] = o]
    /\ token' = [token EXCEPT ![b] = NoToken]
    /\ UNCHANGED <<parked, issued>>

-----------------------------------------------------------------------------
(* The pool block's transactions. *)

(* The audit, payout and fanout rows of an offered block, written once; an  *)
(* audit that landed before is compared and kept.  A pending row is adopted *)
(* before any caller lands it.                                              *)
LandTx(b, t, r) ==
    /\ Writable
    /\ Holds(b, t) /\ state[b] \in OfferedStates
    /\ AtRevision(r)
    /\ IF poolState[b] # "none"
       THEN UNCHANGED <<poolState, fanout>>
       ELSE /\ poolState' = [poolState EXCEPT ![b] = "prepared"]
            /\ fanout' = [fanout EXCEPT ![b] = "awaiting_maturity"]
    /\ UNCHANGED <<rowVars, mature, credited, hold, fatal, authorityVars>>

(* Mutants of FinishTx: the revision is not fenced; the deferred share is not *)
(* credited.                                                                  *)
FinishTxUnfenced(b, t, r) ==
    /\ Writable
    /\ Holds(b, t)
    /\ poolState[b] # "none" /\ (mature[b] => poolState[b] = "confirmed")
    /\ poolState' = [poolState EXCEPT ![b] = "confirmed"]
    /\ credited' = [credited EXCEPT ![b] = TRUE]
    /\ IF poolState[b] = "confirmed"
       THEN UNCHANGED authorityVars
       ELSE BumpBy(1)
    /\ Close(b, "submitted",
             IF state[b] \in OfferedStates THEN Coalesced(b) ELSE outcome[b])
    /\ UNCHANGED <<mature, fanout, hold, fatal>>

FinishTxUncredited(b, t, r) ==
    /\ Writable
    /\ AtRevision(r)
    /\ Holds(b, t)
    /\ poolState[b] # "none" /\ (mature[b] => poolState[b] = "confirmed")
    /\ poolState' = [poolState EXCEPT ![b] = "confirmed"]
    /\ IF poolState[b] = "confirmed"
       THEN UNCHANGED authorityVars
       ELSE BumpBy(1)
    /\ Close(b, "submitted",
             IF state[b] \in OfferedStates THEN Coalesced(b) ELSE outcome[b])
    /\ UNCHANGED <<mature, fanout, credited, hold, fatal>>

(* finish_candidate with submitted = true.  It confirms a prepared or an *)
(* inactive block, and leaves the block's fanouts as they are.           *)
FinishTx(b, t, r) ==
    /\ Writable
    /\ AtRevision(r)
    /\ Holds(b, t)
    /\ poolState[b] # "none" /\ (mature[b] => poolState[b] = "confirmed")
    /\ poolState' = [poolState EXCEPT ![b] = "confirmed"]
    /\ credited' = [credited EXCEPT ![b] = TRUE]
    /\ IF poolState[b] = "confirmed"
       THEN UNCHANGED authorityVars
       ELSE BumpBy(1)
    /\ Close(b, "submitted",
             IF state[b] \in OfferedStates THEN Coalesced(b) ELSE outcome[b])
    /\ UNCHANGED <<mature, fanout, hold, fatal>>

(* deactivate_pool_block: an immature block leaves the active chain and its *)
(* fanouts are released.                                                    *)
Deactivate(b) ==
    IF poolState[b] \in {"prepared", "confirmed"} /\ ~mature[b]
    THEN /\ poolState' = [poolState EXCEPT ![b] = "inactive"]
         /\ fanout' = [fanout EXCEPT ![b] = "reorged"]
         /\ BumpBy(1)
    ELSE UNCHANGED <<poolState, fanout, authorityVars>>

(* finish_candidate with submitted = false: only a pending row is abandoned. *)
AbandonTx(b, t, r) ==
    /\ Writable
    /\ AtRevision(r)
    /\ Holds(b, t) /\ state[b] = "pending"
    /\ ~mature[b]
    /\ Deactivate(b)
    /\ Close(b, "abandoned", outcome[b])
    /\ UNCHANGED <<mature, credited, hold, fatal>>

(* Mutant of OrphanTx: the revision is not fenced. *)
OrphanTxUnfenced(b, t, r) ==
    /\ Writable
    /\ Holds(b, t) /\ state[b] \in OfferedStates
    /\ poolState[b] # "confirmed" /\ ~mature[b]
    /\ Deactivate(b)
    /\ Close(b, "orphaned", Coalesced(b))
    /\ UNCHANGED <<mature, credited, hold, fatal>>

(* The proven orphan, refused once the reconciler has confirmed the block. *)
OrphanTx(b, t, r) ==
    /\ Writable
    /\ AtRevision(r)
    /\ Holds(b, t) /\ state[b] \in OfferedStates
    /\ poolState[b] # "confirmed" /\ ~mature[b]
    /\ Deactivate(b)
    /\ Close(b, "orphaned", Coalesced(b))
    /\ UNCHANGED <<mature, credited, hold, fatal>>

(* Mutant of OperatorAbandonTx: an offered row may be given up as well. *)
OperatorAbandonTxOffered(b) ==
    /\ Writable
    /\ state[b] \in Unfinished /\ poolState[b] = "none"
    /\ Close(b, "abandoned", outcome[b])
    /\ UNCHANGED <<poolVars, hold, fatal, authorityVars>>

(* The operator gives up a pending row whose claim is gone or has lapsed. *)
OperatorAbandonTx(b) ==
    /\ Writable
    /\ state[b] = "pending" /\ poolState[b] = "none"
    /\ Close(b, "abandoned", outcome[b])
    /\ UNCHANGED <<poolVars, hold, fatal, authorityVars>>

(* The offline fee-policy transition abandons every pending row and fences *)
(* the old tokens of the others, which keep their state.                   *)
PolicyTransitionTx ==
    /\ Writable
    /\ revision < MaxRevision
    /\ \A b \in Blocks : state[b] = "pending" => poolState[b] = "none"
    /\ state' = [b \in Blocks |-> IF state[b] = "pending" THEN "abandoned" ELSE state[b]]
    /\ token' = [b \in Blocks |-> IF state[b] \in Unfinished THEN NoToken ELSE token[b]]
    /\ BumpBy(1)
    /\ UNCHANGED <<parked, outcome, issued, poolVars, hold, fatal>>

(* Mutants of the walk: mature blocks are dropped like any other; a dropped *)
(* block moves no revision.                                                 *)
LostMatureIgnored(tip, seen) == {}

(* reconcile_blocks: one tip's view of the blocks `seen`.  A mature block that *)
(* left the chain stops the walk, which is in height order; without one,       *)
(* maturity follows.                                                           *)
LostMature(tip, seen) == {b \in seen : mature[b] /\ ~Active(tip, b)}
Walked(tip, seen) == {b \in seen : \A f \in LostMature(tip, seen) : Rank[b] < Rank[f]}
Confirms(tip, seen) ==
    {b \in Walked(tip, seen) : Active(tip, b) /\ poolState[b] \in {"prepared", "inactive"}}
Drops(tip, seen) ==
    {b \in Walked(tip, seen) : ~Active(tip, b) /\ poolState[b] = "confirmed"}
Ripens(tip, seen) ==
    {b \in Blocks : /\ LostMature(tip, seen) = {}
                    /\ ~mature[b] /\ View[tip][b] = "deep"
                    /\ b \in Confirms(tip, seen) \/ poolState[b] = "confirmed"}

BumpsForConfirmsOnly(tip, seen) ==
    IF LostMature(tip, seen) # {} THEN 0
    ELSE (IF Confirms(tip, seen) = {} THEN 0 ELSE 1) + (IF Ripens(tip, seen) = {} THEN 0 ELSE 1)

Bumps(tip, seen) ==
    IF LostMature(tip, seen) # {} THEN 0
    ELSE (IF Confirms(tip, seen) \union Drops(tip, seen) = {} THEN 0 ELSE 1)
           + (IF Ripens(tip, seen) = {} THEN 0 ELSE 1)

(* A block that comes back brings its fanouts back; a ripe one's may go out. *)
FanoutAfter(b, tip, seen) ==
    LET back == IF b \in Confirms(tip, seen) /\ fanout[b] = "reorged"
                THEN "awaiting_maturity" ELSE fanout[b]
    IN  IF b \in Drops(tip, seen) THEN "reorged"
        ELSE IF b \in Ripens(tip, seen) /\ back = "awaiting_maturity" THEN "broadcastable"
        ELSE back

ReconcileBlocks(tip, seen) ==
    /\ poolState' = [b \in Blocks |-> IF b \in Confirms(tip, seen) THEN "confirmed"
                                      ELSE IF b \in Drops(tip, seen) THEN "inactive"
                                      ELSE poolState[b]]
    /\ credited' = [b \in Blocks |-> credited[b] \/ b \in Confirms(tip, seen)]
    /\ mature' = [b \in Blocks |-> mature[b] \/ b \in Ripens(tip, seen)]
    /\ fanout' = [b \in Blocks |-> FanoutAfter(b, tip, seen)]
    /\ UNCHANGED <<rowVars, hold>>

(* The observer's transaction, at the revision of its observation.  A lost   *)
(* mature block makes the cluster fatal: what the walk did before it is kept *)
(* and no bump is written.                                                   *)
ReconcileBlocksTx(tip, r, seen) ==
    /\ Writable
    /\ AtRevision(r)
    /\ ReconcileBlocks(tip, seen)
    /\ fatal' = (LostMature(tip, seen) # {})
    /\ BumpBy(Bumps(tip, seen))

(* fatal-state clear: the same walk over every block, on a node that holds   *)
(* all mature blocks and is not behind, and one bump of its own.  It is      *)
(* refused while a mature block is still lost.  The accepted tip stays.      *)
ClearFatalTx(tip) ==
    LET seen == {b \in Blocks : poolState[b] # "none"}
    IN  /\ fatal /\ fatal' = FALSE
        /\ Work[tip] >= Work[acceptedTip]
        /\ LostMature(tip, seen) = {}
        /\ ReconcileBlocks(tip, seen)
        /\ BumpBy(Bumps(tip, seen) + 1)

(* The rows a reconciliation asks the node about: every immature block and *)
(* the highest mature one.                                                 *)
PoolBlocksForReconcile ==
    LET ripe == {b \in Blocks : poolState[b] = "confirmed" /\ mature[b]}
    IN  {b \in Blocks : poolState[b] # "none" /\ ~mature[b]}
          \union {b \in ripe : \A c \in ripe : Rank[c] <= Rank[b]}

-----------------------------------------------------------------------------
(* The cluster row's transactions. *)

(* observe_chain_view: the strict observation takes the accepted tip, or one *)
(* with more work.                                                           *)
ObserveTx(tip) ==
    /\ Writable
    /\ \/ tip = acceptedTip /\ UNCHANGED authorityVars
       \/ Work[tip] > Work[acceptedTip] /\ AcceptTip(tip)
    /\ UNCHANGED <<rowVars, poolVars, hold, fatal>>

(* observe_chain_transition: a local node's own transition replaces an equal- *)
(* work tip (module ChainView has its witness).                               *)
ObserveTransitionTx(tip) ==
    /\ Writable
    /\ Work[tip] = Work[acceptedTip]
    /\ revision < MaxRevision
    /\ AcceptTip(tip)
    /\ UNCHANGED <<rowVars, poolVars, hold, fatal>>

SetHoldTx(h) ==
    /\ hold # h
    /\ hold' = h
    /\ UNCHANGED <<rowVars, poolVars, fatal, authorityVars>>

-----------------------------------------------------------------------------
(* What the rows promise, whoever writes them. *)

(* The offer columns follow the state, as the outbox's CHECK demands: an   *)
(* outcome is recorded for every offered row, whatever became of its call, *)
(* and for no other (record_offer, adopt_active_candidate, reconcile_      *)
(* candidate, orphan_candidate_at_revision).                               *)
OfferColumns ==
    \A b \in Blocks :
        /\ state[b] \in {"absent", "pending", "abandoned", "offer_reserved"} => outcome[b] = "none"
        /\ state[b] \in {"offered", "reconciliation", "orphaned"} => outcome[b] \in Outcomes

(* The deferred share of a block is credited by its first confirmation,     *)
(* whoever confirms it, and a submitted row's block has been confirmed.     *)
CreditFollowsConfirmation ==
    \A b \in Blocks :
        /\ poolState[b] = "confirmed" => credited[b]
        /\ credited[b] => poolState[b] \in {"confirmed", "inactive"}
        /\ state[b] = "submitted" => credited[b]

(* Mature history is never undone: a mature block stays confirmed, even when *)
(* the node's chain drops it (reconcile_blocks makes the cluster fatal).     *)
MatureIsFinal == \A b \in Blocks : mature[b] => poolState[b] = "confirmed"

=============================================================================
