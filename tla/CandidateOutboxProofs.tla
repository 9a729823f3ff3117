----------------------- MODULE CandidateOutboxProofs ------------------------
(***************************************************************************)
(* The theorems about CandidateOutbox, for every number of blocks,         *)
(* frontends, operators, tips and faults, in three parts.                  *)
(*                                                                         *)
(* Types and the ledger: a step of the ledger is one transaction, and each *)
(* action of the outbox is one ledger transaction and a move of one        *)
(* process.                                                                *)
(*                                                                         *)
(* Custody: a found block is run at most once.  The inductive invariant    *)
(* says who may still make the node run a block: at most one process has   *)
(* custody of its offer or one call for it is on the wire, and none once   *)
(* it has run.                                                             *)
(*                                                                         *)
(* Observations: what is written about the chain is written from an        *)
(* observation of the accepted chain.  The inductive invariant says how    *)
(* old the observations may be that writes are made from: one whose        *)
(* revision is still current is of the tip that is still accepted.  At the *)
(* end, parked rows: who may hold one.                                     *)
(***************************************************************************)
EXTENDS CandidateOutbox, TLAPS

USE ZenonT(60)

RowTx(b, t) ==
    \/ ClaimTx(b, t) \/ RecoveryClaimTx(b, t)
    \/ \E s \in RowStates : ParkTx(b, t, s)
    \/ ReleaseTx(b, t) \/ ReleaseRecoveryTx(b, t)
    \/ ReserveTx(b, t) \/ ReleaseUnsentTx(b, t)
    \/ \E o \in Outcomes : RecordOfferTx(b, t, o)
    \/ AdoptTx(b, t) \/ ReconcileTx(b, t)

SettleTx(b, t, r) ==
    LandTx(b, t, r) \/ FinishTx(b, t, r) \/ AbandonTx(b, t, r) \/ OrphanTx(b, t, r)

BlockTx(b) == IssueTx(b) \/ EnqueueTx(b) \/ OperatorAbandonTx(b)

ChainTx(tip) == ObserveTx(tip) \/ ObserveTransitionTx(tip) \/ ClearFatalTx(tip)

WalkTx(tip, r) == \E s \in SUBSET Blocks : ReconcileBlocksTx(tip, r, s)

LedgerStep ==
    \/ UNCHANGED ledgerVars
    \/ \E b \in Blocks, t \in Tokens : RowTx(b, t)
    \/ \E b \in Blocks, t \in Tokens, r \in Nat : SettleTx(b, t, r)
    \/ \E b \in Blocks : BlockTx(b)
    \/ \E tip \in Tips : ChainTx(tip)
    \/ \E tip \in Tips, r \in Nat : WalkTx(tip, r)
    \/ PolicyTransitionTx
    \/ \E h \in BOOLEAN : SetHoldTx(h)

-----------------------------------------------------------------------------
(* Types. *)

(* The row states, listed. *)
LEMMA RowStatesAre ==
    RowStates = {"absent", "pending", "offer_reserved", "offered", "reconciliation",
                 "submitted", "abandoned", "orphaned"}
BY DEF RowStates, Unfinished, OfferedStates, TerminalStates

(* COALESCE(offer_outcome, unknown) is an outcome. *)
LEMMA CoalescedType ==
    ASSUME LedgerTypeOK, NEW b \in Blocks
    PROVE  Coalesced(b) \in Outcomes
BY DEF LedgerTypeOK, Coalesced, Outcomes

(* A row transaction keeps the types. *)
LEMMA RowTxType ==
    ASSUME LedgerTypeOK, NEW b \in Blocks, NEW t \in Tokens, RowTx(b, t)
    PROVE  LedgerTypeOK'
<1> USE DEF LedgerTypeOK, AuthorityTypeOK, poolVars, authorityVars
<1>1. CASE ClaimTx(b, t) \/ RecoveryClaimTx(b, t)
  BY <1>1 DEF ClaimTx, RecoveryClaimTx
<1>2. CASE \E s \in RowStates : ParkTx(b, t, s)
  BY <1>2 DEF ParkTx
<1>3. CASE ReleaseTx(b, t) \/ ReleaseRecoveryTx(b, t)
  BY <1>3 DEF ReleaseTx, ReleaseRecoveryTx
<1>4. CASE ReserveTx(b, t)
  BY <1>4, RowStatesAre DEF ReserveTx
<1>5. CASE ReleaseUnsentTx(b, t)
  BY <1>5, RowStatesAre DEF ReleaseUnsentTx
<1>6. CASE \E o \in Outcomes : RecordOfferTx(b, t, o)
  BY SMTT(30), <1>6, RowStatesAre DEF RecordOfferTx
<1>7. CASE AdoptTx(b, t)
  BY <1>7, RowStatesAre DEF AdoptTx, Outcomes
<1>8. CASE ReconcileTx(b, t)
  BY <1>8, RowStatesAre, CoalescedType DEF ReconcileTx
<1> QED BY <1>1, <1>2, <1>3, <1>4, <1>5, <1>6, <1>7, <1>8 DEF RowTx

(* Any number of bumps keeps the cluster row well typed. *)
LEMMA BumpByType ==
    ASSUME AuthorityTypeOK, NEW n \in Nat, BumpBy(n)
    PROVE  AuthorityTypeOK' /\ revision' = revision + n /\ acceptedTip' = acceptedTip
BY SMTT(30) DEF AuthorityTypeOK, BumpBy

(* A terminal write keeps the outbox row well typed. *)
LEMMA CloseType ==
    ASSUME LedgerTypeOK, NEW b \in Blocks, NEW s \in TerminalStates,
           NEW o \in Outcomes \union {"none"}, Close(b, s, o)
    PROVE  /\ state' \in [Blocks -> RowStates]
           /\ token' \in [Blocks -> Tokens \union {NoToken}]
           /\ parked' \in [Blocks -> BOOLEAN]
           /\ outcome' \in [Blocks -> Outcomes \union {"none"}]
           /\ issued' \in [Blocks -> Nat \union {NoWork}]
BY DEF Close, LedgerTypeOK, RowStates

(* deactivate_pool_block keeps the pool block well typed. *)
LEMMA DeactivateType ==
    ASSUME LedgerTypeOK, NEW b \in Blocks, Deactivate(b)
    PROVE  /\ AuthorityTypeOK'
           /\ poolState' \in [Blocks -> PoolStates]
           /\ fanout' \in [Blocks -> FanoutStates]
BY BumpByType DEF Deactivate, LedgerTypeOK, PoolStates, FanoutStates, AuthorityTypeOK, authorityVars

(* The landing, the finish, the abandonment and the orphan disposition keep *)
(* the types.                                                               *)
LEMMA SettleTxType ==
    ASSUME LedgerTypeOK, NEW b \in Blocks, NEW t \in Tokens, NEW r \in Nat, SettleTx(b, t, r)
    PROVE  LedgerTypeOK'
<1>1. CASE LandTx(b, t, r)
  BY <1>1
       DEF LandTx, LedgerTypeOK, AuthorityTypeOK, rowVars, authorityVars, PoolStates, FanoutStates
<1>2. CASE FinishTx(b, t, r)
  <2>1. PICK o \in Outcomes \union {"none"} : Close(b, "submitted", o)
    BY <1>2, CoalescedType DEF FinishTx, LedgerTypeOK
  <2>2. AuthorityTypeOK'
    BY <1>2, BumpByType DEF FinishTx, LedgerTypeOK, AuthorityTypeOK, authorityVars
  <2> QED BY <1>2, <2>1, <2>2, CloseType DEF FinishTx, LedgerTypeOK, PoolStates, TerminalStates
<1>3. CASE AbandonTx(b, t, r)
  BY <1>3, CloseType, DeactivateType DEF AbandonTx, LedgerTypeOK, TerminalStates
<1>4. CASE OrphanTx(b, t, r)
  BY <1>4, CloseType, DeactivateType, CoalescedType DEF OrphanTx, LedgerTypeOK, TerminalStates
<1> QED BY <1>1, <1>2, <1>3, <1>4 DEF SettleTx

(* Issued work, a found block's row and the operator's abandonment keep the types. *)
LEMMA BlockTxType ==
    ASSUME LedgerTypeOK, NEW b \in Blocks, BlockTx(b)
    PROVE  LedgerTypeOK'
<1>1. CASE IssueTx(b) \/ EnqueueTx(b)
  BY <1>1, RowStatesAre
       DEF IssueTx, EnqueueTx, LedgerTypeOK, AuthorityTypeOK, poolVars, authorityVars
<1>2. CASE OperatorAbandonTx(b)
  BY <1>2, CloseType
       DEF OperatorAbandonTx, LedgerTypeOK, AuthorityTypeOK, TerminalStates, poolVars, authorityVars
<1> QED BY <1>1, <1>2 DEF BlockTx

(* The walk bumps the revision a natural number of times. *)
LEMMA BumpsType ==
    ASSUME NEW tip \in Tips, NEW s \in SUBSET Blocks
    PROVE  /\ Bumps(tip, s) \in Nat
           /\ LostMature(tip, s) = {} /\ Confirms(tip, s) \union Drops(tip, s) # {}
                => Bumps(tip, s) > 0
BY SMTT(30) DEF Bumps

(* The walk over the pool blocks keeps their columns well typed. *)
LEMMA ReconcileBlocksType ==
    ASSUME LedgerTypeOK, NEW tip \in Tips, NEW s \in SUBSET Blocks, ReconcileBlocks(tip, s)
    PROVE  /\ poolState' \in [Blocks -> PoolStates]
           /\ mature' \in [Blocks -> BOOLEAN]
           /\ fanout' \in [Blocks -> FanoutStates]
           /\ credited' \in [Blocks -> BOOLEAN]
           /\ UNCHANGED <<rowVars, hold>>
<1>1. poolState' \in [Blocks -> PoolStates]
  BY DEF ReconcileBlocks, LedgerTypeOK, PoolStates
<1>2. mature' \in [Blocks -> BOOLEAN] /\ credited' \in [Blocks -> BOOLEAN]
  BY DEF ReconcileBlocks, LedgerTypeOK
<1>3. fanout' \in [Blocks -> FanoutStates]
  <2>1. \A b \in Blocks : FanoutAfter(b, tip, s) \in FanoutStates
    BY DEF FanoutAfter, LedgerTypeOK, FanoutStates
  <2> QED BY <2>1 DEF ReconcileBlocks
<1> QED BY <1>1, <1>2, <1>3 DEF ReconcileBlocks

(* The reconciler's transaction keeps the types. *)
LEMMA WalkTxType ==
    ASSUME LedgerTypeOK, NEW tip \in Tips, NEW r \in Nat, WalkTx(tip, r)
    PROVE  LedgerTypeOK'
<1>1. PICK s \in SUBSET Blocks : ReconcileBlocksTx(tip, r, s)
  BY DEF WalkTx
<1>2. AuthorityTypeOK'
  BY <1>1, BumpsType, BumpByType DEF ReconcileBlocksTx, LedgerTypeOK
<1>3. fatal' \in BOOLEAN
  BY <1>1 DEF ReconcileBlocksTx
<1> QED BY <1>1, <1>2, <1>3, ReconcileBlocksType DEF ReconcileBlocksTx, LedgerTypeOK, rowVars

(* An accepted tip is a tip, at a natural revision. *)
LEMMA AcceptTipType ==
    ASSUME AuthorityTypeOK, NEW tip \in Tips, AcceptTip(tip)
    PROVE  AuthorityTypeOK'
BY SMTT(30) DEF AuthorityTypeOK, AcceptTip

(* Observations and the fatal-state clear keep the types. *)
LEMMA ChainTxType ==
    ASSUME LedgerTypeOK, NEW tip \in Tips, ChainTx(tip)
    PROVE  LedgerTypeOK'
<1>1. CASE ObserveTx(tip) \/ ObserveTransitionTx(tip)
  <2>1. AuthorityTypeOK'
    BY <1>1, AcceptTipType
         DEF ObserveTx, ObserveTransitionTx, LedgerTypeOK, AuthorityTypeOK, authorityVars
  <2> QED BY <1>1, <2>1 DEF ObserveTx, ObserveTransitionTx, LedgerTypeOK, rowVars, poolVars
<1>2. CASE ClearFatalTx(tip)
  <2> DEFINE s == {b \in Blocks : poolState[b] # "none"}
  <2>1. /\ ReconcileBlocks(tip, s) /\ BumpBy(Bumps(tip, s) + 1) /\ fatal' = FALSE
    BY <1>2 DEF ClearFatalTx
  <2>2. AuthorityTypeOK'
    BY SMTT(30), <2>1, BumpsType, BumpByType DEF LedgerTypeOK
  <2> QED BY <2>1, <2>2, ReconcileBlocksType DEF LedgerTypeOK, rowVars
<1> QED BY <1>1, <1>2 DEF ChainTx

(* The policy transition keeps the types. *)
LEMMA PolicyTransitionType == LedgerTypeOK /\ PolicyTransitionTx => LedgerTypeOK'
BY RowStatesAre, BumpByType DEF PolicyTransitionTx, LedgerTypeOK, poolVars

(* Every ledger transaction keeps every column in its type. *)
THEOREM LedgerTypeStep == LedgerTypeOK /\ LedgerStep => LedgerTypeOK'
<1> SUFFICES ASSUME LedgerTypeOK, LedgerStep PROVE LedgerTypeOK'
  OBVIOUS
<1>1. CASE UNCHANGED ledgerVars
  BY <1>1 DEF ledgerVars, rowVars, poolVars, authorityVars, LedgerTypeOK, AuthorityTypeOK
<1>2. CASE \E h \in BOOLEAN : SetHoldTx(h)
  BY <1>2 DEF SetHoldTx, rowVars, poolVars, authorityVars, LedgerTypeOK, AuthorityTypeOK
<1> QED BY <1>1, <1>2, RowTxType, SettleTxType, BlockTxType, ChainTxType, WalkTxType,
           PolicyTransitionType DEF LedgerStep

-----------------------------------------------------------------------------
(* The walk of reconcile_blocks. *)

(* The walk drops no mature block: it stops at the first one that is lost. *)
LEMMA WalkSpares ==
    ASSUME LedgerTypeOK, NEW tip \in Tips, NEW s \in SUBSET Blocks,
           NEW b \in Drops(tip, s)
    PROVE  ~mature[b]
BY SMTT(30), LedgerAssumption DEF Drops, Walked, LostMature

(* OfferColumns is kept by every transaction. *)
LEMMA OfferColumnsStep == LedgerTypeOK /\ OfferColumns /\ LedgerStep => OfferColumns'
<1> SUFFICES ASSUME LedgerTypeOK, OfferColumns, LedgerStep PROVE OfferColumns'
  OBVIOUS
<1>1. ASSUME NEW b \in Blocks, NEW t \in Tokens, RowTx(b, t) PROVE OfferColumns'
  <2> USE DEF OfferColumns, LedgerTypeOK, Holds, OfferedStates, Unfinished
  <2>1. CASE UNCHANGED <<state, outcome>>
    BY <2>1
  <2>2. CASE ReserveTx(b, t) \/ ReleaseUnsentTx(b, t)
    BY <2>2 DEF ReserveTx, ReleaseUnsentTx
  <2>3. CASE \E o \in Outcomes : RecordOfferTx(b, t, o)
    BY <2>3 DEF RecordOfferTx
  <2>4. CASE AdoptTx(b, t)
    BY <2>4 DEF AdoptTx, Outcomes
  <2>5. CASE ReconcileTx(b, t)
    BY <2>5, CoalescedType DEF ReconcileTx
  <2> QED BY <1>1, <2>1, <2>2, <2>3, <2>4, <2>5
          DEF RowTx, ClaimTx, RecoveryClaimTx, ParkTx, ReleaseTx, ReleaseRecoveryTx
<1>2. ASSUME NEW b \in Blocks, NEW t \in Tokens, NEW r \in Nat, SettleTx(b, t, r)
      PROVE  OfferColumns'
  <2>1. CASE LandTx(b, t, r)
    BY <2>1 DEF LandTx, rowVars, OfferColumns
  <2>2. CASE FinishTx(b, t, r)
    BY <2>2 DEF FinishTx, Close, OfferColumns, LedgerTypeOK
  <2>3. CASE AbandonTx(b, t, r)
    BY <2>3 DEF AbandonTx, Close, OfferColumns, LedgerTypeOK
  <2>4. CASE OrphanTx(b, t, r)
    BY <2>4, CoalescedType DEF OrphanTx, Close, OfferColumns, LedgerTypeOK
  <2> QED BY <1>2, <2>1, <2>2, <2>3, <2>4 DEF SettleTx
<1>3. ASSUME NEW b \in Blocks, BlockTx(b) PROVE OfferColumns'
  BY <1>3 DEF BlockTx, IssueTx, EnqueueTx, OperatorAbandonTx, Close, OfferColumns, LedgerTypeOK
<1>4. CASE PolicyTransitionTx
  BY <1>4 DEF PolicyTransitionTx, OfferColumns, LedgerTypeOK
<1>5. CASE UNCHANGED rowVars
  BY <1>5 DEF rowVars, OfferColumns
<1> QED BY <1>1, <1>2, <1>3, <1>4, <1>5
        DEF LedgerStep, ledgerVars, ChainTx, ObserveTx, ObserveTransitionTx, ClearFatalTx,
            WalkTx, ReconcileBlocksTx, ReconcileBlocks, SetHoldTx

(* CreditFollowsConfirmation and MatureIsFinal are kept by every transaction. *)
Settled == CreditFollowsConfirmation /\ MatureIsFinal

(* deactivate_pool_block drops no mature block and takes back no credit. *)
LEMMA DeactivateSettled ==
    ASSUME LedgerTypeOK, Settled, NEW b \in Blocks, Deactivate(b), UNCHANGED <<mature, credited>>,
           \A c \in Blocks : state'[c] = "submitted" => state[c] = "submitted"
    PROVE  Settled'
BY SMTT(30) DEF Deactivate, Settled, CreditFollowsConfirmation, MatureIsFinal, LedgerTypeOK

(* The walk credits what it confirms and drops no mature block. *)
LEMMA ReconcileBlocksSettled ==
    ASSUME LedgerTypeOK, Settled, NEW tip \in Tips, NEW s \in SUBSET Blocks,
           ReconcileBlocks(tip, s)
    PROVE  Settled'
<1>1. MatureIsFinal'
  <2> SUFFICES ASSUME NEW b \in Blocks, mature'[b] PROVE poolState'[b] = "confirmed"
    BY DEF MatureIsFinal
  <2>1. mature[b] \/ b \in Ripens(tip, s)
    BY DEF ReconcileBlocks
  <2>2. b \in Confirms(tip, s) \/ poolState[b] = "confirmed"
    BY <2>1 DEF Ripens, Settled, MatureIsFinal
  <2>3. b \notin Drops(tip, s) \/ b \in Confirms(tip, s)
    <3>1. CASE mature[b]
      BY <3>1, WalkSpares
    <3>2. CASE b \in Ripens(tip, s)
      BY <3>2 DEF Ripens, Drops, Active
    <3> QED BY <2>1, <3>1, <3>2
  <2> QED BY <2>2, <2>3 DEF ReconcileBlocks
<1>2. CreditFollowsConfirmation'
  BY
       DEF ReconcileBlocks, Settled, CreditFollowsConfirmation, LedgerTypeOK, rowVars, Confirms, Drops, Walked
<1> QED BY <1>1, <1>2 DEF Settled

(* Credits follow confirmations and maturity stays final over every transaction. *)
LEMMA SettledStep == LedgerTypeOK /\ Settled /\ LedgerStep => Settled'
<1> SUFFICES ASSUME LedgerTypeOK, Settled, LedgerStep PROVE Settled'
  OBVIOUS
<1>1. CASE /\ UNCHANGED <<poolState, mature, credited>>
           /\ \A c \in Blocks : state'[c] = "submitted" => state[c] = "submitted"
  BY <1>1 DEF Settled, CreditFollowsConfirmation, MatureIsFinal
<1>2. ASSUME NEW b \in Blocks, NEW t \in Tokens, RowTx(b, t) PROVE Settled'
  BY <1>1, <1>2 DEF RowTx, ClaimTx, RecoveryClaimTx, ParkTx, ReleaseTx, ReleaseRecoveryTx,
        ReserveTx, ReleaseUnsentTx, RecordOfferTx, AdoptTx, ReconcileTx, poolVars, LedgerTypeOK
<1>3. ASSUME NEW b \in Blocks, NEW t \in Tokens, NEW r \in Nat, SettleTx(b, t, r)
      PROVE  Settled'
  <2>1. CASE LandTx(b, t, r)
    BY <2>1 DEF LandTx, rowVars, Settled, CreditFollowsConfirmation, MatureIsFinal, LedgerTypeOK
  <2>2. CASE FinishTx(b, t, r)
    BY <2>2 DEF FinishTx, Close, Settled, CreditFollowsConfirmation, MatureIsFinal, LedgerTypeOK
  <2>3. CASE AbandonTx(b, t, r)
    BY <2>3, DeactivateSettled DEF AbandonTx, Close, LedgerTypeOK
  <2>4. CASE OrphanTx(b, t, r)
    BY <2>4, DeactivateSettled DEF OrphanTx, Close, LedgerTypeOK
  <2> QED BY <1>3, <2>1, <2>2, <2>3, <2>4 DEF SettleTx
<1>4. ASSUME NEW b \in Blocks, BlockTx(b) PROVE Settled'
  BY <1>1, <1>4 DEF BlockTx, IssueTx, EnqueueTx, OperatorAbandonTx, Close, poolVars, LedgerTypeOK
<1>5. ASSUME NEW tip \in Tips, ChainTx(tip) PROVE Settled'
  <2>1. CASE ObserveTx(tip) \/ ObserveTransitionTx(tip)
    BY <1>1, <2>1 DEF ObserveTx, ObserveTransitionTx, rowVars, poolVars
  <2>2. CASE ClearFatalTx(tip)
    BY <2>2, ReconcileBlocksSettled DEF ClearFatalTx
  <2> QED BY <1>5, <2>1, <2>2 DEF ChainTx
<1>6. ASSUME NEW tip \in Tips, NEW r \in Nat, WalkTx(tip, r) PROVE Settled'
  BY <1>6, ReconcileBlocksSettled DEF WalkTx, ReconcileBlocksTx
<1>7. CASE PolicyTransitionTx
  BY <1>1, <1>7 DEF PolicyTransitionTx, poolVars
<1>8. CASE UNCHANGED ledgerVars \/ \E h \in BOOLEAN : SetHoldTx(h)
  BY <1>1, <1>8 DEF SetHoldTx, ledgerVars, rowVars, poolVars
<1> QED BY <1>2, <1>3, <1>4, <1>5, <1>6, <1>7, <1>8 DEF LedgerStep

-----------------------------------------------------------------------------
(* The cluster row. *)

(* A bump is a step of the chain authority, or leaves it alone. *)
LEMMA BumpIsAuthority ==
    ASSUME AuthorityTypeOK, NEW n \in Nat, BumpBy(n)
    PROVE  [AuthorityNext]_authorityVars
BY SMTT(30) DEF AuthorityTypeOK, BumpBy, AuthorityNext, BumpRevision, authorityVars

(* Every transaction keeps the chain authority's promise: it leaves the       *)
(* cluster row alone, bumps the revision, or accepts a tip of no less work.   *)
LEMMA AuthorityStep == LedgerTypeOK /\ LedgerStep => [AuthorityNext]_authorityVars
<1> SUFFICES ASSUME LedgerTypeOK, LedgerStep PROVE [AuthorityNext]_authorityVars
  OBVIOUS
<1>1. AuthorityTypeOK
  BY DEF LedgerTypeOK
<1>2. CASE UNCHANGED authorityVars
  BY <1>2
<1>3. CASE \E n \in Nat : BumpBy(n)
  BY <1>1, <1>3, BumpIsAuthority
<1>4. CASE \E tip \in Tips : AcceptTip(tip)
  BY <1>4 DEF AuthorityNext
<1>5. ASSUME NEW b \in Blocks, NEW t \in Tokens, RowTx(b, t)
      PROVE  UNCHANGED authorityVars
  BY <1>5 DEF RowTx, ClaimTx, RecoveryClaimTx, ParkTx, ReleaseTx, ReleaseRecoveryTx,
        ReserveTx, ReleaseUnsentTx, RecordOfferTx, AdoptTx, ReconcileTx
<1>6. ASSUME NEW b \in Blocks, NEW t \in Tokens, NEW r \in Nat, SettleTx(b, t, r)
      PROVE  UNCHANGED authorityVars \/ BumpBy(1)
  <2>1. CASE LandTx(b, t, r)
    BY <2>1 DEF LandTx
  <2>2. CASE FinishTx(b, t, r)
    BY <2>2 DEF FinishTx
  <2>3. CASE AbandonTx(b, t, r)
    BY <2>3 DEF AbandonTx, Deactivate
  <2>4. CASE OrphanTx(b, t, r)
    BY <2>4 DEF OrphanTx, Deactivate
  <2> QED BY <1>6, <2>1, <2>2, <2>3, <2>4 DEF SettleTx
<1>7. ASSUME NEW b \in Blocks, BlockTx(b) PROVE UNCHANGED authorityVars
  BY <1>7 DEF BlockTx, IssueTx, EnqueueTx, OperatorAbandonTx
<1>8. ASSUME NEW tip \in Tips, ChainTx(tip)
      PROVE  UNCHANGED authorityVars \/ AcceptTip(tip) \/ \E n \in Nat : BumpBy(n)
  <2>1. CASE ClearFatalTx(tip)
    <3> DEFINE s == {b \in Blocks : poolState[b] # "none"}
    <3>1. BumpBy(Bumps(tip, s) + 1)
      BY <2>1 DEF ClearFatalTx
    <3>2. Bumps(tip, s) + 1 \in Nat
      BY SMTT(30), BumpsType
    <3> QED BY <3>1, <3>2
  <2> QED BY <1>8, <2>1 DEF ChainTx, ObserveTx, ObserveTransitionTx
<1>9. ASSUME NEW tip \in Tips, NEW r \in Nat, WalkTx(tip, r) PROVE \E n \in Nat : BumpBy(n)
  BY <1>9, BumpsType DEF WalkTx, ReconcileBlocksTx
<1> QED BY <1>2, <1>3, <1>4, <1>5, <1>6, <1>7, <1>8, <1>9
        DEF LedgerStep, PolicyTransitionTx, SetHoldTx, ledgerVars

(* A step never lowers the revision, and changes the accepted tip only with it. *)
LEMMA RevisionGrows ==
    ASSUME LedgerTypeOK, LedgerStep
    PROVE  /\ revision' >= revision
           /\ revision' = revision => acceptedTip' = acceptedTip
BY SMTT(30), AuthorityStep
     DEF LedgerTypeOK, AuthorityTypeOK, AuthorityNext, AcceptTip, BumpRevision,
      authorityVars

(* A transaction that changes which blocks count moves the revision, or stops *)
(* the cluster.                                                               *)
Announced ==
    (\E b \in Blocks : (poolState[b] = "confirmed") # (poolState'[b] = "confirmed"))
        => revision' > revision \/ fatal'

(* Every transaction announces a change of the counting blocks. *)
LEMMA BalancesStep == LedgerTypeOK /\ LedgerStep => Announced
<1> SUFFICES ASSUME LedgerTypeOK, LedgerStep PROVE Announced
  OBVIOUS
<1> USE DEF Announced
<1>1. CASE UNCHANGED poolState
  BY <1>1
<1>2. ASSUME NEW b \in Blocks, NEW t \in Tokens, NEW r \in Nat, SettleTx(b, t, r)
      PROVE  Announced
  <2>1. revision \in Nat
    BY DEF LedgerTypeOK, AuthorityTypeOK
  <2>2. CASE LandTx(b, t, r)
    BY <2>2 DEF LandTx, LedgerTypeOK
  <2>3. CASE FinishTx(b, t, r)
    BY SMTT(30), <2>1, <2>3 DEF FinishTx, BumpBy, LedgerTypeOK
  <2>4. CASE AbandonTx(b, t, r) \/ OrphanTx(b, t, r)
    BY SMTT(30), <2>1, <2>4 DEF AbandonTx, OrphanTx, Deactivate, BumpBy, LedgerTypeOK
  <2> QED BY <1>2, <2>2, <2>3, <2>4 DEF SettleTx
<1>3. ASSUME NEW tip \in Tips, NEW s \in SUBSET Blocks, ReconcileBlocks(tip, s),
             NEW n \in Nat, BumpBy(n),
             Bumps(tip, s) > 0 => n > 0, fatal' \/ LostMature(tip, s) = {}
      PROVE  Announced
  <2> SUFFICES ASSUME NEW b \in Blocks, (poolState[b] = "confirmed") # (poolState'[b] = "confirmed"),
                      ~fatal'
               PROVE  revision' > revision
    OBVIOUS
  <2>1. b \in Confirms(tip, s) \/ b \in Drops(tip, s)
    BY <1>3 DEF ReconcileBlocks
  <2>2. n > 0
    BY <1>3, <2>1, BumpsType
  <2> QED BY SMTT(30), <1>3, <2>2 DEF BumpBy, LedgerTypeOK, AuthorityTypeOK
<1>4. ASSUME NEW tip \in Tips, ChainTx(tip) PROVE Announced
  <2>1. CASE ClearFatalTx(tip)
    <3> DEFINE s == {b \in Blocks : poolState[b] # "none"}
    <3>1. /\ ReconcileBlocks(tip, s) /\ BumpBy(Bumps(tip, s) + 1)
          /\ LostMature(tip, s) = {}
      BY <2>1 DEF ClearFatalTx
    <3>2. Bumps(tip, s) + 1 \in Nat /\ Bumps(tip, s) + 1 > 0
      BY SMTT(30), BumpsType
    <3> HIDE DEF s
    <3>3. s \in SUBSET Blocks
      BY DEF s
    <3> QED BY <3>1, <3>2, <3>3, <1>3
  <2> QED BY <1>1, <1>4, <2>1 DEF ChainTx, ObserveTx, ObserveTransitionTx, poolVars
<1>5. ASSUME NEW tip \in Tips, NEW r \in Nat, WalkTx(tip, r) PROVE Announced
  BY <1>3, <1>5, BumpsType DEF WalkTx, ReconcileBlocksTx
<1>6. ASSUME NEW b \in Blocks, NEW t \in Tokens, RowTx(b, t) PROVE UNCHANGED poolState
  BY <1>6 DEF RowTx, ClaimTx, RecoveryClaimTx, ParkTx, ReleaseTx, ReleaseRecoveryTx,
        ReserveTx, ReleaseUnsentTx, RecordOfferTx, AdoptTx, ReconcileTx, poolVars
<1>7. ASSUME NEW b \in Blocks, BlockTx(b) PROVE UNCHANGED poolState
  BY <1>7 DEF BlockTx, IssueTx, EnqueueTx, OperatorAbandonTx, poolVars
<1> QED BY <1>1, <1>2, <1>4, <1>5, <1>6, <1>7
        DEF LedgerStep, PolicyTransitionTx, SetHoldTx, ledgerVars, poolVars

(***************************************************************************)
(* The outbox: processes, faults and operators over the ledger.            *)
(***************************************************************************)
(* A process with a claim knows its block and its token; an answered one has *)
(* an answer.                                                                *)
Busy ==
    \A i \in Procs :
        /\ pc[i] # "idle" => blk[i] \in Blocks /\ tok[i] \in Tokens
        /\ pc[i] = "answered" => out[i] \in Outcomes

Places == {"idle"} \union PreOffer \union PostOffer \union Closing

WorldTypeOK ==
    /\ NodeTypeOK
    /\ recon \in [on : BOOLEAN, tip : Tips, rev : Nat, seen : SUBSET Blocks]
    /\ faults \in Nat

-----------------------------------------------------------------------------
(* The moves of a process. *)

(* The initial state is well typed and nobody holds a claim. *)
LEMMA InitType == OutboxInit => OutboxTypeOK /\ Busy
<1> SUFFICES ASSUME OutboxInit PROVE OutboxTypeOK /\ Busy
  OBVIOUS
<1>1. LedgerTypeOK
  BY ChainAssumption, RowStatesAre
     DEF OutboxInit, LedgerInit, AuthorityInit, LedgerTypeOK, AuthorityTypeOK, NoWork,
         PoolStates, FanoutStates
<1>2. ProcTypeOK /\ Busy
  BY ChainAssumption, RowStatesAre DEF OutboxInit, ProcTypeOK, Busy
<1>3. WorldTypeOK
  BY ChainAssumption DEF OutboxInit, WorldTypeOK, NodeTypeOK, NoRecon
<1> QED BY <1>1, <1>2, <1>3 DEF OutboxTypeOK, WorldTypeOK

(* An attempt that moves on keeps its claim. *)
LEMMA StayProc ==
    ASSUME NEW i \in Procs, NEW p \in Places \ {"answered"}, ProcTypeOK, Busy, Stay(i, p),
           pc[i] # "idle"
    PROVE  ProcTypeOK' /\ Busy'
BY DEF ProcTypeOK, Busy, Stay, Goto, Places

(* A finished attempt leaves an idle process. *)
LEMMA DoneProc ==
    ASSUME NEW i \in Procs, ProcTypeOK, Busy, Done(i)
    PROVE  ProcTypeOK' /\ Busy'
BY ChainAssumption, RowStatesAre DEF ProcTypeOK, Busy, Done, Goto

(* A claim gives a process its block and token. *)
LEMMA TakeProc ==
    ASSUME NEW i \in Procs, NEW b \in Blocks, NEW t \in Tokens,
           NEW p \in {"claimed", "invalid", "recover", "handback"},
           LedgerTypeOK, ProcTypeOK, Busy, Take(i, b, t, p)
    PROVE  ProcTypeOK' /\ Busy'
BY DEF LedgerTypeOK, ProcTypeOK, Busy, Take, Goto, PreOffer, Closing

(* An observation records an accepted tip and its revision. *)
LEMMA ObserveProc ==
    ASSUME NEW i \in Procs, NEW tip \in Tips, NEW p \in Places \ {"answered"},
           LedgerTypeOK, ProcTypeOK, Busy, Observe(i, tip, p), pc[i] # "idle"
    PROVE  ProcTypeOK' /\ Busy'
<1>1. revision' \in Nat
  BY LedgerTypeStep DEF Observe, LedgerStep, ChainTx, LedgerTypeOK, AuthorityTypeOK
<1> QED BY <1>1 DEF ProcTypeOK, Busy, Observe, Goto, Places

(* An error takes an attempt to one of three places. *)
LEMMA ErrorPlace ==
    ASSUME NEW i \in Procs
    PROVE  OnError(i) \in {"handback", "reconcile", "failed"}
BY DEF OnError

-----------------------------------------------------------------------------
(* Every step of an attempt is one ledger transaction, or none. *)
LEMMA AdvanceLedger ==
    ASSUME OutboxTypeOK, Busy, NEW i \in Procs, Advance(i)
    PROVE  LedgerStep
<1>1. pc[i] # "idle" => blk[i] \in Blocks /\ tok[i] \in Tokens
  BY DEF Busy
<1>2. obsRev[i] \in Nat /\ seen[i] \in RowStates
  BY DEF OutboxTypeOK, ProcTypeOK
<1>3. CASE Park(i) \/ Adopt(i) \/ Reserve(i) \/ ReleaseUnsent(i) \/ RecordOffer(i)
             \/ Reconcile(i) \/ Release(i) \/ HandBack(i)
  <2>1. pc[i] # "idle" /\ RowTx(blk[i], tok[i])
    BY <1>2, <1>3 DEF Park, Adopt, Reserve, ReleaseUnsent, RecordOffer, Reconcile, Release,
          HandBack, RowTx, Busy
  <2> QED BY <1>1, <2>1 DEF LedgerStep
<1>4. CASE ReserveBounded(i)
  <2>1. pc[i] # "idle" /\ (RowTx(blk[i], tok[i]) \/ UNCHANGED ledgerVars)
    BY <1>4 DEF ReserveBounded, RowTx
  <2> QED BY <1>1, <2>1 DEF LedgerStep
<1>5. CASE Abandon(i) \/ Land(i) \/ Finish(i) \/ Orphan(i)
  <2>1. pc[i] # "idle" /\ SettleTx(blk[i], tok[i], obsRev[i])
    BY <1>5 DEF Abandon, Land, Finish, Orphan, SettleTx
  <2> QED BY <1>1, <1>2, <2>1 DEF LedgerStep
<1>6. CASE ScreenProbe(i) \/ LandObserve(i) \/ SettleObserve(i) \/ Recover(i)
  <2>1. PICK tip \in Tips : ObserveTx(tip)
    BY <1>6 DEF ScreenProbe, LandObserve, SettleObserve, Recover, Observe
  <2> QED BY <2>1 DEF LedgerStep, ChainTx
<1>7. CASE \/ Start(i) \/ ScreenPass(i) \/ ReserveSuperseded(i) \/ Arm(i) \/ Send(i)
           \/ Answer(i) \/ LandSkip(i) \/ Rebuild(i) \/ RevisionRace(i) \/ Refused(i)
  <2>1. UNCHANGED ledgerVars
    BY <1>7 DEF Start, ScreenPass, ReserveSuperseded, Arm, Send, Answer, LandSkip, Rebuild,
          RevisionRace, Refused
  <2> QED BY <2>1 DEF LedgerStep
<1> QED BY <1>3, <1>4, <1>5, <1>6, <1>7 DEF Advance

(* Every step of the outbox is a ledger step. *)
LEMMA OutboxLedger == OutboxTypeOK /\ Busy /\ [OutboxNext]_vars => LedgerStep
<1> SUFFICES ASSUME OutboxTypeOK, Busy, [OutboxNext]_vars PROVE LedgerStep
  OBVIOUS
<1>1. CASE UNCHANGED vars
  BY <1>1 DEF vars, LedgerStep
<1>2. ASSUME NEW i \in Procs, Disturb(i) PROVE LedgerStep
  <2>1. UNCHANGED ledgerVars
    BY <1>2 DEF Disturb, CarryGateMoved, NotExecuted, Timeout, Fail, LeaseLost, Shutdown, Crash
  <2> QED BY <2>1 DEF LedgerStep
<1>3. ASSUME NEW i \in Procs, NEW b \in Blocks, NEW t \in Tokens,
             ClaimLane(i, b, t) \/ TakeOver(i, b, t) \/ RecoveryClaim(i, b, t)
      PROVE  LedgerStep
  <2>1. RowTx(b, t)
    BY <1>3 DEF ClaimLane, TakeOver, RecoveryClaim, RowTx
  <2> QED BY <2>1 DEF LedgerStep
<1>4. CASE Environment
  <2>1. CASE \E b \in Blocks : IssueWork(b) \/ Enqueue(b) \/ OperatorAbandon(b)
    <3>1. \E b \in Blocks : BlockTx(b)
      BY <2>1 DEF IssueWork, Enqueue, OperatorAbandon, BlockTx
    <3> QED BY <3>1 DEF LedgerStep
  <2>2. CASE \/ \E c \in wire : LateRun(c) \/ LoseCall(c)
             \/ ReconcilerRefused
    BY <2>2 DEF LateRun, LoseCall, ReconcilerRefused, LedgerStep
  <2>3. CASE ReconcilerObserve
    <3>1. \E tip \in Tips : ChainTx(tip)
      BY <2>3 DEF ReconcilerObserve, ChainTx
    <3> QED BY <3>1 DEF LedgerStep
  <2>4. CASE ReconcilerCommit
    <3>1. WalkTx(recon.tip, recon.rev) /\ recon.tip \in Tips /\ recon.rev \in Nat
      BY <2>4 DEF ReconcilerCommit, WalkTx, OutboxTypeOK
    <3> QED BY <3>1 DEF LedgerStep
  <2>5. CASE \E h \in BOOLEAN : SetHold(h)
    BY <2>5 DEF SetHold, LedgerStep
  <2>6. CASE PolicyTransition
    BY <2>6 DEF PolicyTransition, LedgerStep
  <2>7. CASE ClearFatal
    <3>1. \E tip \in Tips : ChainTx(tip)
      BY <2>7 DEF ClearFatal, ChainTx
    <3> QED BY <3>1 DEF LedgerStep
  <2> QED BY <1>4, <2>1, <2>2, <2>3, <2>4, <2>5, <2>6, <2>7 DEF Environment
<1> QED BY <1>1, <1>2, <1>3, <1>4, AdvanceLedger DEF OutboxNext

-----------------------------------------------------------------------------
(* Types. *)

(* Every step of an attempt leaves its process well typed. *)
LEMMA AdvanceProc ==
    ASSUME OutboxTypeOK, Busy, NEW i \in Procs, Advance(i)
    PROVE  ProcTypeOK' /\ Busy'
<1>1. ProcTypeOK /\ LedgerTypeOK
  BY DEF OutboxTypeOK
<1>2. CASE Park(i) \/ Abandon(i) \/ ReleaseUnsent(i) \/ Finish(i) \/ Orphan(i)
             \/ Reconcile(i) \/ Release(i) \/ HandBack(i)
  <2>1. Done(i)
    BY <1>2 DEF Park, Abandon, ReleaseUnsent, Finish, Orphan, Reconcile, Release, HandBack
  <2> QED BY <1>1, <2>1, DoneProc
<1>3. CASE Start(i) \/ ScreenPass(i) \/ Adopt(i) \/ Reserve(i) \/ ReserveBounded(i) \/ Arm(i)
             \/ Send(i) \/ RecordOffer(i) \/ LandSkip(i) \/ Rebuild(i)
  <2>1. pc[i] # "idle" /\ \E p \in Places \ {"answered"} : Stay(i, p)
    BY <1>3, ErrorPlace DEF Start, ScreenPass, Adopt, Reserve, ReserveBounded, Arm, Send,
          RecordOffer, LandSkip, Rebuild, Places, PreOffer, PostOffer, Closing
  <2> QED BY <1>1, <2>1, StayProc
<1>4. CASE ScreenProbe(i) \/ LandObserve(i) \/ SettleObserve(i) \/ Recover(i)
  <2>1. pc[i] # "idle"
    BY <1>4 DEF ScreenProbe, LandObserve, SettleObserve, Recover
  <2>2. \E tip \in Tips, p \in Places \ {"answered"} : Observe(i, tip, p)
    BY <1>4, ErrorPlace DEF ScreenProbe, LandObserve, SettleObserve, Recover, Places,
          PreOffer, PostOffer, Closing
  <2> QED BY <1>1, <2>1, <2>2, ObserveProc
<1>5. CASE ReserveSuperseded(i)
  BY <1>1, <1>5 DEF ReserveSuperseded, Goto, ProcTypeOK, Busy, LedgerTypeOK, AuthorityTypeOK,
        PreOffer
<1>6. CASE Answer(i)
  BY SMTT(30), <1>1, <1>6 DEF Answer, Reply, Goto, ProcTypeOK, Busy, PreOffer
<1>7. CASE Land(i)
  BY <1>1, <1>7 DEF Land, Goto, ProcTypeOK, Busy, PostOffer
<1>8. CASE RevisionRace(i)
  <2>1. CASE Stay(i, OnError(i))
    BY <1>1, <1>8, <2>1, ErrorPlace, StayProc DEF RevisionRace, Places, Closing
  <2>2. CASE ~Stay(i, OnError(i))
    BY SMTT(30), <1>1, <1>8, <2>2 DEF RevisionRace, Goto, ProcTypeOK, Busy, PostOffer
  <2> QED BY <2>1, <2>2
<1>9. CASE Refused(i)
  <2>1. pc[i] # "idle" /\ (Done(i) \/ Stay(i, OnError(i)))
    BY <1>9 DEF Refused
  <2> QED BY <1>1, <2>1, DoneProc, StayProc, ErrorPlace DEF Places, Closing
<1> QED BY <1>2, <1>3, <1>4, <1>5, <1>6, <1>7, <1>8, <1>9 DEF Advance

(* Every step keeps the processes well typed and a busy process on a block. *)
LEMMA OutboxProc == OutboxTypeOK /\ Busy /\ [OutboxNext]_vars => ProcTypeOK' /\ Busy'
<1> SUFFICES ASSUME OutboxTypeOK, Busy, [OutboxNext]_vars PROVE ProcTypeOK' /\ Busy'
  OBVIOUS
<1>1. ProcTypeOK /\ LedgerTypeOK
  BY DEF OutboxTypeOK
<1>2. CASE UNCHANGED procVars
  BY <1>1, <1>2 DEF procVars, ProcTypeOK, Busy
<1>3. ASSUME NEW i \in Procs, Disturb(i) PROVE ProcTypeOK' /\ Busy'
  <2>1. CASE Timeout(i)
    BY <1>1, <2>1 DEF Timeout, Reply, Goto, ProcTypeOK, Busy, PreOffer, Outcomes
  <2>2. CASE Crash(i)
    BY <1>1, <2>2, DoneProc DEF Crash
  <2>3. CASE ~Timeout(i) /\ ~Crash(i)
    <3>1. pc[i] # "idle" /\ \E p \in Places \ {"answered"} : Stay(i, p)
      BY <1>3, <2>3, ErrorPlace DEF Disturb, CarryGateMoved, NotExecuted, Fail, LeaseLost,
            Shutdown, Places, PreOffer, Closing
    <3> QED BY <1>1, <3>1, StayProc
  <2> QED BY <2>1, <2>2, <2>3
<1>4. ASSUME NEW i \in Procs, NEW b \in Blocks, NEW t \in Tokens,
             ClaimLane(i, b, t) \/ TakeOver(i, b, t) \/ RecoveryClaim(i, b, t)
      PROVE  ProcTypeOK' /\ Busy'
  <2>1. \E p \in {"claimed", "invalid", "recover", "handback"} : Take(i, b, t, p)
    BY <1>4 DEF ClaimLane, TakeOver, RecoveryClaim, ClaimedAt
  <2> QED BY <1>1, <2>1, TakeProc
<1>5. CASE Environment
  <2>1. UNCHANGED procVars
    BY <1>5 DEF Environment, IssueWork, Enqueue, OperatorAbandon, LateRun, LoseCall,
          ReconcilerObserve, ReconcilerCommit, ReconcilerRefused, SetHold, PolicyTransition,
          ClearFatal
  <2> QED BY <1>2, <2>1
<1> QED BY <1>2, <1>3, <1>4, <1>5, AdvanceProc DEF OutboxNext, vars

(* Calls, runs, the reconciler's slot and the fault budget stay well typed. *)
LEMMA OutboxWorld == OutboxTypeOK /\ Busy /\ [OutboxNext]_vars => WorldTypeOK'
<1> SUFFICES ASSUME OutboxTypeOK, Busy, [OutboxNext]_vars PROVE WorldTypeOK'
  OBVIOUS
<1>1. WorldTypeOK
  BY DEF OutboxTypeOK, WorldTypeOK
<1> USE DEF WorldTypeOK, NodeTypeOK
<1>2. CASE UNCHANGED <<nodeVars, recon, faults>>
  BY <1>1, <1>2 DEF nodeVars
<1>3. CASE UNCHANGED <<nodeVars, recon>> /\ Charge
  BY SMTT(30), <1>1, <1>3 DEF nodeVars, Charge
<1>4. ASSUME NEW i \in Procs, Advance(i) PROVE WorldTypeOK'
  <2>1. CASE Send(i)
    BY SMTT(30), <1>1, <2>1 DEF Send, NoFault, Busy
  <2>2. CASE Answer(i)
    BY SMTT(30), <1>1, <2>2 DEF Answer, NoFault, Busy
  <2>3. CASE ~Send(i) /\ ~Answer(i)
    <3>1. Quiet /\ NoFault
      BY <1>4, <2>3 DEF Advance, Park, Start, ScreenPass, ScreenProbe, Adopt, Abandon, Reserve,
            ReserveSuperseded, ReserveBounded, Arm, ReleaseUnsent, RecordOffer, LandSkip, Rebuild,
            LandObserve, Land, SettleObserve, Finish, Orphan, RevisionRace, Reconcile, Recover,
            Release, HandBack, Refused
    <3> QED BY <1>2, <3>1 DEF Quiet, NoFault
  <2> QED BY <2>1, <2>2, <2>3
<1>5. ASSUME NEW i \in Procs, Disturb(i) PROVE WorldTypeOK'
  <2>1. CASE NotExecuted(i)
    BY SMTT(30), <1>1, <2>1 DEF NotExecuted, Charge
  <2>2. CASE ~NotExecuted(i)
    BY <1>3, <1>5, <2>2 DEF Disturb, CarryGateMoved, Timeout, Fail, LeaseLost, Shutdown, Crash,
          Quiet, nodeVars
  <2> QED BY <2>1, <2>2
<1>6. ASSUME NEW i \in Procs, NEW b \in Blocks, NEW t \in Tokens,
             ClaimLane(i, b, t) \/ TakeOver(i, b, t) \/ RecoveryClaim(i, b, t)
      PROVE  WorldTypeOK'
  BY <1>2, <1>3, <1>6 DEF ClaimLane, TakeOver, RecoveryClaim, Quiet, NoFault
<1>7. CASE Environment
  <2>1. ASSUME NEW c \in wire, LateRun(c) \/ LoseCall(c) PROVE WorldTypeOK'
    <3>1. c[1] \in Blocks
      BY <1>1, <2>1
    <3> QED BY SMTT(30), <1>1, <2>1, <3>1 DEF LateRun, LoseCall, NoFault
  <2>2. CASE ReconcilerObserve
    <3>1. revision' \in Nat
      BY OutboxLedger, LedgerTypeStep DEF OutboxTypeOK, LedgerTypeOK, AuthorityTypeOK
    <3>2. PoolBlocksForReconcile \in SUBSET Blocks
      BY DEF PoolBlocksForReconcile
    <3> QED BY SMTT(30), <1>1, <2>2, <3>1, <3>2 DEF ReconcilerObserve, NoFault, nodeVars
  <2>3. CASE ReconcilerCommit \/ ReconcilerRefused
    <3>1. NoRecon \in [on : BOOLEAN, tip : Tips, rev : Nat, seen : SUBSET Blocks]
      BY ChainAssumption DEF NoRecon
    <3>2. recon' = NoRecon /\ UNCHANGED nodeVars /\ NoFault
      BY <2>3 DEF ReconcilerCommit, ReconcilerRefused
    <3> QED BY <1>1, <3>1, <3>2 DEF NoFault, nodeVars
  <2>4. CASE \/ \E b \in Blocks : IssueWork(b) \/ Enqueue(b) \/ OperatorAbandon(b)
             \/ \E h \in BOOLEAN : SetHold(h)
             \/ PolicyTransition \/ ClearFatal
    BY <1>2, <1>3, <2>4 DEF IssueWork, Enqueue, OperatorAbandon, SetHold, PolicyTransition,
          ClearFatal, Quiet, NoFault
  <2> QED BY <1>7, <2>1, <2>2, <2>3, <2>4 DEF Environment
<1> QED BY <1>2, <1>4, <1>5, <1>6, <1>7 DEF OutboxNext, vars

(* The state stays well typed, whatever the processes and the node do. *)
THEOREM TypeCorrect == OutboxSpec => []OutboxTypeOK
<1>1. OutboxInit => OutboxTypeOK /\ Busy
  BY InitType
<1>2. (OutboxTypeOK /\ Busy) /\ [OutboxNext]_vars => (OutboxTypeOK /\ Busy)'
  BY OutboxLedger, LedgerTypeStep, OutboxProc, OutboxWorld DEF OutboxTypeOK, WorldTypeOK
<1> QED BY <1>1, <1>2, PTL DEF OutboxSpec

-----------------------------------------------------------------------------

(* Custody: who may still make the node run a block.  A committed block has  *)
(* one custodian, or one call on the wire, or has run, or none of the three; *)
(* an uncommitted block has none.                                            *)

CustodiansExclude ==
    \A i \in Procs, b \in Blocks : Custodian(i, b) =>
        /\ state[b] \notin Uncommitted
        /\ runs[b] = 0
        /\ \A c \in wire : c[1] # b
        /\ \A j \in Procs : Custodian(j, b) => j = i

CallsExclude ==
    \A c \in wire :
        /\ state[c[1]] \notin Uncommitted
        /\ runs[c[1]] = 0
        /\ \A d \in wire : d[1] = c[1] => d = c

RunsExclude ==
    \A b \in Blocks :
        /\ runs[b] <= 1
        /\ state[b] \in Uncommitted => runs[b] = 0

Custody == CustodiansExclude /\ CallsExclude /\ RunsExclude

(* A step that sends, runs and loses no call, makes nobody a custodian and *)
(* takes no commitment back.                                               *)
KeepsCustody ==
    /\ UNCHANGED nodeVars
    /\ \A j \in Procs, b \in Blocks : Custodian(j, b)' => Custodian(j, b)
    /\ \A b \in Blocks : state'[b] \in Uncommitted => state[b] \in Uncommitted

(* A step that moves nothing the custody invariant reads keeps it. *)
LEMMA KeepsCustodyInv == OutboxTypeOK /\ Custody /\ KeepsCustody => Custody'
<1> SUFFICES ASSUME OutboxTypeOK, Custody, KeepsCustody PROVE Custody'
  OBVIOUS
<1>1. CustodiansExclude'
  BY DEF Custody, CustodiansExclude, KeepsCustody, nodeVars
<1>2. CallsExclude'
  <2>1. \A c \in wire : c[1] \in Blocks
    BY DEF OutboxTypeOK, NodeTypeOK
  <2> QED BY <2>1 DEF Custody, CallsExclude, KeepsCustody, nodeVars
<1>3. RunsExclude'
  BY DEF Custody, RunsExclude, KeepsCustody, nodeVars
<1> QED BY <1>1, <1>2, <1>3 DEF Custody

(* Moves that make no custodian. *)
LEMMA StayCustody ==
    ASSUME ProcTypeOK, NEW i \in Procs, NEW p, Stay(i, p),
           p \notin {"reserved", "captured", "armed", "cleared", "unsent"}
    PROVE  \A j \in Procs, b \in Blocks : Custodian(j, b)' => Custodian(j, b)
BY DEF ProcTypeOK, Stay, Goto, Custodian

(* The end of an attempt gives up its custody and nothing else. *)
LEMMA DoneCustody ==
    ASSUME ProcTypeOK, NEW i \in Procs, Done(i)
    PROVE  \A j \in Procs, b \in Blocks :
             Custodian(j, b)' => Custodian(j, b) /\ j # i
BY DEF ProcTypeOK, Done, Goto, Custodian

(* An observation moves no row, call or custody. *)
LEMMA ObserveCustody ==
    ASSUME ProcTypeOK, NEW i \in Procs, NEW tip \in Tips, NEW p, Observe(i, tip, p),
           p \notin {"reserved", "captured", "armed", "cleared", "unsent"}
    PROVE  /\ \A j \in Procs, b \in Blocks : Custodian(j, b)' => Custodian(j, b)
           /\ UNCHANGED state
BY DEF ProcTypeOK, Observe, ObserveTx, Goto, Custodian, rowVars

(* Every step of an attempt keeps the custody invariant. *)
LEMMA AdvanceCustody ==
    ASSUME OutboxTypeOK, Busy, Custody, NEW i \in Procs, Advance(i)
    PROVE  Custody'
<1>1. ProcTypeOK /\ LedgerTypeOK /\ NodeTypeOK
  BY DEF OutboxTypeOK
<1>2. CASE KeepsCustody
  BY <1>2, KeepsCustodyInv
<1>3. CASE Park(i) \/ Release(i) \/ HandBack(i) \/ Finish(i)
  <2>1. Done(i) /\ Quiet
    BY <1>3 DEF Park, Release, HandBack, Finish
  <2>2. \A b \in Blocks : state'[b] \in Uncommitted => state[b] \in Uncommitted
    BY <1>1, <1>3 DEF Park, ParkTx, Release, ReleaseTx, HandBack, ReleaseRecoveryTx, Finish,
          FinishTx, Close, LedgerTypeOK, Uncommitted
  <2> QED BY <1>1, <1>2, <2>1, <2>2, DoneCustody DEF KeepsCustody, Quiet
<1>4. CASE Abandon(i) \/ Orphan(i) \/ Reconcile(i)
  <2>1. Done(i) /\ Quiet
    BY <1>4 DEF Abandon, Orphan, Reconcile
  <2>2. \A b \in Blocks : state'[b] \in Uncommitted => state[b] \in Uncommitted
    BY <1>1, <1>4 DEF Abandon, AbandonTx, Orphan, OrphanTx, Reconcile, ReconcileTx, Close,
          LedgerTypeOK, Uncommitted
  <2> QED BY <1>1, <1>2, <2>1, <2>2, DoneCustody DEF KeepsCustody, Quiet
<1>5. CASE Start(i) \/ ScreenPass(i) \/ Adopt(i) \/ RecordOffer(i) \/ LandSkip(i) \/ Rebuild(i)
  <2>1. Quiet /\ \E p : Stay(i, p) /\ p \notin {"reserved", "captured", "armed", "cleared", "unsent"}
    BY SMTT(30), <1>5, ErrorPlace DEF Start, ScreenPass, Adopt, RecordOffer, LandSkip, Rebuild
  <2>2. \A b \in Blocks : state'[b] \in Uncommitted => state[b] \in Uncommitted
    BY <1>1, <1>5 DEF Start, ScreenPass, Adopt, AdoptTx, RecordOffer, RecordOfferTx, LandSkip,
          Rebuild, LedgerTypeOK, Uncommitted, ledgerVars, rowVars
  <2> QED BY <1>1, <1>2, <2>1, <2>2, StayCustody DEF KeepsCustody, Quiet
<1>6. CASE ScreenProbe(i) \/ LandObserve(i) \/ SettleObserve(i) \/ Recover(i)
  <2>1. Quiet /\ \E tip \in Tips : \E p :
            /\ Observe(i, tip, p)
            /\ p \notin {"reserved", "captured", "armed", "cleared", "unsent"}
    BY SMTT(30), <1>6, ErrorPlace DEF ScreenProbe, LandObserve, SettleObserve, Recover
  <2> QED BY <1>1, <1>2, <2>1, ObserveCustody DEF KeepsCustody, Quiet
<1>7. CASE ReserveSuperseded(i) \/ Land(i)
  <2>1. Quiet /\ UNCHANGED <<state, blk>> /\ \E p \in {"bounding", "abandon", "settle"} : Goto(i, p)
    BY <1>7 DEF ReserveSuperseded, Land, LandTx, rowVars, ledgerVars
  <2>2. \A j \in Procs, b \in Blocks : Custodian(j, b)' => Custodian(j, b)
    BY <1>1, <2>1 DEF ProcTypeOK, Goto, Custodian
  <2> QED BY <1>2, <2>1, <2>2 DEF KeepsCustody, Quiet
<1>8. CASE RevisionRace(i) \/ Refused(i)
  <2>1. Quiet /\ UNCHANGED state
    BY <1>8 DEF RevisionRace, Refused, rowVars, ledgerVars
  <2>2. \A j \in Procs, b \in Blocks : Custodian(j, b)' => Custodian(j, b)
    BY <1>1, <1>8, ErrorPlace, StayCustody, DoneCustody
       DEF RevisionRace, Refused, ProcTypeOK, Goto, Custodian
  <2> QED BY <1>2, <2>1, <2>2 DEF KeepsCustody, Quiet
<1>9. CASE Arm(i)
  <2>1. \A j \in Procs, b \in Blocks : Custodian(j, b)' => Custodian(j, b)
    BY <1>1, <1>9 DEF Arm, Stay, Goto, ProcTypeOK, Custodian
  <2> QED BY <1>2, <1>9, <2>1 DEF Arm, KeepsCustody, Quiet, ledgerVars, rowVars
<1>10. CASE Reserve(i) \/ ReserveBounded(i)
  <2>1. CASE blk[i] \in Blocks /\ ReserveTx(blk[i], tok[i]) /\ \E p : Stay(i, p)
    <3>1. /\ state[blk[i]] = "pending" /\ state' = [state EXCEPT ![blk[i]] = "offer_reserved"]
          /\ UNCHANGED nodeVars
      BY <1>10, <2>1 DEF ReserveTx, Reserve, ReserveBounded, Quiet
    <3>2. \A j \in Procs, b \in Blocks : Custodian(j, b)' => Custodian(j, b) \/ (j = i /\ b = blk[i])
      BY <1>1, <2>1 DEF Stay, Goto, ProcTypeOK, Custodian
    <3>3. CustodiansExclude'
      <4>1. \A j \in Procs : ~Custodian(j, blk[i])
        BY <2>1, <3>1 DEF Custody, CustodiansExclude, Uncommitted
      <4>2. runs[blk[i]] = 0 /\ \A c \in wire : c[1] # blk[i]
        BY <2>1, <3>1 DEF Custody, CallsExclude, RunsExclude, Uncommitted
      <4>3. \A b \in Blocks : state'[b] = IF b = blk[i] THEN "offer_reserved" ELSE state[b]
        BY <1>1, <3>1 DEF LedgerTypeOK
      <4> QED BY SMTT(30), <2>1, <3>1, <3>2, <4>1, <4>2, <4>3
                 DEF Custody, CustodiansExclude, nodeVars, Uncommitted
    <3>4. CallsExclude' /\ RunsExclude'
      BY <1>1, <2>1, <3>1
         DEF Custody, CallsExclude, RunsExclude, nodeVars, LedgerTypeOK, NodeTypeOK, Uncommitted
    <3> QED BY <3>3, <3>4 DEF Custody
  <2>2. CASE UNCHANGED ledgerVars /\ Stay(i, "abandon") /\ Quiet
    BY <1>1, <1>2, <2>2, StayCustody DEF KeepsCustody, Quiet, ledgerVars, rowVars
  <2> QED BY <1>10, <2>1, <2>2 DEF Reserve, ReserveBounded, Busy
<1>11. CASE Send(i)
  <2>1. /\ blk[i] \in Blocks /\ tok[i] \in Tokens /\ Custodian(i, blk[i])
        /\ wire' = wire \union {<<blk[i], tok[i]>>} /\ UNCHANGED <<state, runs>>
    BY <1>11 DEF Send, Custodian, Busy, ledgerVars, rowVars
  <2>2. \A j \in Procs, b \in Blocks : Custodian(j, b)' => Custodian(j, b) /\ j # i
    BY <1>1, <1>11 DEF Send, Stay, Goto, ProcTypeOK, Custodian
  <2>3. CustodiansExclude'
    BY SMTT(30), <2>1, <2>2 DEF Custody, CustodiansExclude
  <2>4. CallsExclude'
    BY SMTT(30), <2>1 DEF Custody, CustodiansExclude, CallsExclude
  <2> QED BY <2>1, <2>3, <2>4 DEF Custody, RunsExclude
<1>12. CASE Answer(i)
  <2>1. /\ <<blk[i], tok[i]>> \in wire /\ wire' = wire \ {<<blk[i], tok[i]>>}
        /\ runs' = [runs EXCEPT ![blk[i]] = @ + 1] /\ UNCHANGED state /\ blk[i] \in Blocks
    BY <1>12 DEF Answer, Busy, ledgerVars, rowVars
  <2>2. \A j \in Procs, b \in Blocks : Custodian(j, b)' => Custodian(j, b)
    BY <1>1, <1>12 DEF Answer, Reply, Goto, ProcTypeOK, Custodian
  <2>3. CustodiansExclude'
    BY <1>1, <2>1, <2>2 DEF Custody, CustodiansExclude, NodeTypeOK
  <2>4. CallsExclude'
    BY <1>1, <2>1 DEF Custody, CallsExclude, NodeTypeOK
  <2>5. RunsExclude'
    BY SMTT(30), <1>1, <2>1 DEF Custody, RunsExclude, CallsExclude, NodeTypeOK
  <2> QED BY <2>3, <2>4, <2>5 DEF Custody
<1>13. CASE ReleaseUnsent(i)
  <2>1. /\ Custodian(i, blk[i]) /\ blk[i] \in Blocks /\ UNCHANGED nodeVars
        /\ state' = [state EXCEPT ![blk[i]] = "pending"]
    BY <1>13 DEF ReleaseUnsent, ReleaseUnsentTx, Custodian, Busy, Quiet
  <2>2. \A j \in Procs, b \in Blocks : Custodian(j, b)' => Custodian(j, b) /\ j # i
    BY <1>1, <1>13, DoneCustody DEF ReleaseUnsent
  <2>3. CustodiansExclude'
    BY SMTT(30), <1>1, <2>1, <2>2 DEF Custody, CustodiansExclude, nodeVars, LedgerTypeOK
  <2>4. CallsExclude' /\ RunsExclude'
    BY <1>1, <2>1 DEF Custody, CustodiansExclude, CallsExclude, RunsExclude, nodeVars,
          LedgerTypeOK, NodeTypeOK
  <2> QED BY <2>3, <2>4 DEF Custody
<1> QED BY <1>3, <1>4, <1>5, <1>6, <1>7, <1>8, <1>9, <1>10, <1>11, <1>12, <1>13 DEF Advance

(* A call that leaves the wire, run or lost, keeps the custody invariant. *)
LEMMA CallLeaves ==
    ASSUME OutboxTypeOK, Custody, NEW c \in wire, wire' = wire \ {c}, UNCHANGED state,
           \/ runs' = [runs EXCEPT ![c[1]] = @ + 1]
           \/ UNCHANGED runs,
           \A j \in Procs, b \in Blocks : Custodian(j, b)' => Custodian(j, b)
    PROVE  Custody'
<1>1. c[1] \in Blocks /\ NodeTypeOK
  BY DEF OutboxTypeOK, NodeTypeOK
<1>2. CustodiansExclude'
  BY SMTT(30), <1>1 DEF Custody, CustodiansExclude, NodeTypeOK
<1>3. CallsExclude'
  BY <1>1 DEF Custody, CallsExclude, NodeTypeOK
<1>4. RunsExclude'
  BY SMTT(30), <1>1 DEF Custody, RunsExclude, CallsExclude, NodeTypeOK
<1> QED BY <1>2, <1>3, <1>4 DEF Custody

(* Every fault keeps the custody invariant. *)
LEMMA DisturbCustody ==
    ASSUME OutboxTypeOK, Busy, Custody, NEW i \in Procs, Disturb(i)
    PROVE  Custody'
<1>1. ProcTypeOK /\ NodeTypeOK
  BY DEF OutboxTypeOK
<1>2. CASE NotExecuted(i)
  <2>1. /\ <<blk[i], tok[i]>> \in wire /\ wire' = wire \ {<<blk[i], tok[i]>>}
        /\ UNCHANGED <<state, runs>> /\ blk[i] \in Blocks
    BY <1>2 DEF NotExecuted, Busy, ledgerVars, rowVars
  <2>2. \A j \in Procs, b \in Blocks : Custodian(j, b)' => Custodian(j, b) \/ (j = i /\ b = blk[i])
    BY <1>1, <1>2 DEF NotExecuted, Stay, Goto, ProcTypeOK, Custodian
  <2>3. CustodiansExclude'
    BY SMTT(30), <1>1, <2>1, <2>2 DEF Custody, CustodiansExclude, CallsExclude, NodeTypeOK
  <2>4. CallsExclude' /\ RunsExclude'
    BY <1>1, <2>1 DEF Custody, CallsExclude, RunsExclude, NodeTypeOK
  <2> QED BY <2>3, <2>4 DEF Custody
<1>3. CASE CarryGateMoved(i)
  <2>1. \A j \in Procs, b \in Blocks : Custodian(j, b)' => Custodian(j, b)
    BY <1>1, <1>3 DEF CarryGateMoved, Stay, Goto, ProcTypeOK, Custodian
  <2> QED BY <1>3, <2>1, KeepsCustodyInv
          DEF CarryGateMoved, KeepsCustody, Quiet, ledgerVars, rowVars
<1>4. CASE Timeout(i)
  <2>1. \A j \in Procs, b \in Blocks : Custodian(j, b)' => Custodian(j, b)
    BY <1>1, <1>4 DEF Timeout, Reply, Goto, ProcTypeOK, Custodian
  <2> QED BY <1>4, <2>1, KeepsCustodyInv DEF Timeout, KeepsCustody, ledgerVars, rowVars, nodeVars
<1>5. CASE Fail(i) \/ LeaseLost(i) \/ Shutdown(i) \/ Crash(i)
  <2>1. \A j \in Procs, b \in Blocks : Custodian(j, b)' => Custodian(j, b)
    BY <1>1, <1>5, ErrorPlace, StayCustody, DoneCustody DEF Fail, LeaseLost, Shutdown, Crash
  <2> QED BY <1>5, <2>1, KeepsCustodyInv
          DEF Fail, LeaseLost, Shutdown, Crash, KeepsCustody, Quiet, ledgerVars, rowVars
<1> QED BY <1>2, <1>3, <1>4, <1>5 DEF Disturb

(* The node, the reconciler and the operator keep the custody invariant. *)
LEMMA EnvironmentCustody ==
    ASSUME OutboxTypeOK, Busy, Custody, Environment
    PROVE  Custody'
<1>1. UNCHANGED procVars
  BY DEF Environment, IssueWork, Enqueue, OperatorAbandon, LateRun, LoseCall,
        ReconcilerObserve, ReconcilerCommit, ReconcilerRefused, SetHold, PolicyTransition,
        ClearFatal
<1>2. \A j \in Procs, b \in Blocks : Custodian(j, b)' => Custodian(j, b)
  BY <1>1 DEF procVars, Custodian
<1>3. CASE \E c \in wire : LateRun(c) \/ LoseCall(c)
  BY <1>2, <1>3, CallLeaves DEF LateRun, LoseCall, ledgerVars, rowVars
<1>4. CASE \E b \in Blocks : IssueWork(b) \/ Enqueue(b) \/ OperatorAbandon(b)
  <2>1. UNCHANGED nodeVars
    BY <1>4 DEF IssueWork, Enqueue, OperatorAbandon, Quiet
  <2>2. \A b \in Blocks : state'[b] \in Uncommitted => state[b] \in Uncommitted
    BY <1>4 DEF IssueWork, IssueTx, Enqueue, EnqueueTx, OperatorAbandon, OperatorAbandonTx, Close,
          OutboxTypeOK, LedgerTypeOK, Uncommitted
  <2> QED BY <1>2, <2>1, <2>2, KeepsCustodyInv DEF KeepsCustody
<1>5. CASE PolicyTransition
  <2>1. \A b \in Blocks : state'[b] \in Uncommitted => state[b] \in Uncommitted
    BY <1>5 DEF PolicyTransition, PolicyTransitionTx, Uncommitted
  <2> QED BY <1>2, <1>5, <2>1, KeepsCustodyInv DEF KeepsCustody, PolicyTransition, Quiet
<1>6. CASE \/ ReconcilerObserve \/ ReconcilerCommit \/ ReconcilerRefused
           \/ \E h \in BOOLEAN : SetHold(h)
           \/ ClearFatal
  <2>1. UNCHANGED nodeVars
    BY <1>6 DEF ReconcilerObserve, ReconcilerCommit, ReconcilerRefused, SetHold, ClearFatal, Quiet
  <2>2. UNCHANGED rowVars
    BY <1>6 DEF ReconcilerObserve, ReconcilerCommit, ReconcilerRefused, SetHold, ClearFatal,
          ObserveTx, ObserveTransitionTx, ReconcileBlocksTx, ReconcileBlocks, ClearFatalTx,
          SetHoldTx, ledgerVars
  <2> QED BY <1>2, <2>1, <2>2, KeepsCustodyInv DEF KeepsCustody, rowVars
<1> QED BY <1>3, <1>4, <1>5, <1>6 DEF Environment

(* The custody invariant is inductive. *)
LEMMA OutboxCustody == OutboxTypeOK /\ Busy /\ Custody /\ [OutboxNext]_vars => Custody'
<1> SUFFICES ASSUME OutboxTypeOK, Busy, Custody, [OutboxNext]_vars PROVE Custody'
  OBVIOUS
<1>1. CASE UNCHANGED vars
  BY <1>1, KeepsCustodyInv DEF vars, ledgerVars, rowVars, procVars, KeepsCustody, Custodian
<1>2. ASSUME NEW i \in Procs, NEW b \in Blocks, NEW t \in Tokens,
             ClaimLane(i, b, t) \/ TakeOver(i, b, t) \/ RecoveryClaim(i, b, t)
      PROVE  Custody'
  <2>1. Quiet /\ UNCHANGED state
    BY <1>2 DEF ClaimLane, TakeOver, RecoveryClaim, ClaimTx, RecoveryClaimTx
  <2>2. \E p \in {"claimed", "invalid", "recover", "handback"} : Take(i, b, t, p)
    BY <1>2 DEF ClaimLane, TakeOver, RecoveryClaim, ClaimedAt
  <2>3. \A j \in Procs, c \in Blocks : Custodian(j, c)' => Custodian(j, c)
    BY <2>2 DEF Take, Goto, OutboxTypeOK, ProcTypeOK, Custodian
  <2> QED BY <2>1, <2>3, KeepsCustodyInv DEF KeepsCustody, Quiet
<1> QED BY <1>1, <1>2, AdvanceCustody, DisturbCustody, EnvironmentCustody DEF OutboxNext

(* The inductive invariant of the offer. *)
Inv == OutboxTypeOK /\ Busy /\ Custody

(* Types, busy processes and custody hold in every reachable state. *)
LEMMA InvHolds == OutboxSpec => []Inv
<1>1. OutboxInit => Custody
  BY SMTT(30) DEF OutboxInit, LedgerInit, Custody, CustodiansExclude, CallsExclude, RunsExclude,
        Custodian, Uncommitted
<1>2. OutboxInit => Inv
  BY <1>1, InitType DEF Inv
<1>3. Inv /\ [OutboxNext]_vars => Inv'
  BY OutboxLedger, LedgerTypeStep, OutboxProc, OutboxWorld, OutboxCustody
     DEF Inv, OutboxTypeOK, WorldTypeOK
<1> QED BY <1>2, <1>3, PTL DEF OutboxSpec

(* The node never runs submitblock twice for a block, however many          *)
(* frontends, takeovers, crashes and late calls there are.                  *)
THEOREM AtMostOneOffer == OutboxSpec => []OfferedAtMostOnce
<1>1. Inv => OfferedAtMostOnce
  BY DEF Inv, Custody, RunsExclude, OfferedAtMostOnce
<1> QED BY <1>1, InvHolds, PTL

(* A pending or abandoned row has never been offered and never will be by a *)
(* call already made.                                                       *)
THEOREM UncommittedIsSafe == OutboxSpec => []UncommittedNeverRuns
<1>1. Inv => UncommittedNeverRuns
  BY DEF Inv, Custody, RunsExclude, CallsExclude, UncommittedNeverRuns
<1> QED BY <1>1, InvHolds, PTL

(***************************************************************************)
(* CandidateOutbox implements OfferLifecycle.  A row's state gives the     *)
(* phase; a block is armed while a process has custody of it or a call for *)
(* it is on the wire.  The custody invariant makes both sides agree: a     *)
(* process that drops its custody disarms the block, because nobody else   *)
(* and no call can still run it.                                           *)
(***************************************************************************)
OfferStep == [Offer!OfferNext]_(Offer!offerVars)

(* The mapped `armed` is Boolean. *)
LEMMA ArmedBool ==
    ASSUME NEW b PROVE ArmedOf(b) \in BOOLEAN /\ ArmedOf(b)' \in BOOLEAN
BY DEF ArmedOf

(* Where nothing that the mapping sees changes, the step stutters. *)
LEMMA Stutters ==
    ASSUME UNCHANGED runs,
           \A b \in Blocks : PhaseOf(b)' = PhaseOf(b),
           \A b \in Blocks : ArmedOf(b)' = ArmedOf(b)
    PROVE  OfferStep
BY DEF OfferStep, Offer!offerVars

(* Everybody but i keeps what custody they had. *)
OthersKeep(i) ==
    \A j \in Procs, b \in Blocks : j # i => (Custodian(j, b)' <=> Custodian(j, b))

(* A process that ends up with no custody loses the offer it had, if any. *)
LEMMA MoveOff ==
    ASSUME OutboxTypeOK, Busy, Custody, NEW i \in Procs, OthersKeep(i), UNCHANGED nodeVars,
           \A b \in Blocks : ~Custodian(i, b)',
           \A b \in Blocks : PhaseOf(b)' = PhaseOf(b)
    PROVE  OfferStep
<1>1. CASE \A b \in Blocks : ~Custodian(i, b)
  <2>1. \A b \in Blocks : ArmedOf(b)' = ArmedOf(b)
    BY <1>1 DEF ArmedOf, OthersKeep, nodeVars
  <2> QED BY <2>1, Stutters DEF nodeVars
<1>2. ASSUME NEW b \in Blocks, Custodian(i, b) PROVE OfferStep
  <2>1. ArmedOf(b) /\ ~ArmedOf(b)'
    BY <1>2 DEF ArmedOf, OthersKeep, nodeVars, Custody, CustodiansExclude
  <2>2. \A c \in Blocks \ {b} : ArmedOf(c)' = ArmedOf(c)
    <3>1. \A c \in Blocks \ {b} : ~Custodian(i, c)
      BY <1>2 DEF Custodian
    <3> QED BY <3>1 DEF ArmedOf, OthersKeep, nodeVars
  <2>3. [d \in Blocks |-> ArmedOf(d)'] = [[d \in Blocks |-> ArmedOf(d)] EXCEPT ![b] = FALSE]
    BY <2>1, <2>2, ArmedBool
  <2>4. Offer!LoseOffer(b)
    BY <2>1, <2>3, ArmedBool DEF Offer!LoseOffer, nodeVars
  <2> QED BY <2>4 DEF OfferStep, Offer!OfferNext
<1> QED BY <1>1, <1>2

(* Nobody but the process that moves gains or loses custody. *)
LEMMA OnlyMover ==
    ASSUME ProcTypeOK, NEW i \in Procs, NEW p, Goto(i, p),
           \A j \in Procs \ {i} : blk'[j] = blk[j]
    PROVE  OthersKeep(i)
BY DEF ProcTypeOK, Goto, OthersKeep, Custodian

(* Places outside the offer boundary have no custody. *)
LEMMA NoCustodyAt ==
    ASSUME ProcTypeOK, NEW i \in Procs, NEW p, Goto(i, p),
           p \notin {"reserved", "captured", "armed", "cleared", "unsent"}
    PROVE  \A b \in Blocks : ~Custodian(i, b)'
BY DEF ProcTypeOK, Goto, Custodian

(* The moves that leave a process without custody. *)
LEMMA StayOff ==
    ASSUME ProcTypeOK, NEW i \in Procs, NEW p, Stay(i, p),
           p \notin {"reserved", "captured", "armed", "cleared", "unsent"}
    PROVE  OthersKeep(i) /\ \A b \in Blocks : ~Custodian(i, b)'
BY OnlyMover, NoCustodyAt DEF Stay

(* The end of an attempt leaves it without custody. *)
LEMMA DoneOff ==
    ASSUME ProcTypeOK, NEW i \in Procs, Done(i)
    PROVE  OthersKeep(i) /\ \A b \in Blocks : ~Custodian(i, b)'
<1>1. \A j \in Procs \ {i} : blk'[j] = blk[j]
  BY DEF ProcTypeOK, Done
<1> QED BY <1>1, OnlyMover, NoCustodyAt DEF Done

(* The decision of one undecided block. *)
LEMMA Decides ==
    ASSUME LedgerTypeOK, NEW b \in Blocks, NEW s \in {"offer_reserved", "reconciliation", "abandoned"},
           state[b] = "pending", state' = [state EXCEPT ![b] = s]
    PROVE  /\ PhaseOf(b) = "undecided"
           /\ PhaseOf(b)' = IF s = "abandoned" THEN "withdrawn" ELSE "committed"
           /\ \A c \in Blocks \ {b} : PhaseOf(c)' = PhaseOf(c)
BY DEF PhaseOf, LedgerTypeOK

(* A call that runs is the block's one offer. *)
LEMMA RunsOffer ==
    ASSUME OutboxTypeOK, Custody, NEW c \in wire, wire' = wire \ {c},
           runs' = [runs EXCEPT ![c[1]] = @ + 1], UNCHANGED state,
           \A j \in Procs, b \in Blocks : Custodian(j, b)' <=> Custodian(j, b)
    PROVE  OfferStep
<1> DEFINE b == c[1]
<1>1. b \in Blocks /\ runs \in [Blocks -> Nat]
  BY DEF OutboxTypeOK, NodeTypeOK
<1>2. ArmedOf(b) /\ ~ArmedOf(b)'
  BY <1>1 DEF ArmedOf, Custody, CustodiansExclude, CallsExclude
<1>3. \A d \in Blocks \ {b} : ArmedOf(d)' = ArmedOf(d)
  BY DEF ArmedOf
<1>4. runs[b] = 0
  BY DEF Custody, CallsExclude
<1>5. PhaseOf(b) = "committed"
  BY <1>1 DEF PhaseOf, Custody, CallsExclude, Uncommitted
<1>6. \A d \in Blocks : PhaseOf(d)' = PhaseOf(d)
  BY DEF PhaseOf
<1>7. runs' = [runs EXCEPT ![b] = 1]
  BY SMTT(30), <1>1, <1>4
<1>8. [d \in Blocks |-> ArmedOf(d)'] = [[d \in Blocks |-> ArmedOf(d)] EXCEPT ![b] = FALSE]
  BY <1>1, <1>2, <1>3, ArmedBool
<1>9. Offer!RunOffer(b)
  <2> HIDE DEF b
  <2> QED BY <1>1, <1>2, <1>4, <1>5, <1>6, <1>7, <1>8 DEF Offer!RunOffer
<1> QED BY <1>1, <1>9 DEF OfferStep, Offer!OfferNext

(* One block is accepted as the chain has it. *)
LEMMA Accepts ==
    ASSUME UNCHANGED runs, NEW b \in Blocks,
           PhaseOf(b) = "undecided", PhaseOf(b)' = "committed",
           \A c \in Blocks \ {b} : PhaseOf(c)' = PhaseOf(c),
           \A c \in Blocks : ArmedOf(c)' = ArmedOf(c)
    PROVE  OfferStep
<1>1. [d \in Blocks |-> PhaseOf(d)'] = [[d \in Blocks |-> PhaseOf(d)] EXCEPT ![b] = "committed"]
  OBVIOUS
<1>2. Offer!Accept(b)
  BY <1>1 DEF Offer!Accept
<1> QED BY <1>2 DEF OfferStep, Offer!OfferNext

(* Undecided blocks are given up. *)
LEMMA Withdraws ==
    ASSUME UNCHANGED runs,
           \A b \in Blocks : \/ PhaseOf(b)' = PhaseOf(b)
                             \/ PhaseOf(b) = "undecided" /\ PhaseOf(b)' = "withdrawn",
           \A b \in Blocks : ArmedOf(b)' = ArmedOf(b)
    PROVE  OfferStep
<1> DEFINE bs == {b \in Blocks : PhaseOf(b) = "undecided" /\ PhaseOf(b)' = "withdrawn"}
<1>1. CASE bs = {}
  BY <1>1, Stutters
<1>2. CASE bs # {}
  <2>1. [d \in Blocks |-> PhaseOf(d)'] =
          [d \in Blocks |-> IF d \in bs THEN "withdrawn" ELSE [e \in Blocks |-> PhaseOf(e)][d]]
    OBVIOUS
  <2>2. Offer!Withdraw(bs)
    BY <1>2, <2>1 DEF Offer!Withdraw
  <2>3. bs \in SUBSET Blocks
    OBVIOUS
  <2> QED BY <2>2, <2>3 DEF OfferStep, Offer!OfferNext
<1> QED BY <1>1, <1>2

(* A reservation commits its block and takes custody of it. *)
LEMMA Commits ==
    ASSUME UNCHANGED runs, NEW b \in Blocks,
           PhaseOf(b) = "undecided", PhaseOf(b)' = "committed",
           \A c \in Blocks \ {b} : PhaseOf(c)' = PhaseOf(c),
           ArmedOf(b)', \A c \in Blocks \ {b} : ArmedOf(c)' = ArmedOf(c)
    PROVE  OfferStep
<1>1. [d \in Blocks |-> PhaseOf(d)'] = [[d \in Blocks |-> PhaseOf(d)] EXCEPT ![b] = "committed"]
  OBVIOUS
<1>2. [d \in Blocks |-> ArmedOf(d)'] = [[d \in Blocks |-> ArmedOf(d)] EXCEPT ![b] = TRUE]
  BY ArmedBool
<1>3. Offer!Commit(b)
  BY <1>1, <1>2 DEF Offer!Commit
<1> QED BY <1>3 DEF OfferStep, Offer!OfferNext

(* Every step of an attempt maps to a step of the offer lifecycle or a stutter. *)
LEMMA AdvanceOffer ==
    ASSUME OutboxTypeOK, Busy, Custody, NEW i \in Procs, Advance(i)
    PROVE  OfferStep
<1>1. ProcTypeOK /\ LedgerTypeOK /\ NodeTypeOK
  BY DEF OutboxTypeOK
<1>2. pc[i] # "idle" => blk[i] \in Blocks /\ tok[i] \in Tokens
  BY DEF Busy
<1>3. ASSUME UNCHANGED <<state, nodeVars>>, OthersKeep(i), \A b \in Blocks : ~Custodian(i, b)'
      PROVE  OfferStep
  BY <1>3, MoveOff DEF PhaseOf
<1>4. CASE Park(i) \/ Release(i) \/ HandBack(i)
  BY <1>1, <1>3, <1>4, DoneOff
       DEF Park, ParkTx, Release, ReleaseTx, HandBack, ReleaseRecoveryTx, Quiet
<1>5. CASE Orphan(i) \/ Reconcile(i)
  <2>1. \A b \in Blocks : PhaseOf(b)' = PhaseOf(b)
    BY <1>1, <1>2, <1>5 DEF Orphan, OrphanTx, Close, Reconcile, ReconcileTx, LedgerTypeOK, PhaseOf,
          OfferedStates
  <2>2. Done(i) /\ UNCHANGED nodeVars
    BY <1>5 DEF Orphan, Reconcile, Quiet
  <2> QED BY <1>1, <2>1, <2>2, DoneOff, MoveOff
<1>6. ASSUME UNCHANGED nodeVars, OthersKeep(i), \A b \in Blocks : ~Custodian(i, b),
             \A b \in Blocks : ~Custodian(i, b)'
      PROVE  \A b \in Blocks : ArmedOf(b)' = ArmedOf(b)
  BY <1>6 DEF ArmedOf, OthersKeep, nodeVars
<1>7. CASE Finish(i)
  <2>1. PICK b \in Blocks :
          /\ Done(i) /\ UNCHANGED nodeVars /\ state[b] \in Unfinished
          /\ state' = [state EXCEPT ![b] = "submitted"]
    BY <1>2, <1>7 DEF Finish, FinishTx, Close, Holds, Quiet
  <2>2. \A c \in Blocks : ArmedOf(c)' = ArmedOf(c)
    <3>1. \A c \in Blocks : ~Custodian(i, c)
      BY <1>7 DEF Finish, Custodian
    <3> QED BY <1>1, <1>6, <2>1, <3>1, DoneOff
  <2>3. /\ PhaseOf(b)' = "committed" /\ PhaseOf(b) \in {"undecided", "committed"}
        /\ \A c \in Blocks \ {b} : PhaseOf(c)' = PhaseOf(c)
    BY <1>1, <2>1 DEF PhaseOf, LedgerTypeOK, Unfinished, OfferedStates
  <2>4. CASE PhaseOf(b) = "undecided"
    BY <2>1, <2>2, <2>3, <2>4, Accepts DEF nodeVars
  <2>5. CASE PhaseOf(b) = "committed"
    BY <2>1, <2>2, <2>3, <2>5, Stutters DEF nodeVars
  <2> QED BY <2>3, <2>4, <2>5
<1>8. CASE Abandon(i) \/ Adopt(i)
  <2>1. \A c \in Blocks : ArmedOf(c)' = ArmedOf(c)
    <3>1. \A c \in Blocks : ~Custodian(i, c)
      BY <1>8 DEF Abandon, Adopt, Custodian
    <3>2. OthersKeep(i) /\ \A c \in Blocks : ~Custodian(i, c)'
      BY <1>1, <1>8, DoneOff, StayOff DEF Abandon, Adopt
    <3>3. UNCHANGED nodeVars
      BY <1>8 DEF Abandon, Adopt, Quiet
    <3> QED BY <1>6, <3>1, <3>2, <3>3
  <2>2. PICK b \in Blocks, s \in {"abandoned", "reconciliation"} :
          /\ state[b] = "pending" /\ UNCHANGED nodeVars
          /\ state' = [state EXCEPT ![b] = s]
    BY <1>2, <1>8 DEF Abandon, AbandonTx, Close, Adopt, AdoptTx, Quiet
  <2>3. CASE s = "abandoned"
    BY <1>1, <2>1, <2>2, <2>3, Decides, Withdraws DEF nodeVars
  <2>4. CASE s = "reconciliation"
    BY <1>1, <2>1, <2>2, <2>4, Decides, Accepts DEF nodeVars
  <2> QED BY <2>3, <2>4
<1>9. CASE ReleaseUnsent(i)
  <2>1. PICK b \in Blocks :
          /\ Custodian(i, b) /\ UNCHANGED nodeVars /\ Done(i)
          /\ state[b] = "offer_reserved" /\ state' = [state EXCEPT ![b] = "pending"]
    BY <1>2, <1>9 DEF ReleaseUnsent, ReleaseUnsentTx, Custodian, Quiet
  <2>2. OthersKeep(i) /\ \A c \in Blocks : ~Custodian(i, c)'
    BY <1>1, <2>1, DoneOff
  <2>3. ArmedOf(b) /\ ~ArmedOf(b)'
    BY <2>1, <2>2 DEF ArmedOf, OthersKeep, nodeVars, Custody, CustodiansExclude
  <2>4. \A c \in Blocks \ {b} : ArmedOf(c)' = ArmedOf(c)
    <3>1. \A c \in Blocks \ {b} : ~Custodian(i, c)
      BY <2>1 DEF Custodian
    <3> QED BY <2>1, <2>2, <3>1 DEF ArmedOf, OthersKeep, nodeVars
  <2>5. runs[b] = 0
    BY <2>1 DEF Custody, CustodiansExclude
  <2>6. /\ PhaseOf(b) = "committed" /\ PhaseOf(b)' = "undecided"
        /\ \A c \in Blocks \ {b} : PhaseOf(c)' = PhaseOf(c)
    BY <1>1, <2>1 DEF PhaseOf, LedgerTypeOK
  <2>7. [d \in Blocks |-> PhaseOf(d)'] = [[d \in Blocks |-> PhaseOf(d)] EXCEPT ![b] = "undecided"]
    BY <2>6
  <2>8. [d \in Blocks |-> ArmedOf(d)'] = [[d \in Blocks |-> ArmedOf(d)] EXCEPT ![b] = FALSE]
    BY <2>3, <2>4, ArmedBool
  <2>9. Offer!TakeBack(b)
    BY <2>1, <2>3, <2>5, <2>6, <2>7, <2>8 DEF Offer!TakeBack, nodeVars
  <2> QED BY <2>9 DEF OfferStep, Offer!OfferNext
<1>10. CASE Reserve(i) \/ ReserveBounded(i)
  <2>1. CASE /\ blk[i] \in Blocks /\ ReserveTx(blk[i], tok[i])
             /\ \E p \in {"reserved", "captured"} : Stay(i, p)
    <3>1. PICK b \in Blocks :
            /\ b = blk[i] /\ UNCHANGED <<nodeVars, blk>>
            /\ state[b] = "pending" /\ state' = [state EXCEPT ![b] = "offer_reserved"]
      BY <1>10, <2>1 DEF ReserveTx, Reserve, ReserveBounded, Quiet, Stay
    <3>2. OthersKeep(i) /\ Custodian(i, b)'
      BY <1>1, <2>1, <3>1, OnlyMover DEF Stay, Goto, ProcTypeOK, Custodian
    <3>3. ArmedOf(b)'
      BY <3>2 DEF ArmedOf
    <3>4. \A c \in Blocks \ {b} : ArmedOf(c)' = ArmedOf(c)
      <4>1. \A c \in Blocks \ {b} : ~Custodian(i, c) /\ ~Custodian(i, c)'
        BY <3>1 DEF Custodian
      <4> QED BY <3>1, <3>2, <4>1 DEF ArmedOf, OthersKeep, nodeVars
    <3>5. /\ PhaseOf(b) = "undecided" /\ PhaseOf(b)' = "committed"
          /\ \A c \in Blocks \ {b} : PhaseOf(c)' = PhaseOf(c)
      BY <1>1, <3>1, Decides
    <3> QED BY <3>1, <3>3, <3>4, <3>5, Commits DEF nodeVars
  <2>2. CASE UNCHANGED ledgerVars /\ Stay(i, "abandon") /\ Quiet
    BY <1>1, <1>3, <2>2, StayOff DEF Quiet, ledgerVars, rowVars
  <2> QED BY <1>2, <1>10, <2>1, <2>2 DEF Reserve, ReserveBounded
<1>11. CASE RecordOffer(i)
  <2>1. \A b \in Blocks : PhaseOf(b)' = PhaseOf(b)
    BY <1>1, <1>2, <1>11 DEF RecordOffer, RecordOfferTx, LedgerTypeOK, PhaseOf
  <2> QED BY <1>1, <1>11, <2>1, StayOff, MoveOff DEF RecordOffer, Quiet
<1>12. CASE Start(i) \/ ScreenPass(i) \/ LandSkip(i) \/ Rebuild(i)
  <2>1. /\ UNCHANGED <<state, nodeVars>>
        /\ \E p : Stay(i, p) /\ p \notin {"reserved", "captured", "armed", "cleared", "unsent"}
    BY SMTT(30), <1>12, ErrorPlace
         DEF Start, ScreenPass, LandSkip, Rebuild, Quiet, ledgerVars, rowVars
  <2> QED BY <1>1, <1>3, <2>1, StayOff
<1>13. CASE \/ ScreenProbe(i) \/ LandObserve(i) \/ SettleObserve(i) \/ Recover(i)
            \/ ReserveSuperseded(i) \/ Land(i) \/ RevisionRace(i)
  <2>1. UNCHANGED <<state, nodeVars, blk>>
    BY <1>13 DEF ScreenProbe, LandObserve, SettleObserve, Recover, Observe, ObserveTx,
          ReserveSuperseded, Land, LandTx, RevisionRace, Stay, Quiet, ledgerVars, rowVars
  <2>2. \E p \in {"adopt", "abandon", "reserve", "landing", "settling", "handback", "land", "bounding",
                  "settle", "verified", OnError(i)} : Goto(i, p)
    BY <1>13 DEF ScreenProbe, LandObserve, SettleObserve, Recover, Observe, ReserveSuperseded,
          Land, RevisionRace, Stay
  <2> QED BY <1>1, <1>3, <2>1, <2>2, ErrorPlace, OnlyMover, NoCustodyAt
<1>14. CASE Refused(i)
  <2>1. UNCHANGED <<state, nodeVars>>
    BY <1>14 DEF Refused, Quiet, ledgerVars, rowVars
  <2> QED BY <1>1, <1>3, <1>14, <2>1, ErrorPlace, DoneOff, StayOff DEF Refused
<1>15. CASE Arm(i)
  <2>1. OthersKeep(i) /\ \A b \in Blocks : Custodian(i, b)' <=> Custodian(i, b)
    BY <1>1, <1>15, OnlyMover DEF Arm, Stay, Goto, ProcTypeOK, Custodian
  <2>2. \A b \in Blocks : ArmedOf(b)' = ArmedOf(b)
    BY <1>15, <2>1 DEF ArmedOf, OthersKeep, Arm, Quiet, nodeVars
  <2> QED BY <1>15, <2>2, Stutters DEF Arm, Quiet, nodeVars, ledgerVars, rowVars, PhaseOf
<1>16. CASE Send(i)
  <2>1. PICK b \in Blocks, t \in Tokens : Custodian(i, b) /\ wire' = wire \union {<<b, t>>}
    BY <1>1, <1>2, <1>16 DEF Send, Custodian
  <2>2. OthersKeep(i) /\ \A c \in Blocks : ~Custodian(i, c)'
    BY <1>1, <1>16, StayOff DEF Send
  <2>3. \A c \in Blocks : ArmedOf(c)' = ArmedOf(c)
    <3>1. ArmedOf(b) /\ ArmedOf(b)'
      <4>1. <<b, t>> \in wire' /\ <<b, t>>[1] = b
        BY <2>1
      <4>2. \E c \in wire' : c[1] = b
        BY <4>1
      <4> QED BY <2>1, <4>2 DEF ArmedOf
    <3>2. \A c \in Blocks \ {b} : ~Custodian(i, c)
      BY <2>1 DEF Custodian
    <3>3. \A c \in Blocks \ {b} : (\E d \in wire' : d[1] = c) <=> (\E d \in wire : d[1] = c)
      BY SMTT(30), <2>1
    <3>4. \A c \in Blocks \ {b} : ArmedOf(c)' = ArmedOf(c)
      BY <2>2, <3>2, <3>3 DEF ArmedOf, OthersKeep
    <3> QED BY <3>1, <3>4, ArmedBool
  <2> QED BY <1>16, <2>3, Stutters DEF Send, ledgerVars, rowVars, PhaseOf
<1>17. CASE Answer(i)
  <2>1. \A j \in Procs, b \in Blocks : Custodian(j, b)' <=> Custodian(j, b)
    BY <1>1, <1>17 DEF Answer, Reply, Goto, ProcTypeOK, Custodian
  <2> QED BY <1>17, <2>1, RunsOffer DEF Answer, ledgerVars, rowVars
<1> QED BY <1>4, <1>5, <1>7, <1>8, <1>9, <1>10, <1>11, <1>12, <1>13, <1>14, <1>15,
           <1>16, <1>17 DEF Advance

(* Every fault maps to a lost offer or to nothing: a lost lease, a shutdown, *)
(* an error or a crash gives up the custody the attempt had, and a call that *)
(* was provably not run passes from the wire back to its sender.             *)
LEMMA DisturbOffer ==
    ASSUME OutboxTypeOK, Busy, Custody, NEW i \in Procs, Disturb(i)
    PROVE  OfferStep
<1>1. ProcTypeOK /\ NodeTypeOK /\ UNCHANGED state
  BY DEF OutboxTypeOK, Disturb, CarryGateMoved, NotExecuted, Timeout, Fail, LeaseLost, Shutdown,
         Crash, ledgerVars, rowVars
<1>2. \A b \in Blocks : PhaseOf(b)' = PhaseOf(b)
  BY <1>1 DEF PhaseOf
<1>3. CASE Fail(i) \/ LeaseLost(i) \/ Shutdown(i) \/ Crash(i)
  <2>1. OthersKeep(i) /\ \A b \in Blocks : ~Custodian(i, b)'
    BY <1>1, <1>3, ErrorPlace, StayOff, DoneOff DEF Fail, LeaseLost, Shutdown, Crash
  <2> QED BY <1>2, <1>3, <2>1, MoveOff DEF Fail, LeaseLost, Shutdown, Crash, Quiet
<1>4. CASE CarryGateMoved(i)
  <2>1. \A j \in Procs, b \in Blocks : Custodian(j, b)' <=> Custodian(j, b)
    BY <1>1, <1>4 DEF CarryGateMoved, Stay, Goto, ProcTypeOK, Custodian
  <2>2. \A b \in Blocks : ArmedOf(b)' = ArmedOf(b)
    BY <1>4, <2>1 DEF ArmedOf, CarryGateMoved, Quiet, nodeVars
  <2> QED BY <1>2, <1>4, <2>2, Stutters DEF CarryGateMoved, Quiet, nodeVars
<1>5. CASE Timeout(i)
  <2>1. \A j \in Procs, b \in Blocks : Custodian(j, b)' <=> Custodian(j, b)
    BY <1>1, <1>5 DEF Timeout, Reply, Goto, ProcTypeOK, Custodian
  <2>2. \A b \in Blocks : ArmedOf(b)' = ArmedOf(b)
    BY <1>5, <2>1 DEF ArmedOf, Timeout, nodeVars
  <2> QED BY <1>2, <1>5, <2>2, Stutters DEF Timeout, nodeVars
<1>6. CASE NotExecuted(i)
  <2>1. PICK b \in Blocks, t \in Tokens :
          b = blk[i] /\ <<b, t>> \in wire /\ wire' = wire \ {<<b, t>>}
    BY <1>1, <1>6 DEF NotExecuted, NodeTypeOK
  <2>2. OthersKeep(i) /\ Custodian(i, b)'
    BY <1>1, <1>6, <2>1, OnlyMover DEF NotExecuted, Stay, Goto, ProcTypeOK, Custodian
  <2>3. ArmedOf(b) /\ ArmedOf(b)'
    <3>1. \E c \in wire : c[1] = b
      BY <2>1
    <3> QED BY <2>2, <3>1 DEF ArmedOf
  <2>4. \A c \in Blocks \ {b} : ArmedOf(c)' = ArmedOf(c)
    <3>1. \A c \in Blocks \ {b} : ~Custodian(i, c) /\ ~Custodian(i, c)'
      BY <1>6, <2>1 DEF Custodian, NotExecuted, Stay
    <3>2. \A c \in Blocks \ {b} : (\E d \in wire' : d[1] = c) <=> (\E d \in wire : d[1] = c)
      BY SMTT(30), <2>1
    <3> QED BY <2>2, <3>1, <3>2 DEF ArmedOf, OthersKeep
  <2>5. \A c \in Blocks : ArmedOf(c)' = ArmedOf(c)
    BY <2>3, <2>4, ArmedBool
  <2> QED BY <1>2, <1>6, <2>5, Stutters DEF NotExecuted
<1> QED BY <1>3, <1>4, <1>5, <1>6 DEF Disturb

(* A claim moves no row and sends nothing: it finds its process idle. *)
LEMMA ClaimOffer ==
    ASSUME OutboxTypeOK, NEW i \in Procs, NEW b \in Blocks, NEW t \in Tokens,
           ClaimLane(i, b, t) \/ TakeOver(i, b, t) \/ RecoveryClaim(i, b, t)
    PROVE  OfferStep
<1>1. ProcTypeOK /\ pc[i] = "idle" /\ UNCHANGED <<state, nodeVars>>
  BY DEF OutboxTypeOK, ClaimLane, TakeOver, RecoveryClaim, ClaimTx, RecoveryClaimTx, Quiet
<1>2. \E p \in {"invalid", "claimed", "recover", "handback"} : Take(i, b, t, p)
  BY DEF ClaimLane, TakeOver, RecoveryClaim, ClaimedAt
<1>3. \A j \in Procs, c \in Blocks : Custodian(j, c)' <=> Custodian(j, c)
  BY <1>1, <1>2 DEF Take, Goto, ProcTypeOK, Custodian
<1>4. \A c \in Blocks : ArmedOf(c)' = ArmedOf(c) /\ PhaseOf(c)' = PhaseOf(c)
  BY <1>1, <1>3 DEF ArmedOf, PhaseOf, nodeVars
<1> QED BY <1>1, <1>4, Stutters DEF nodeVars

(* The node, the reconciler and the operator: a late call is the offer, a    *)
(* lost one loses it, an abandonment or a policy transition withdraws        *)
(* undecided blocks, and nothing else is seen by the mapping.                *)
LEMMA EnvironmentOffer ==
    ASSUME OutboxTypeOK, Busy, Custody, Environment
    PROVE  OfferStep
<1>1. CASE \E c \in wire : LateRun(c)
  <2>1. PICK c \in wire : LateRun(c)
    BY <1>1
  <2>2. \A j \in Procs, b \in Blocks : Custodian(j, b)' <=> Custodian(j, b)
    BY <2>1 DEF LateRun, procVars, Custodian
  <2> QED BY <2>1, <2>2, RunsOffer DEF LateRun, ledgerVars, rowVars
<1>2. CASE \E c \in wire : LoseCall(c)
  <2>1. PICK c \in wire : LoseCall(c)
    BY <1>2
  <2>2. PICK b \in Blocks : b = c[1]
    BY DEF OutboxTypeOK, NodeTypeOK
  <2>3. \A j \in Procs, d \in Blocks : Custodian(j, d)' <=> Custodian(j, d)
    BY <2>1 DEF LoseCall, procVars, Custodian
  <2>4. ArmedOf(b) /\ ~ArmedOf(b)'
    BY <2>1, <2>2, <2>3 DEF LoseCall, ArmedOf, Custody, CustodiansExclude, CallsExclude
  <2>5. \A d \in Blocks \ {b} : ArmedOf(d)' = ArmedOf(d)
    BY <2>1, <2>2, <2>3 DEF LoseCall, ArmedOf
  <2>6. [d \in Blocks |-> ArmedOf(d)'] = [[d \in Blocks |-> ArmedOf(d)] EXCEPT ![b] = FALSE]
    BY <2>4, <2>5, ArmedBool
  <2>7. \A d \in Blocks : PhaseOf(d)' = PhaseOf(d)
    BY <2>1 DEF LoseCall, PhaseOf, ledgerVars, rowVars
  <2>8. Offer!LoseOffer(b)
    BY <2>1, <2>4, <2>6, <2>7 DEF Offer!LoseOffer, LoseCall
  <2> QED BY <2>8 DEF OfferStep, Offer!OfferNext
<1>3. CASE UNCHANGED <<procVars, nodeVars>>
  <2>1. \A j \in Procs, d \in Blocks : Custodian(j, d)' <=> Custodian(j, d)
    BY <1>3 DEF procVars, Custodian
  <2>2. \A b \in Blocks : ArmedOf(b)' = ArmedOf(b)
    BY <1>3, <2>1 DEF ArmedOf, nodeVars
  <2>3. \A b \in Blocks : \/ PhaseOf(b)' = PhaseOf(b)
                          \/ PhaseOf(b) = "undecided" /\ PhaseOf(b)' = "withdrawn"
    <3>1. CASE UNCHANGED state
      BY <3>1 DEF PhaseOf
    <3>2. CASE \E b \in Blocks : EnqueueTx(b) \/ OperatorAbandonTx(b)
      BY <3>2 DEF EnqueueTx, OperatorAbandonTx, Close, PhaseOf, OutboxTypeOK, LedgerTypeOK
    <3>3. CASE PolicyTransitionTx
      BY <3>3 DEF PolicyTransitionTx, PhaseOf, OutboxTypeOK, LedgerTypeOK
    <3> QED BY <1>3, <3>1, <3>2, <3>3 DEF Environment, IssueWork, IssueTx, Enqueue, OperatorAbandon,
                 LateRun, LoseCall, ReconcilerObserve, ObserveTx, ObserveTransitionTx, ReconcilerCommit, ReconcileBlocksTx,
                 ReconcileBlocks, ReconcilerRefused, SetHold, SetHoldTx, PolicyTransition, ClearFatal,
                 ClearFatalTx, ledgerVars, rowVars
  <2> QED BY <1>3, <2>2, <2>3, Withdraws DEF nodeVars
<1> QED BY <1>1, <1>2, <1>3 DEF Environment, IssueWork, Enqueue, OperatorAbandon, ReconcilerObserve,
           ReconcilerCommit, ReconcilerRefused, SetHold, PolicyTransition, ClearFatal, Quiet, nodeVars

(* The candidate outbox implements the offer lifecycle, for any number of    *)
(* frontends, operators, blocks and faults: whatever crashes, takeovers and  *)
(* lost answers the attempts meet, the node runs at most one offer of a      *)
(* block, decided durably before the call and taken back only while the call *)
(* can no longer run (offer_candidate, release_unsent_offer, abandon).       *)
THEOREM ImplementsOffer == OutboxSpec => ImplementsOfferLifecycle
<1>1. OutboxInit => Offer!OfferInit
  <2>1. SUFFICES ASSUME OutboxInit PROVE Offer!OfferInit
    OBVIOUS
  <2>2. \A b \in Blocks : PhaseOf(b) = "undecided" /\ ArmedOf(b) = FALSE
    BY <2>1 DEF OutboxInit, LedgerInit, PhaseOf, ArmedOf, Custodian
  <2> QED BY <2>1, <2>2 DEF Offer!OfferInit, OutboxInit
<1>2. Inv /\ [OutboxNext]_vars => [Offer!OfferNext]_(Offer!offerVars)
  <2> SUFFICES ASSUME Inv, [OutboxNext]_vars PROVE OfferStep
    BY DEF OfferStep
  <2>1. OutboxTypeOK /\ Busy /\ Custody
    BY DEF Inv
  <2>2. CASE UNCHANGED vars
    <3>1. \A b \in Blocks : ArmedOf(b)' = ArmedOf(b) /\ PhaseOf(b)' = PhaseOf(b)
      BY <2>2 DEF vars, ledgerVars, rowVars, procVars, nodeVars, ArmedOf, Custodian, PhaseOf
    <3> QED BY <2>2, <3>1, Stutters DEF vars, nodeVars
  <2>3. ASSUME NEW i \in Procs, Advance(i) PROVE OfferStep
    BY <2>1, <2>3, AdvanceOffer
  <2>4. ASSUME NEW i \in Procs, Disturb(i) PROVE OfferStep
    BY <2>1, <2>4, DisturbOffer
  <2>5. ASSUME NEW i \in Procs, NEW b \in Blocks, NEW t \in Tokens,
               ClaimLane(i, b, t) \/ TakeOver(i, b, t) \/ RecoveryClaim(i, b, t)
        PROVE  OfferStep
    BY <2>1, <2>5, ClaimOffer
  <2>6. CASE Environment
    BY <2>1, <2>6, EnvironmentOffer
  <2> QED BY <2>2, <2>3, <2>4, <2>5, <2>6 DEF OutboxNext
<1> QED BY <1>1, <1>2, InvHolds, PTL DEF OutboxSpec, ImplementsOfferLifecycle, Offer!OfferSpec

-----------------------------------------------------------------------------

(* Observations: a write that finds the revision of its observation also      *)
(* finds the tip of its observation accepted.                                 *)

CurrentAt(tip, rev) == rev <= revision /\ (rev = revision => tip = acceptedTip)

AttemptsCurrent ==
    \A i \in Procs :
        /\ pc[i] \in {"landing", "settling"} => CurrentAt(obsTip[i], obsRev[i])
        /\ pc[i] = "settling" =>
             Active(obsTip[i], blk[i]) \/ View[obsTip[i]][blk[i]] = "buried"

ReconcilerCurrent == recon.on => CurrentAt(recon.tip, recon.rev)

ObservationsCurrent == AttemptsCurrent /\ ReconcilerCurrent

(* A step that brings no process to a write fenced by a revision. *)
KeepsObservations ==
    \A j \in Procs : pc'[j] \in {"landing", "settling"} =>
        /\ pc'[j] = pc[j] /\ blk'[j] = blk[j]
        /\ obsTip'[j] = obsTip[j] /\ obsRev'[j] = obsRev[j]

(* An observation that is current stays so, or its revision is left behind. *)
LEMMA CurrentStays ==
    ASSUME LedgerTypeOK, LedgerStep, NEW tip, NEW rev \in Nat, CurrentAt(tip, rev)
    PROVE  rev <= revision' /\ (rev = revision' => tip = acceptedTip')
<1>1. revision \in Nat /\ revision' \in Nat
  BY LedgerTypeStep DEF LedgerTypeOK, AuthorityTypeOK
<1> QED BY SMTT(30), <1>1, RevisionGrows DEF CurrentAt

(* A step that leaves an attempt its observation leaves it current. *)
LEMMA KeepsAttempts ==
    ASSUME OutboxTypeOK, LedgerStep, AttemptsCurrent, KeepsObservations
    PROVE  AttemptsCurrent'
<1> SUFFICES ASSUME NEW i \in Procs, pc'[i] \in {"landing", "settling"}
             PROVE  /\ obsRev'[i] <= revision'
                    /\ obsRev'[i] = revision' => obsTip'[i] = acceptedTip'
                    /\ pc'[i] = "settling" =>
                         Active(obsTip'[i], blk'[i]) \/ View[obsTip'[i]][blk'[i]] = "buried"
  BY DEF AttemptsCurrent, CurrentAt, Active
<1>1. /\ pc'[i] = pc[i] /\ blk'[i] = blk[i]
      /\ obsTip'[i] = obsTip[i] /\ obsRev'[i] = obsRev[i]
  BY DEF KeepsObservations
<1>2. obsRev[i] \in Nat /\ LedgerTypeOK
  BY DEF OutboxTypeOK, ProcTypeOK
<1>3. obsRev[i] <= revision' /\ (obsRev[i] = revision' => obsTip[i] = acceptedTip')
  BY <1>1, <1>2, CurrentStays DEF AttemptsCurrent
<1> QED BY <1>1, <1>3 DEF AttemptsCurrent

(* A move to anywhere else than a fenced write keeps the observations. *)
LEMMA MoveKeeps ==
    ASSUME ProcTypeOK, NEW i \in Procs, NEW p, Goto(i, p), p \notin {"landing", "settling"},
           \A j \in Procs \ {i} :
               blk'[j] = blk[j] /\ obsTip'[j] = obsTip[j] /\ obsRev'[j] = obsRev[j]
    PROVE  KeepsObservations
BY DEF ProcTypeOK, Goto, KeepsObservations

(* An attempt that moves on keeps its observation. *)
LEMMA StayKeeps ==
    ASSUME ProcTypeOK, NEW i \in Procs, NEW p, Stay(i, p), p \notin {"landing", "settling"}
    PROVE  KeepsObservations
BY MoveKeeps DEF ProcTypeOK, Stay

(* The end of an attempt leaves nothing to be stale. *)
LEMMA DoneKeeps ==
    ASSUME ProcTypeOK, NEW i \in Procs, Done(i)
    PROVE  KeepsObservations
<1>1. \A j \in Procs \ {i} :
        blk'[j] = blk[j] /\ obsTip'[j] = obsTip[j] /\ obsRev'[j] = obsRev[j]
  BY DEF ProcTypeOK, Done
<1> QED BY <1>1, MoveKeeps DEF Done

(* An observation is current when it is made. *)
LEMMA ObserveKeeps ==
    ASSUME ProcTypeOK, NEW i \in Procs, NEW tip, NEW p, Observe(i, tip, p),
           p \notin {"landing", "settling"}
    PROVE  KeepsObservations
<1>1. \A j \in Procs \ {i} :
        blk'[j] = blk[j] /\ obsTip'[j] = obsTip[j] /\ obsRev'[j] = obsRev[j]
  BY DEF ProcTypeOK, Observe
<1> QED BY <1>1, MoveKeeps DEF Observe

(* An observation brings a process to its fenced write with the tip that is *)
(* accepted and the revision that is current then.                          *)
LEMMA ObserveArrives ==
    ASSUME OutboxTypeOK, AttemptsCurrent, NEW i \in Procs, NEW tip \in Tips,
           NEW p \in {"landing", "settling"}, Observe(i, tip, p),
           p = "settling" => Active(tip, blk[i]) \/ View[tip][blk[i]] = "buried"
    PROVE  AttemptsCurrent'
<1>1. LedgerTypeOK /\ ProcTypeOK /\ LedgerStep
  BY DEF OutboxTypeOK, LedgerStep, ChainTx, Observe
<1>2. acceptedTip' = tip /\ revision' \in Nat
  BY <1>1, LedgerTypeStep DEF Observe, ObserveTx, AcceptTip, authorityVars, LedgerTypeOK,
        AuthorityTypeOK
<1>3. ASSUME NEW j \in Procs, j # i, pc'[j] \in {"landing", "settling"}
      PROVE  /\ obsRev'[j] <= revision'
             /\ obsRev'[j] = revision' => obsTip'[j] = acceptedTip'
             /\ pc'[j] = "settling" =>
                  Active(obsTip'[j], blk'[j]) \/ View[obsTip'[j]][blk'[j]] = "buried"
  <2>1. /\ pc'[j] = pc[j] /\ blk'[j] = blk[j]
        /\ obsTip'[j] = obsTip[j] /\ obsRev'[j] = obsRev[j]
    BY <1>1, <1>3 DEF Observe, Goto, ProcTypeOK
  <2>2. obsRev[j] \in Nat
    BY <1>1 DEF ProcTypeOK
  <2>3. obsRev[j] <= revision' /\ (obsRev[j] = revision' => obsTip[j] = acceptedTip')
    BY <1>1, <1>3, <2>1, <2>2, CurrentStays DEF AttemptsCurrent
  <2> QED BY <1>3, <2>1, <2>3 DEF AttemptsCurrent
<1>4. /\ obsTip'[i] = tip /\ obsRev'[i] = revision' /\ pc'[i] = p /\ blk'[i] = blk[i]
  BY <1>1 DEF Observe, Goto, ProcTypeOK
<1> QED BY SMTT(30), <1>2, <1>3, <1>4 DEF AttemptsCurrent, CurrentAt, Active

(* Every step of an attempt keeps the observations current. *)
LEMMA AdvanceAttempts ==
    ASSUME OutboxTypeOK, Busy, AttemptsCurrent, NEW i \in Procs, Advance(i)
    PROVE  AttemptsCurrent'
<1>1. LedgerStep /\ ProcTypeOK
  BY AdvanceLedger DEF OutboxTypeOK
<1>2. CASE KeepsObservations
  BY <1>1, <1>2, KeepsAttempts
<1>3. CASE Park(i) \/ Abandon(i) \/ ReleaseUnsent(i) \/ Finish(i) \/ Orphan(i)
             \/ Reconcile(i) \/ Release(i) \/ HandBack(i)
  <2>1. Done(i)
    BY <1>3 DEF Park, Abandon, ReleaseUnsent, Finish, Orphan, Reconcile, Release, HandBack
  <2> QED BY <1>1, <1>2, <2>1, DoneKeeps
<1>4. CASE Start(i) \/ ScreenPass(i) \/ Adopt(i) \/ Reserve(i) \/ ReserveBounded(i) \/ Arm(i)
             \/ Send(i) \/ RecordOffer(i) \/ LandSkip(i) \/ Rebuild(i)
  <2>1. \E p : Stay(i, p) /\ p \notin {"landing", "settling"}
    BY SMTT(30), <1>4, ErrorPlace DEF Start, ScreenPass, Adopt, Reserve, ReserveBounded, Arm, Send,
          RecordOffer, LandSkip, Rebuild
  <2> QED BY <1>1, <1>2, <2>1, StayKeeps
<1>5. CASE ScreenProbe(i) \/ Recover(i)
  <2>1. \E tip, p : Observe(i, tip, p) /\ p \notin {"landing", "settling"}
    BY SMTT(30), <1>5 DEF ScreenProbe, Recover
  <2> QED BY <1>1, <1>2, <2>1, ObserveKeeps
<1>6. CASE LandObserve(i) \/ SettleObserve(i)
  <2>1. PICK tip \in Tips, p \in {"landing", "settling", OnError(i)} :
            /\ Observe(i, tip, p)
            /\ p = "settling" => Active(tip, blk[i]) \/ View[tip][blk[i]] = "buried"
    <3>1. CASE LandObserve(i)
      BY <3>1, ErrorPlace DEF LandObserve
    <3>2. CASE SettleObserve(i)
      BY <3>2, ErrorPlace DEF SettleObserve
    <3> QED BY <1>6, <3>1, <3>2
  <2>2. CASE p \in {"landing", "settling"}
    BY <2>1, <2>2, ObserveArrives
  <2>3. CASE p \notin {"landing", "settling"}
    BY <1>1, <1>2, <2>1, <2>3, ObserveKeeps
  <2> QED BY <2>2, <2>3
<1>7. CASE ReserveSuperseded(i)
  BY <1>1, <1>2, <1>7, MoveKeeps DEF ReserveSuperseded, ProcTypeOK
<1>8. CASE Answer(i)
  BY <1>1, <1>2, <1>8, MoveKeeps DEF Answer, Reply
<1>9. CASE Land(i)
  BY <1>1, <1>2, <1>9, MoveKeeps DEF Land
<1>10. CASE RevisionRace(i)
  <2>1. UNCHANGED <<blk, obsTip, obsRev>> /\ \E p : Goto(i, p) /\ p \notin {"landing", "settling"}
    BY SMTT(30), <1>10, ErrorPlace DEF RevisionRace, Stay
  <2> QED BY <1>1, <1>2, <2>1, MoveKeeps
<1>11. CASE Refused(i)
  BY <1>1, <1>2, <1>11, ErrorPlace, DoneKeeps, StayKeeps DEF Refused
<1> QED BY <1>3, <1>4, <1>5, <1>6, <1>7, <1>8, <1>9, <1>10, <1>11 DEF Advance

(* Every step keeps every attempt's observation current. *)
LEMMA OutboxAttempts ==
    OutboxTypeOK /\ Busy /\ AttemptsCurrent /\ [OutboxNext]_vars => AttemptsCurrent'
<1> SUFFICES ASSUME OutboxTypeOK, Busy, AttemptsCurrent, [OutboxNext]_vars
             PROVE  AttemptsCurrent'
  OBVIOUS
<1>1. LedgerStep /\ ProcTypeOK
  BY OutboxLedger DEF OutboxTypeOK
<1>2. CASE KeepsObservations
  BY <1>1, <1>2, KeepsAttempts
<1>3. CASE UNCHANGED procVars
  BY <1>2, <1>3 DEF procVars, KeepsObservations
<1>4. ASSUME NEW i \in Procs, Disturb(i) PROVE AttemptsCurrent'
  <2>1. CASE Timeout(i)
    BY <1>1, <1>2, <2>1, MoveKeeps DEF Timeout, Reply
  <2>2. CASE Crash(i)
    BY <1>1, <1>2, <2>2, DoneKeeps DEF Crash
  <2>3. CASE ~Timeout(i) /\ ~Crash(i)
    <3>1. \E p : Stay(i, p) /\ p \notin {"landing", "settling"}
      BY SMTT(30), <1>4, <2>3, ErrorPlace
           DEF Disturb, CarryGateMoved, NotExecuted, Fail, LeaseLost, Shutdown
    <3> QED BY <1>1, <1>2, <3>1, StayKeeps
  <2> QED BY <2>1, <2>2, <2>3
<1>5. ASSUME NEW i \in Procs, NEW b \in Blocks, NEW t \in Tokens,
             ClaimLane(i, b, t) \/ TakeOver(i, b, t) \/ RecoveryClaim(i, b, t)
      PROVE  AttemptsCurrent'
  <2>1. \E p \in {"claimed", "invalid", "recover", "handback"} : Take(i, b, t, p)
    BY <1>5 DEF ClaimLane, TakeOver, RecoveryClaim, ClaimedAt
  <2> QED BY <1>1, <1>2, <2>1, MoveKeeps DEF Take, ProcTypeOK
<1>6. CASE Environment
  <2>1. UNCHANGED procVars
    BY <1>6 DEF Environment, IssueWork, Enqueue, OperatorAbandon, LateRun, LoseCall,
          ReconcilerObserve, ReconcilerCommit, ReconcilerRefused, SetHold, PolicyTransition,
          ClearFatal
  <2> QED BY <1>3, <2>1
<1> QED BY <1>3, <1>4, <1>5, <1>6, AdvanceAttempts DEF OutboxNext, vars

(* Only the reconciler writes its slot. *)
LEMMA ReconcilerOwnsSlot ==
    [OutboxNext]_vars
      => \/ ReconcilerObserve \/ ReconcilerCommit \/ ReconcilerRefused
         \/ UNCHANGED recon
<1> SUFFICES ASSUME [OutboxNext]_vars,
                    ~ReconcilerObserve, ~ReconcilerCommit, ~ReconcilerRefused
             PROVE  UNCHANGED recon
  OBVIOUS
<1>1. ASSUME NEW i \in Procs, Advance(i) PROVE UNCHANGED recon
  BY <1>1 DEF Advance, Park, Start, ScreenPass, ScreenProbe, Adopt, Abandon, Reserve,
        ReserveSuperseded, ReserveBounded, Arm, Send, Answer, ReleaseUnsent, RecordOffer, LandSkip,
        Rebuild, LandObserve, Land, SettleObserve, Finish, Orphan, RevisionRace, Reconcile, Recover,
        Release, HandBack, Refused, Quiet
<1>2. ASSUME NEW i \in Procs, Disturb(i) PROVE UNCHANGED recon
  BY <1>2 DEF Disturb, CarryGateMoved, NotExecuted, Timeout, Fail, LeaseLost, Shutdown, Crash, Quiet
<1>3. ASSUME NEW i \in Procs, NEW b \in Blocks, NEW t \in Tokens,
             ClaimLane(i, b, t) \/ TakeOver(i, b, t) \/ RecoveryClaim(i, b, t)
      PROVE  UNCHANGED recon
  BY <1>3 DEF ClaimLane, TakeOver, RecoveryClaim, Quiet
<1>4. CASE Environment
  BY <1>4 DEF Environment, IssueWork, Enqueue, OperatorAbandon, LateRun, LoseCall, SetHold,
        PolicyTransition, ClearFatal, Quiet
<1> QED BY <1>1, <1>2, <1>3, <1>4 DEF OutboxNext, vars

(* Every step keeps the reconciler's observation current. *)
LEMMA OutboxReconciler ==
    OutboxTypeOK /\ Busy /\ ReconcilerCurrent /\ [OutboxNext]_vars => ReconcilerCurrent'
<1> SUFFICES ASSUME OutboxTypeOK, Busy, ReconcilerCurrent, [OutboxNext]_vars
             PROVE  ReconcilerCurrent'
  OBVIOUS
<1>1. LedgerStep /\ LedgerTypeOK
  BY OutboxLedger DEF OutboxTypeOK
<1>2. CASE ReconcilerObserve
  <2>1. PICK tip \in Tips :
          /\ ObserveTx(tip) \/ ObserveTransitionTx(tip)
          /\ recon' = [on |-> TRUE, tip |-> tip, rev |-> revision', seen |-> PoolBlocksForReconcile]
    BY <1>2 DEF ReconcilerObserve
  <2>2. acceptedTip' = tip
    BY <2>1 DEF ObserveTx, ObserveTransitionTx, AcceptTip, authorityVars
  <2>3. revision' \in Nat
    BY <1>1, LedgerTypeStep DEF LedgerTypeOK, AuthorityTypeOK
  <2> QED BY SMTT(30), <2>1, <2>2, <2>3 DEF ReconcilerCurrent, CurrentAt
<1>3. CASE ReconcilerCommit \/ ReconcilerRefused
  BY SMTT(30), <1>3 DEF ReconcilerCommit, ReconcilerRefused, NoRecon, ReconcilerCurrent
<1>4. CASE UNCHANGED recon
  <2>1. recon.rev \in Nat
    BY DEF OutboxTypeOK
  <2>2. recon.on => recon.rev <= revision' /\ (recon.rev = revision' => recon.tip = acceptedTip')
    BY <1>1, <2>1, CurrentStays DEF ReconcilerCurrent
  <2> QED BY <1>4, <2>2 DEF ReconcilerCurrent, CurrentAt
<1> QED BY <1>2, <1>3, <1>4, ReconcilerOwnsSlot

(* The inductive invariant of every safety property. *)
FullInv == Inv /\ ObservationsCurrent /\ OfferColumns /\ Settled

(* The full invariant holds in every reachable state. *)
LEMMA FullInvHolds == OutboxSpec => []FullInv
<1>1. OutboxInit => ObservationsCurrent /\ OfferColumns /\ Settled
  <2> SUFFICES ASSUME OutboxInit PROVE ObservationsCurrent /\ OfferColumns /\ Settled
    OBVIOUS
  <2>1. ObservationsCurrent
    BY DEF OutboxInit, NoRecon, ObservationsCurrent, AttemptsCurrent, ReconcilerCurrent
  <2>2. OfferColumns /\ Settled
    BY DEF OutboxInit, LedgerInit, OfferColumns, Settled, CreditFollowsConfirmation, MatureIsFinal
  <2> QED BY <2>1, <2>2
<1>2. Inv /\ FullInv /\ [OutboxNext]_vars => (ObservationsCurrent /\ OfferColumns /\ Settled)'
  BY OutboxLedger, OutboxAttempts, OutboxReconciler, OfferColumnsStep, SettledStep
     DEF Inv, FullInv, OutboxTypeOK, ObservationsCurrent
<1> QED BY <1>1, <1>2, InvHolds, PTL DEF OutboxSpec, FullInv

-----------------------------------------------------------------------------
(* The properties. *)

(* The offer columns follow the row's state. *)
THEOREM OfferColumnsHold == OutboxSpec => []OfferColumns
BY FullInvHolds, PTL DEF FullInv

(* A deferred share is credited exactly by its block's first confirmation. *)
THEOREM CreditHolds == OutboxSpec => []CreditFollowsConfirmation
<1>1. FullInv => CreditFollowsConfirmation
  BY DEF FullInv, Settled
<1> QED BY <1>1, FullInvHolds, PTL

(* A mature block stays confirmed. *)
THEOREM MatureHolds == OutboxSpec => []MatureIsFinal
<1>1. FullInv => MatureIsFinal
  BY DEF FullInv, Settled
<1> QED BY <1>1, FullInvHolds, PTL

(* The cluster row keeps the chain authority's promise. *)
THEOREM ImplementsAuthority == OutboxSpec => AuthoritySpec
<1>1. OutboxInit => AuthorityInit
  BY DEF OutboxInit, LedgerInit
<1>2. Inv /\ [OutboxNext]_vars => [AuthorityNext]_authorityVars
  BY OutboxLedger, AuthorityStep DEF Inv, OutboxTypeOK
<1> QED BY <1>1, <1>2, InvHolds, PTL DEF OutboxSpec, AuthoritySpec

(* No change of the balances goes without a new revision or a stopped cluster. *)
THEOREM BalancesHold == OutboxSpec => BalancesMoveRevision
<1>1. Inv /\ [OutboxNext]_vars => [Announced]_vars
  BY OutboxLedger, BalancesStep DEF Inv, OutboxTypeOK
<1>2. OutboxSpec => [][Announced]_vars
  BY <1>1, InvHolds, PTL DEF OutboxSpec
<1> QED BY <1>2 DEF BalancesMoveRevision, Announced

ConfirmsHere ==
    \A b \in Blocks : poolState[b] # "confirmed" /\ poolState'[b] = "confirmed"
                      => fatal \/ Active(acceptedTip, b)

(* Only a block of the accepted chain is confirmed. *)
LEMMA ConfirmStep == FullInv /\ [OutboxNext]_vars => ConfirmsHere
<1> SUFFICES ASSUME FullInv, [OutboxNext]_vars PROVE ConfirmsHere
  OBVIOUS
<1> USE DEF ConfirmsHere
<1>1. LedgerTypeOK /\ Busy /\ OutboxTypeOK
  BY DEF FullInv, Inv, OutboxTypeOK
<1>2. CASE UNCHANGED poolState
  BY <1>2
<1>3. ASSUME NEW i \in Procs, Advance(i) PROVE ConfirmsHere
  <2>1. CASE Finish(i)
    <3>1. acceptedTip = obsTip[i]
      BY <1>1, <2>1 DEF FullInv, ObservationsCurrent, AttemptsCurrent, CurrentAt, Finish, FinishTx,
            AtRevision
    <3> QED BY <1>1, <2>1, <3>1 DEF Finish, FinishTx, LedgerTypeOK
  <2>2. CASE Land(i)
    BY <1>1, <2>2 DEF Land, LandTx, LedgerTypeOK
  <2>3. CASE Abandon(i) \/ Orphan(i)
    BY <1>1, <2>3 DEF Abandon, AbandonTx, Orphan, OrphanTx, Deactivate, LedgerTypeOK
  <2>4. CASE Park(i) \/ Adopt(i) \/ Reserve(i) \/ ReserveBounded(i) \/ ReleaseUnsent(i)
               \/ RecordOffer(i) \/ Reconcile(i) \/ Release(i) \/ HandBack(i)
    <3>1. UNCHANGED poolState
      BY <2>4 DEF Park, ParkTx, Adopt, AdoptTx, Reserve, ReserveBounded, ReserveTx, ReleaseUnsent,
            ReleaseUnsentTx, RecordOffer, RecordOfferTx, Reconcile, ReconcileTx, Release, ReleaseTx,
            HandBack, ReleaseRecoveryTx, poolVars, ledgerVars
    <3> QED BY <1>2, <3>1
  <2>5. CASE \/ ScreenProbe(i) \/ LandObserve(i) \/ SettleObserve(i) \/ Recover(i)
             \/ Start(i) \/ ScreenPass(i) \/ ReserveSuperseded(i) \/ Arm(i) \/ Send(i)
             \/ Answer(i) \/ LandSkip(i) \/ Rebuild(i) \/ RevisionRace(i) \/ Refused(i)
    <3>1. UNCHANGED poolState
      BY <2>5 DEF ScreenProbe, LandObserve, SettleObserve, Recover, Observe, ObserveTx, Start,
            ScreenPass, ReserveSuperseded, Arm, Send, Answer, LandSkip, Rebuild, RevisionRace,
            Refused, poolVars, ledgerVars
    <3> QED BY <1>2, <3>1
  <2> QED BY <1>3, <2>1, <2>2, <2>3, <2>4, <2>5 DEF Advance
<1>4. ASSUME NEW i \in Procs, Disturb(i) PROVE UNCHANGED poolState
  BY <1>4 DEF Disturb, CarryGateMoved, NotExecuted, Timeout, Fail, LeaseLost, Shutdown, Crash,
        ledgerVars, poolVars
<1>5. ASSUME NEW i \in Procs, NEW b \in Blocks, NEW t \in Tokens,
             ClaimLane(i, b, t) \/ TakeOver(i, b, t) \/ RecoveryClaim(i, b, t)
      PROVE  UNCHANGED poolState
  BY <1>5 DEF ClaimLane, TakeOver, RecoveryClaim, ClaimTx, RecoveryClaimTx, poolVars
<1>6. CASE ReconcilerCommit
  <2>1. recon.on /\ ReconcileBlocksTx(recon.tip, recon.rev, recon.seen)
    BY <1>6 DEF ReconcilerCommit
  <2>2. recon.tip = acceptedTip
    BY <1>1, <2>1 DEF ReconcileBlocksTx, AtRevision, FullInv, ObservationsCurrent,
          ReconcilerCurrent, CurrentAt
  <2>3. \A b \in Blocks : poolState[b] # "confirmed" /\ poolState'[b] = "confirmed"
                          => b \in Confirms(recon.tip, recon.seen)
    BY <2>1 DEF ReconcileBlocksTx, ReconcileBlocks
  <2> QED BY <2>2, <2>3 DEF Confirms
<1>7. CASE ClearFatal
  BY <1>7 DEF ClearFatal, ClearFatalTx
<1>8. CASE Environment /\ ~ReconcilerCommit /\ ~ClearFatal
  <2>1. UNCHANGED poolState
    BY <1>8 DEF Environment, IssueWork, IssueTx, Enqueue, EnqueueTx, OperatorAbandon,
          OperatorAbandonTx, LateRun, LoseCall, ReconcilerObserve, ObserveTx, ObserveTransitionTx,
          ReconcilerRefused, SetHold, SetHoldTx, PolicyTransition, PolicyTransitionTx,
          ledgerVars, poolVars
  <2> QED BY <1>2, <2>1
<1> QED BY <1>2, <1>3, <1>4, <1>5, <1>6, <1>7, <1>8
        DEF OutboxNext, vars, ledgerVars, poolVars

(* A block starts to count only while the accepted chain holds it. *)
THEOREM ConfirmedOnChain == OutboxSpec => ConfirmedOnAcceptedChain
<1>1. FullInv /\ [OutboxNext]_vars => [ConfirmsHere]_vars
  BY ConfirmStep
<1>2. OutboxSpec => [][ConfirmsHere]_vars
  BY <1>1, FullInvHolds, PTL DEF OutboxSpec
<1> QED BY <1>2 DEF ConfirmedOnAcceptedChain, ConfirmsHere

OrphansHere ==
    \A b \in Blocks : state[b] # "orphaned" /\ state'[b] = "orphaned"
                      => View[acceptedTip][b] = "buried" /\ poolState[b] # "confirmed"

(* Only a buried block's row is closed as an orphan. *)
LEMMA OrphanStep == FullInv /\ [OutboxNext]_vars => OrphansHere
<1> SUFFICES ASSUME FullInv, [OutboxNext]_vars PROVE OrphansHere
  OBVIOUS
<1>1. LedgerTypeOK /\ Busy /\ OutboxTypeOK
  BY DEF FullInv, Inv, OutboxTypeOK
<1> DEFINE NoOrphan == \A b \in Blocks : state'[b] = "orphaned" => state[b] = "orphaned"
<1>2. CASE NoOrphan
  BY <1>2 DEF OrphansHere
<1>3. CASE UNCHANGED rowVars
  BY <1>2, <1>3 DEF rowVars
<1>4. ASSUME NEW i \in Procs, Advance(i) PROVE OrphansHere
  <2>1. CASE Orphan(i)
    <3>1. acceptedTip = obsTip[i] /\ View[obsTip[i]][blk[i]] = "buried"
      BY <1>1, <2>1 DEF FullInv, ObservationsCurrent, AttemptsCurrent, CurrentAt, Orphan, OrphanTx,
            AtRevision
    <3> QED BY <1>1, <2>1, <3>1 DEF Orphan, OrphanTx, Close, LedgerTypeOK, OrphansHere
  <2>2. CASE Finish(i) \/ Abandon(i)
    BY <1>1, <1>2, <2>2 DEF Finish, FinishTx, Abandon, AbandonTx, Close, LedgerTypeOK
  <2>3. CASE Park(i) \/ Adopt(i) \/ Reserve(i) \/ ReserveBounded(i) \/ ReleaseUnsent(i)
               \/ RecordOffer(i) \/ Reconcile(i) \/ Release(i) \/ HandBack(i)
    BY <1>1, <1>2, <2>3 DEF Park, ParkTx, Adopt, AdoptTx, Reserve, ReserveBounded, ReserveTx,
          ReleaseUnsent, ReleaseUnsentTx, RecordOffer, RecordOfferTx, Reconcile, ReconcileTx,
          Release, ReleaseTx, HandBack, ReleaseRecoveryTx, LedgerTypeOK, ledgerVars, rowVars
  <2>4. CASE \/ ScreenProbe(i) \/ LandObserve(i) \/ SettleObserve(i) \/ Recover(i) \/ Land(i)
             \/ Start(i) \/ ScreenPass(i) \/ ReserveSuperseded(i) \/ Arm(i) \/ Send(i)
             \/ Answer(i) \/ LandSkip(i) \/ Rebuild(i) \/ RevisionRace(i) \/ Refused(i)
    <3>1. UNCHANGED rowVars
      BY <2>4
           DEF ScreenProbe, LandObserve, SettleObserve, Recover, Observe, ObserveTx, Land, LandTx,
            Start, ScreenPass, ReserveSuperseded, Arm, Send, Answer, LandSkip, Rebuild,
            RevisionRace, Refused, ledgerVars
    <3> QED BY <1>3, <3>1
  <2> QED BY <1>4, <2>1, <2>2, <2>3, <2>4 DEF Advance
<1>5. ASSUME NEW i \in Procs, Disturb(i) PROVE UNCHANGED rowVars
  BY <1>5 DEF Disturb, CarryGateMoved, NotExecuted, Timeout, Fail, LeaseLost, Shutdown, Crash,
        ledgerVars
<1>6. ASSUME NEW i \in Procs, NEW b \in Blocks, NEW t \in Tokens,
             ClaimLane(i, b, t) \/ TakeOver(i, b, t) \/ RecoveryClaim(i, b, t)
      PROVE  NoOrphan
  BY <1>6 DEF ClaimLane, TakeOver, RecoveryClaim, ClaimTx, RecoveryClaimTx
<1>7. CASE \E b \in Blocks : IssueWork(b) \/ Enqueue(b) \/ OperatorAbandon(b)
  BY <1>1, <1>2, <1>7 DEF IssueWork, IssueTx, Enqueue, EnqueueTx, OperatorAbandon,
        OperatorAbandonTx, Close, LedgerTypeOK
<1>8. CASE PolicyTransition
  BY <1>2, <1>8 DEF PolicyTransition, PolicyTransitionTx
<1>9. CASE \/ \E c \in wire : LateRun(c) \/ LoseCall(c)
           \/ ReconcilerObserve \/ ReconcilerCommit \/ ReconcilerRefused
           \/ \E h \in BOOLEAN : SetHold(h)
           \/ ClearFatal
  <2>1. UNCHANGED rowVars
    BY <1>9 DEF LateRun, LoseCall, ReconcilerObserve, ObserveTx, ObserveTransitionTx,
          ReconcilerCommit, ReconcileBlocksTx, ReconcileBlocks, ReconcilerRefused, SetHold,
          SetHoldTx, ClearFatal, ClearFatalTx, ledgerVars
  <2> QED BY <1>3, <2>1
<1> QED BY <1>2, <1>3, <1>4, <1>5, <1>6, <1>7, <1>8, <1>9
        DEF OutboxNext, Environment, vars, ledgerVars

(* A row is closed as an orphan only under the accepted chain's evidence. *)
THEOREM OrphanedOnChain == OutboxSpec => OrphanedOnlyWhenBuried
<1>1. FullInv /\ [OutboxNext]_vars => [OrphansHere]_vars
  BY OrphanStep
<1>2. OutboxSpec => [][OrphansHere]_vars
  BY <1>1, FullInvHolds, PTL DEF OutboxSpec
<1> QED BY <1>2 DEF OrphanedOnlyWhenBuried, OrphansHere

-----------------------------------------------------------------------------
(* Parked rows.  A frontend's claim on a row ends with its parking and no    *)
(* lane claims a parked row, so the only holders of one are operators, and   *)
(* the recovery command goes through no step that writes a schedule.         *)

OperatorPlaces ==
    {"idle", "recover", "adopt", "land", "verified", "landing", "settle", "settling", "handback"}

Parking ==
    /\ \A i \in Operators : pc[i] \in OperatorPlaces
    /\ \A i \in Frontends : pc[i] # "idle" /\ token[blk[i]] = tok[i] => ~parked[blk[i]]

Rescheduling == {"failed", "unsent", "reconcile"}

(* What an attempt's step does to the rows: it takes no claim, parks only a   *)
(* row it lets go of, and brings back only the row it holds.                  *)
RowsUnclaimed(i) ==
    \A b \in Blocks :
        /\ token'[b] \in {token[b], NoToken}
        /\ parked'[b] => parked[b] \/ token'[b] = NoToken
        /\ parked[b] /\ ~parked'[b] =>
             b = blk[i] /\ token[b] = tok[i] /\ pc[i] \in Rescheduling

LEMMA AdvanceRows ==
    ASSUME OutboxTypeOK, NEW i \in Procs, Advance(i)
    PROVE  RowsUnclaimed(i)
<1>1. LedgerTypeOK
  BY DEF OutboxTypeOK
<1>2. CASE UNCHANGED <<token, parked>>
  BY <1>2 DEF RowsUnclaimed
<1>3. CASE Park(i)
  BY <1>1, <1>3 DEF Park, ParkTx, LedgerTypeOK, RowsUnclaimed
<1>4. CASE ReleaseUnsent(i) \/ Reconcile(i) \/ Release(i)
  BY <1>1, <1>4 DEF ReleaseUnsent, ReleaseUnsentTx, Reconcile, ReconcileTx, Release, ReleaseTx,
        Holds, LedgerTypeOK, RowsUnclaimed, Rescheduling
<1>5. CASE HandBack(i) \/ Abandon(i) \/ Finish(i) \/ Orphan(i)
  BY <1>1, <1>5 DEF HandBack, ReleaseRecoveryTx, Abandon, AbandonTx, Finish, FinishTx, Orphan,
        OrphanTx, Close, LedgerTypeOK, RowsUnclaimed
<1>6. CASE \/ Adopt(i) \/ Reserve(i) \/ ReserveBounded(i) \/ RecordOffer(i) \/ Land(i)
           \/ ScreenProbe(i) \/ LandObserve(i) \/ SettleObserve(i) \/ Recover(i)
           \/ Start(i) \/ ScreenPass(i) \/ ReserveSuperseded(i) \/ Arm(i) \/ Send(i)
           \/ Answer(i) \/ LandSkip(i) \/ Rebuild(i) \/ RevisionRace(i) \/ Refused(i)
  <2>1. UNCHANGED <<token, parked>>
    BY <1>6 DEF Adopt, AdoptTx, Reserve, ReserveBounded, ReserveTx, RecordOffer, RecordOfferTx,
          Land, LandTx, ScreenProbe, LandObserve, SettleObserve, Recover, Observe, ObserveTx,
          Start, ScreenPass, ReserveSuperseded, Arm, Send, Answer, LandSkip, Rebuild,
          RevisionRace, Refused, ledgerVars, rowVars
  <2> QED BY <1>2, <2>1
<1> QED BY <1>3, <1>4, <1>5, <1>6 DEF Advance

(* An attempt's step leaves the others alone and keeps or ends its claim.     *)
ClaimKept(i) ==
    /\ \A j \in Procs \ {i} : pc'[j] = pc[j] /\ blk'[j] = blk[j] /\ tok'[j] = tok[j]
    /\ pc'[i] = "idle" \/ (pc[i] # "idle" /\ blk'[i] = blk[i] /\ tok'[i] = tok[i])

(* The recovery command never leaves its own places.                          *)
RecoveryKept(i) == i \in Operators /\ pc[i] \in OperatorPlaces => pc'[i] \in OperatorPlaces

LEMMA MoveClaims ==
    ASSUME ProcTypeOK, NEW i \in Procs, NEW p, Goto(i, p), pc[i] # "idle",
           UNCHANGED <<blk, tok>>, i \in Operators /\ pc[i] \in OperatorPlaces => p \in OperatorPlaces
    PROVE  ClaimKept(i) /\ RecoveryKept(i)
BY DEF ProcTypeOK, Goto, ClaimKept, RecoveryKept

LEMMA DoneClaims ==
    ASSUME ProcTypeOK, NEW i \in Procs, Done(i)
    PROVE  ClaimKept(i) /\ RecoveryKept(i)
BY DEF ProcTypeOK, Done, Goto, ClaimKept, RecoveryKept, OperatorPlaces

LEMMA AdvanceClaims ==
    ASSUME OutboxTypeOK, NEW i \in Procs, Advance(i)
    PROVE  ClaimKept(i) /\ RecoveryKept(i)
<1>1. ProcTypeOK
  BY DEF OutboxTypeOK
<1>2. i \in Operators => OnError(i) \in OperatorPlaces
  BY DEF OnError, OperatorPlaces
<1>3. CASE \/ Park(i) \/ Abandon(i) \/ ReleaseUnsent(i) \/ Finish(i) \/ Orphan(i)
           \/ Reconcile(i) \/ Release(i) \/ HandBack(i)
  <2>1. Done(i)
    BY <1>3 DEF Park, Abandon, ReleaseUnsent, Finish, Orphan, Reconcile, Release, HandBack
  <2> QED BY <1>1, <2>1, DoneClaims
<1>4. CASE \/ Start(i) \/ ScreenPass(i) \/ ScreenProbe(i) \/ Reserve(i) \/ ReserveSuperseded(i)
           \/ ReserveBounded(i) \/ Arm(i) \/ Send(i) \/ Answer(i) \/ RecordOffer(i)
  <2>1. pc[i] \notin OperatorPlaces
    BY <1>4 DEF Start, ScreenPass, ScreenProbe, Reserve, ReserveSuperseded, ReserveBounded, Arm,
          Send, Answer, RecordOffer, OperatorPlaces
  <2>2. UNCHANGED <<blk, tok>> /\ \E p : Goto(i, p)
    BY <1>4 DEF Start, ScreenPass, ScreenProbe, Reserve, ReserveSuperseded, ReserveBounded, Arm,
          Send, Answer, RecordOffer, Reply, Stay, Observe
  <2>3. pc[i] # "idle"
    BY <2>1 DEF OperatorPlaces
  <2> QED BY <1>1, <2>1, <2>2, <2>3, MoveClaims
<1>5. CASE Adopt(i) \/ LandSkip(i) \/ Rebuild(i) \/ Land(i)
  <2>1. /\ UNCHANGED <<blk, tok>> /\ pc[i] # "idle"
        /\ \E p \in {"land", "settle", "verified", OnError(i)} : Goto(i, p)
    BY <1>5 DEF Adopt, LandSkip, Rebuild, Land, Stay
  <2>2. {"land", "settle", "verified"} \subseteq OperatorPlaces
    BY DEF OperatorPlaces
  <2> QED BY <1>1, <1>2, <2>1, <2>2, MoveClaims
<1>6. CASE LandObserve(i) \/ SettleObserve(i) \/ Recover(i)
  <2>1. /\ UNCHANGED <<blk, tok>> /\ pc[i] # "idle"
        /\ \E p \in {"landing", "settling", "handback", "adopt", "land", OnError(i)} : Goto(i, p)
    <3>1. CASE LandObserve(i)
      BY <3>1 DEF LandObserve, Observe
    <3>2. CASE SettleObserve(i)
      BY <3>2 DEF SettleObserve, Observe
    <3>3. CASE Recover(i)
      BY <3>3 DEF Recover, Observe
    <3> QED BY <1>6, <3>1, <3>2, <3>3
  <2>2. {"landing", "settling", "handback", "adopt", "land"} \subseteq OperatorPlaces
    BY DEF OperatorPlaces
  <2> QED BY <1>1, <1>2, <2>1, <2>2, MoveClaims
<1>7. CASE RevisionRace(i)
  <2>1. /\ UNCHANGED <<blk, tok>> /\ pc[i] # "idle"
        /\ \E p \in {"verified", "settle", OnError(i)} : Goto(i, p)
    BY <1>7 DEF RevisionRace, Stay
  <2>2. {"verified", "settle"} \subseteq OperatorPlaces
    BY DEF OperatorPlaces
  <2> QED BY <1>1, <1>2, <2>1, <2>2, MoveClaims
<1>8. CASE Refused(i)
  BY <1>1, <1>2, <1>8, DoneClaims, MoveClaims DEF Refused, Stay
<1> QED BY <1>3, <1>4, <1>5, <1>6, <1>7, <1>8 DEF Advance

(* So does what disturbs it.                                                  *)
LEMMA DisturbClaims ==
    ASSUME OutboxTypeOK, NEW i \in Procs, Disturb(i)
    PROVE  ClaimKept(i) /\ RecoveryKept(i) /\ UNCHANGED <<token, parked>>
<1>1. ProcTypeOK /\ (i \in Frontends => i \notin Operators)
  BY OutboxAssumption DEF OutboxTypeOK
<1>2. UNCHANGED <<token, parked>>
  BY DEF Disturb, CarryGateMoved, NotExecuted, Timeout, Fail, LeaseLost, Shutdown, Crash,
        ledgerVars, rowVars
<1>3. CASE Crash(i)
  BY <1>1, <1>2, <1>3, DoneClaims DEF Crash
<1>4. CASE CarryGateMoved(i) \/ NotExecuted(i) \/ Timeout(i)
  <2>1. pc[i] \notin OperatorPlaces /\ pc[i] # "idle"
    BY <1>4 DEF CarryGateMoved, NotExecuted, Timeout, OperatorPlaces
  <2>2. UNCHANGED <<blk, tok>> /\ \E p : Goto(i, p)
    BY <1>4 DEF CarryGateMoved, NotExecuted, Timeout, Reply, Stay
  <2> QED BY <1>1, <1>2, <2>1, <2>2, MoveClaims
<1>5. CASE LeaseLost(i) \/ Shutdown(i)
  <2>1. UNCHANGED <<blk, tok>> /\ pc[i] # "idle" /\ i \in Frontends /\ \E p : Goto(i, p)
    BY <1>5 DEF LeaseLost, Shutdown, Stay
  <2> QED BY <1>1, <1>2, <2>1, MoveClaims
<1>6. CASE Fail(i)
  <2>1. UNCHANGED <<blk, tok>> /\ pc[i] # "idle" /\ Goto(i, OnError(i))
    BY <1>6 DEF Fail, Stay
  <2>2. i \in Operators => OnError(i) \in OperatorPlaces
    BY DEF OnError, OperatorPlaces
  <2> QED BY <1>1, <1>2, <2>1, <2>2, MoveClaims
<1> QED BY <1>3, <1>4, <1>5, <1>6 DEF Disturb

(* The lanes, the reconciler and the operator's other commands park nothing   *)
(* and bring nothing back.                                                    *)
LEMMA EnvironmentRows ==
    ASSUME OutboxTypeOK, Environment
    PROVE  /\ UNCHANGED <<pc, blk, tok, parked>>
           /\ \A b \in Blocks : token'[b] \in {token[b], NoToken}
<1>1. LedgerTypeOK
  BY DEF OutboxTypeOK
<1>2. UNCHANGED <<pc, blk, tok>>
  BY DEF Environment, IssueWork, Enqueue, OperatorAbandon, LateRun, LoseCall, ReconcilerObserve,
        ReconcilerCommit, ReconcilerRefused, SetHold, PolicyTransition, ClearFatal, procVars
<1>3. CASE \E b \in Blocks : OperatorAbandon(b)
  BY <1>1, <1>2, <1>3 DEF OperatorAbandon, OperatorAbandonTx, Close, LedgerTypeOK
<1>4. CASE PolicyTransition
  BY <1>2, <1>4 DEF PolicyTransition, PolicyTransitionTx
<1>5. CASE \/ \E b \in Blocks : IssueWork(b) \/ Enqueue(b)
           \/ \E c \in wire : LateRun(c) \/ LoseCall(c)
           \/ ReconcilerObserve \/ ReconcilerCommit \/ ReconcilerRefused
           \/ \E h \in BOOLEAN : SetHold(h)
           \/ ClearFatal
  <2>1. UNCHANGED <<token, parked>>
    BY <1>5 DEF IssueWork, IssueTx, Enqueue, EnqueueTx, LateRun, LoseCall, ReconcilerObserve,
          ObserveTx, ObserveTransitionTx, ReconcilerCommit, ReconcileBlocksTx, ReconcileBlocks,
          ReconcilerRefused, SetHold, SetHoldTx, ClearFatal, ClearFatalTx, ledgerVars, rowVars
  <2> QED BY <1>2, <2>1
<1> QED BY <1>3, <1>4, <1>5 DEF Environment

KeepsParked == \A b \in Blocks : parked[b] => parked'[b]

(* Every step keeps the parked rows parked, and their claims with operators.  *)
LEMMA ParkingStep ==
    ASSUME OutboxTypeOK, Busy, Parking, [OutboxNext]_vars
    PROVE  Parking' /\ KeepsParked
<1>1. LedgerTypeOK /\ ProcTypeOK /\ NoToken \notin Tokens
  BY LedgerAssumption DEF OutboxTypeOK
<1>2. \A j \in Procs : pc[j] # "idle" => blk[j] \in Blocks /\ tok[j] # NoToken
  BY <1>1 DEF Busy
<1>3. \A j \in Procs : j \in Operators \/ j \in Frontends
  BY DEF Procs
<1>4. Operators \subseteq Procs /\ Frontends \subseteq Procs
  BY DEF Procs
<1>5. ASSUME \A j \in Procs : \/ pc'[j] = "idle"
                              \/ pc[j] # "idle" /\ blk'[j] = blk[j] /\ tok'[j] = tok[j],
             \A j \in Operators : pc'[j] \in OperatorPlaces,
             \A b \in Blocks : /\ token'[b] \in {token[b], NoToken}
                               /\ parked'[b] => parked[b] \/ token'[b] = NoToken
      PROVE  Parking'
  <2>1. ASSUME NEW j \in Frontends, pc'[j] # "idle", token'[blk'[j]] = tok'[j]
        PROVE  ~parked'[blk'[j]]
    <3>1. pc[j] # "idle" /\ blk'[j] = blk[j] /\ tok'[j] = tok[j] /\ blk[j] \in Blocks
      BY <1>2, <1>4, <1>5, <2>1
    <3>2. token'[blk[j]] # NoToken /\ tok[j] # NoToken
      BY <1>2, <1>4, <2>1, <3>1
    <3>3. token[blk[j]] = tok[j] /\ (parked'[blk[j]] => parked[blk[j]])
      BY <1>5, <2>1, <3>1, <3>2
    <3> QED BY <3>1, <3>3 DEF Parking
  <2> QED BY <1>5, <2>1 DEF Parking
<1>6. ASSUME NEW i \in Procs, ClaimKept(i), RecoveryKept(i), RowsUnclaimed(i)
      PROVE  Parking' /\ KeepsParked
  <2>1. \A j \in Procs : \/ pc'[j] = "idle"
                         \/ pc[j] # "idle" /\ blk'[j] = blk[j] /\ tok'[j] = tok[j]
    BY <1>6 DEF ClaimKept
  <2>2. \A j \in Operators : pc'[j] \in OperatorPlaces
    BY <1>4, <1>6 DEF ClaimKept, RecoveryKept, Parking
  <2>3. Parking'
    BY <1>5, <1>6, <2>1, <2>2 DEF RowsUnclaimed
  <2>4. KeepsParked
    <3>1. pc[i] \in Rescheduling => i \in Frontends /\ pc[i] # "idle"
      BY <1>3 DEF Parking, Rescheduling, OperatorPlaces
    <3> QED BY <1>6, <3>1 DEF RowsUnclaimed, Parking, KeepsParked
  <2> QED BY <2>3, <2>4
<1>7. ASSUME NEW i \in Procs, Advance(i) PROVE Parking' /\ KeepsParked
  BY <1>6, <1>7, AdvanceRows, AdvanceClaims
<1>8. ASSUME NEW i \in Procs, Disturb(i) PROVE Parking' /\ KeepsParked
  BY <1>6, <1>8, DisturbClaims DEF RowsUnclaimed
<1>9. ASSUME NEW i \in Procs, NEW b \in Blocks, NEW t \in Tokens,
             ClaimLane(i, b, t) \/ TakeOver(i, b, t) \/ RecoveryClaim(i, b, t)
      PROVE  Parking' /\ KeepsParked
  <2>1. /\ \A j \in Procs : tok[j] # t
        /\ token' = [token EXCEPT ![b] = t] /\ parked' = parked
        /\ i \in Frontends => ~parked[b]
        /\ \E p : Take(i, b, t, p) /\ (i \in Operators => p \in OperatorPlaces)
    BY <1>9, OutboxAssumption DEF ClaimLane, TakeOver, RecoveryClaim, ClaimTx, RecoveryClaimTx,
          Fresh, OperatorPlaces
  <2>2. /\ \A j \in Procs \ {i} : pc'[j] = pc[j] /\ blk'[j] = blk[j] /\ tok'[j] = tok[j]
        /\ blk'[i] = b /\ tok'[i] = t /\ (i \in Operators => pc'[i] \in OperatorPlaces)
    BY <1>1, <2>1 DEF Take, Goto, ProcTypeOK
  <2>3. \A c \in Blocks : token'[c] = IF c = b THEN t ELSE token[c]
    BY <1>1, <2>1 DEF LedgerTypeOK
  <2>4. ASSUME NEW j \in Frontends, pc'[j] # "idle", token'[blk'[j]] = tok'[j]
        PROVE  ~parked'[blk'[j]]
    <3>1. CASE j = i
      BY <2>1, <2>2, <2>4, <3>1
    <3>2. CASE j # i
      <4>1. pc[j] # "idle" /\ blk'[j] = blk[j] /\ tok'[j] = tok[j] /\ blk[j] \in Blocks
        BY <1>2, <1>4, <2>2, <2>4, <3>2
      <4>2. token[blk[j]] = tok[j]
        BY <1>4, <2>1, <2>3, <2>4, <4>1
      <4> QED BY <2>1, <4>1, <4>2 DEF Parking
    <3> QED BY <3>1, <3>2
  <2>5. \A j \in Operators : pc'[j] \in OperatorPlaces
    BY <1>4, <2>2 DEF Parking
  <2> QED BY <2>1, <2>4, <2>5 DEF Parking, KeepsParked
<1>10. CASE Environment
  <2>1. Parking'
    BY <1>5, <1>10, EnvironmentRows DEF Parking
  <2> QED BY <1>10, <2>1, EnvironmentRows DEF KeepsParked
<1>11. CASE UNCHANGED vars
  BY <1>11 DEF vars, ledgerVars, rowVars, procVars, Parking, KeepsParked
<1> QED BY <1>7, <1>8, <1>9, <1>10, <1>11 DEF OutboxNext

(* A parked row stays operator work until it is closed. *)
THEOREM ParkedRowsStay == OutboxSpec => ParkedStaysParked
<1>1. OutboxInit => Parking
  BY OutboxAssumption DEF OutboxInit, Parking, OperatorPlaces, Procs
<1>2. Inv /\ Parking /\ [OutboxNext]_vars => Parking' /\ [KeepsParked]_vars
  BY ParkingStep DEF Inv
<1>3. OutboxSpec => [][KeepsParked]_vars
  BY <1>1, <1>2, InvHolds, PTL DEF OutboxSpec
<1> QED BY <1>3 DEF ParkedStaysParked, KeepsParked
=============================================================================
