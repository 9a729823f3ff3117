--------------------------- MODULE CandidateOutbox ---------------------------
(***************************************************************************)
(* How the frontends bring found blocks to the node and to the books: the  *)
(* submit loop's attempts (coordinator.rs), the operator's recovery, the   *)
(* reconciler of the refresh loop, the `submitblock` calls on the wire and *)
(* the node, over the transactions of CandidateLedger.                     *)
(*                                                                         *)
(* An attempt's control state `pc` names the await it is suspended at.     *)
(* Between two awaits another frontend may take over the row, the accepted *)
(* chain may move and the process may crash.  A submitblock call outlives  *)
(* the attempt that sent it.                                               *)
(*                                                                         *)
(* An observation is one action: observe_candidate proves the node's tip   *)
(* unchanged around its reads, and the payout revision it returns fences   *)
(* every write made from it.                                               *)
(***************************************************************************)
EXTENDS CandidateLedger

CONSTANTS
    Frontends,      \* processes running the submit loop
    Operators,      \* processes running the operator's recovery command
    NoBlock,        \* the block of an idle process
    Elsewhere,      \* blocks that may reach the node by another route
    CarryPaying,    \* blocks whose coinbase pays carried balances
    MaxRetries,     \* REVISION_RACE_RETRIES
    MaxFaults       \* bound on faults: crashes, errors, lost or refused calls

Procs == Frontends \union Operators

ASSUME OutboxAssumption ==
    /\ Frontends \intersect Operators = {}
    /\ NoBlock \notin Blocks
    /\ Elsewhere \subseteq Blocks /\ CarryPaying \subseteq Blocks
    /\ MaxRetries \in Nat /\ MaxFaults \in Nat

VARIABLES
    pc,         \* where each process is
    blk,        \* the block of its claim
    tok,        \* the token of its claim
    seen,       \* the row's state when it was claimed
    obsTip,     \* the tip of its last observation
    obsRev,     \* the payout revision of its last observation
    out,        \* the answer classify_offer gave its call
    retries,    \* revision races its current phase has lost
    wire,       \* submitblock calls sent and not yet run, lost or refused
    runs,       \* how often the node ran submitblock for each block
    recon,      \* the reconciler's observation, waiting for its transaction
    faults

procVars == <<pc, blk, tok, seen, obsTip, obsRev, out, retries>>
nodeVars == <<wire, runs>>
vars == <<ledgerVars, procVars, nodeVars, recon, faults>>

PreOffer  == {"claimed", "screen", "adopt", "abandon", "reserve", "bounding",
              "reserved", "captured", "armed", "cleared", "waiting", "unsent",
              "answered"}
PostOffer == {"land", "verified", "landing", "settle", "settling"}
Closing   == {"invalid", "recover", "reconcile", "failed", "handback"}

ProcTypeOK ==
    /\ pc \in [Procs -> {"idle"} \union PreOffer \union PostOffer \union Closing]
    /\ blk \in [Procs -> Blocks \union {NoBlock}]
    /\ tok \in [Procs -> Tokens \union {NoToken}]
    /\ seen \in [Procs -> RowStates]
    /\ obsTip \in [Procs -> Tips]
    /\ obsRev \in [Procs -> Nat]
    /\ out \in [Procs -> Outcomes \union {"none"}]
    /\ retries \in [Procs -> Nat]

NodeTypeOK ==
    /\ wire \subseteq Blocks \X Tokens
    /\ runs \in [Blocks -> Nat]

OutboxTypeOK ==
    /\ LedgerTypeOK
    /\ ProcTypeOK
    /\ NodeTypeOK
    /\ recon \in [on : BOOLEAN, tip : Tips, rev : Nat, seen : SUBSET Blocks]
    /\ faults \in Nat

NoRecon == [on |-> FALSE, tip |-> StartTip, rev |-> 0, seen |-> {}]

OutboxInit ==
    /\ LedgerInit
    /\ pc = [i \in Procs |-> "idle"]
    /\ blk = [i \in Procs |-> NoBlock]
    /\ tok = [i \in Procs |-> NoToken]
    /\ seen = [i \in Procs |-> "absent"]
    /\ obsTip = [i \in Procs |-> StartTip]
    /\ obsRev = [i \in Procs |-> 0]
    /\ out = [i \in Procs |-> "none"]
    /\ retries = [i \in Procs |-> 0]
    /\ wire = {}
    /\ runs = [b \in Blocks |-> 0]
    /\ recon = NoRecon
    /\ faults = 0

-----------------------------------------------------------------------------
(* Steps of a process. *)

Goto(i, p) == pc' = [pc EXCEPT ![i] = p]

(* The end of an attempt: nothing of it outlives it but its call. *)
Done(i) ==
    /\ Goto(i, "idle")
    /\ blk' = [blk EXCEPT ![i] = NoBlock]
    /\ tok' = [tok EXCEPT ![i] = NoToken]
    /\ seen' = [seen EXCEPT ![i] = "absent"]
    /\ obsTip' = [obsTip EXCEPT ![i] = StartTip]
    /\ obsRev' = [obsRev EXCEPT ![i] = 0]
    /\ out' = [out EXCEPT ![i] = "none"]
    /\ retries' = [retries EXCEPT ![i] = 0]

(* An attempt moves on and keeps what it knows. *)
Stay(i, p) ==
    /\ Goto(i, p)
    /\ UNCHANGED <<blk, tok, seen, obsTip, obsRev, out, retries>>

(* A chain that holds a block has got it from a run of submitblock or from *)
(* somewhere else.                                                         *)
Known(tip) == \A b \in Blocks : Active(tip, b) => runs[b] > 0 \/ b \in Elsewhere

(* observe_candidate: the tip is accepted, with the revision it now has. *)
Observe(i, tip, p) ==
    /\ Known(tip)
    /\ ObserveTx(tip)
    /\ Goto(i, p)
    /\ obsTip' = [obsTip EXCEPT ![i] = tip]
    /\ obsRev' = [obsRev EXCEPT ![i] = revision']
    /\ UNCHANGED <<blk, tok, seen, out, retries>>

(* Where an error takes an attempt.  After the offer the row is settled in   *)
(* reconciliation; before it, and if that fails, the claim is released.  The *)
(* operator's command hands every stopped claim back.                        *)
OnError(i) ==
    IF i \in Operators THEN "handback"
    ELSE IF pc[i] \in PostOffer THEN "reconcile" ELSE "failed"

(* A token is a fresh UUID. *)
Fresh(t) ==
    /\ \A b \in Blocks : token[b] # t
    /\ \A i \in Procs : tok[i] # t
    /\ \A c \in wire : c[2] # t

LiveHolder(b) == \E i \in Procs : tok[i] # NoToken /\ tok[i] = token[b]

Take(i, b, t, p) ==
    /\ Goto(i, p)
    /\ blk' = [blk EXCEPT ![i] = b]
    /\ tok' = [tok EXCEPT ![i] = t]
    /\ seen' = [seen EXCEPT ![i] = state[b]]
    /\ UNCHANGED <<obsTip, obsRev, out, retries>>

(* A fault spends the budget that keeps the instance finite. *)
Charge ==
    /\ faults < MaxFaults
    /\ faults' = faults + 1

NoFault == UNCHANGED faults
Quiet   == UNCHANGED <<nodeVars, recon>>

-----------------------------------------------------------------------------
(* Found blocks and claims. *)

IssueWork(b) ==
    /\ IssueTx(b)
    /\ UNCHANGED procVars /\ Quiet /\ NoFault

Enqueue(b) ==
    /\ EnqueueTx(b)
    /\ UNCHANGED procVars /\ Quiet /\ NoFault

(* One release may fail to decode what another decodes, and frontends of      *)
(* different releases claim the same rows.                                     *)
ClaimedAt(b) == {"claimed"} \union (IF b \in Unreadable THEN {"invalid"} ELSE {})

ClaimLane(i, b, t) ==
    /\ i \in Frontends /\ pc[i] = "idle" /\ Fresh(t)
    /\ token[b] = NoToken
    /\ ClaimTx(b, t)
    /\ \E at \in ClaimedAt(b) : Take(i, b, t, at)
    /\ Quiet /\ NoFault

(* A claim that went unrenewed for its lease is taken over.  Its holder may *)
(* be gone, or only stalled between two of its steps (module ClaimLease).   *)
TakeOver(i, b, t) ==
    /\ i \in Frontends /\ pc[i] = "idle" /\ Fresh(t)
    /\ token[b] # NoToken
    /\ ClaimTx(b, t)
    /\ \E at \in ClaimedAt(b) : Take(i, b, t, at)
    /\ Quiet
    /\ IF LiveHolder(b) THEN Charge ELSE NoFault

(* The recovery command may be of a release that reads what the frontends' *)
(* release cannot; a row it cannot read either is handed back.             *)
RecoveryClaim(i, b, t) ==
    /\ i \in Operators /\ pc[i] = "idle" /\ Fresh(t)
    /\ RecoveryClaimTx(b, t)
    /\ \/ Take(i, b, t, "recover")
       \/ b \in Unreadable /\ Take(i, b, t, "handback")
    /\ Quiet
    /\ Charge

Park(i) ==
    /\ pc[i] = "invalid"
    /\ ParkTx(blk[i], tok[i], seen[i])
    /\ Done(i)
    /\ Quiet /\ NoFault

(* The heartbeat's first renewal, then the dispatch on the claimed state. *)
Start(i) ==
    /\ pc[i] = "claimed"
    /\ Writable /\ Holds(blk[i], tok[i])
    /\ Stay(i, IF seen[i] = "pending" THEN "screen" ELSE "land")
    /\ UNCHANGED ledgerVars /\ Quiet /\ NoFault

-----------------------------------------------------------------------------
(* The offer of a pending block. *)

(* Leased work, and work the cached hints show current, needs no probe.  The *)
(* cached tip may be stale; the revision is read now.                        *)
ScreenPass(i) ==
    /\ pc[i] = "screen"
    /\ blk[i] \in Leased \/ revision = issued[blk[i]]
    /\ Stay(i, "reserve")
    /\ UNCHANGED ledgerVars /\ Quiet /\ NoFault

(* The authoritative probe: adopt an active block, abandon a superseded one, *)
(* go on with one whose parent is still the tip.                             *)
ScreenProbe(i) ==
    /\ pc[i] = "screen"
    /\ blk[i] \notin Leased
    /\ \E tip \in Tips :
         Observe(i, tip,
                 IF Active(tip, blk[i]) THEN "adopt"
                 ELSE IF \/ View[tip][blk[i]] # "open"
                         \/ ~CaptureOn /\ revision' # issued[blk[i]]
                      THEN "abandon" ELSE "reserve")
    /\ Quiet /\ NoFault

Adopt(i) ==
    /\ pc[i] = "adopt"
    /\ AdoptTx(blk[i], tok[i])
    /\ Stay(i, "land")
    /\ Quiet /\ NoFault

Abandon(i) ==
    /\ pc[i] = "abandon"
    /\ AbandonTx(blk[i], tok[i], obsRev[i])
    /\ Done(i)
    /\ Quiet /\ NoFault

(* The reservation of work that is leased or still current. *)
Reserve(i) ==
    /\ pc[i] = "reserve"
    /\ blk[i] \in Leased \/ revision = issued[blk[i]]
    /\ ReserveTx(blk[i], tok[i])
    /\ Stay(i, "reserved")
    /\ Quiet /\ NoFault

(* Superseded work, or carry-paying work behind a closed carry gate, is not *)
(* reserved as current: with capture off it is refused, otherwise its row   *)
(* lock is dropped while the overpay bound is computed.                     *)
ReserveSuperseded(i) ==
    /\ pc[i] = "reserve"
    /\ blk[i] \notin Leased
    /\ revision # issued[blk[i]] \/ blk[i] \in CarryPaying
    /\ Writable /\ ~hold
    /\ Goto(i, IF CaptureOn THEN "bounding" ELSE "abandon")
    /\ obsRev' = [obsRev EXCEPT ![i] = revision]
    /\ UNCHANGED <<blk, tok, seen, obsTip, out, retries, ledgerVars>>
    /\ Quiet /\ NoFault

(* The bound is immutable, so no later revision matters to this decision. *)
ReserveBounded(i) ==
    /\ pc[i] = "bounding"
    /\ \/ /\ blk[i] \in Captured
          /\ ReserveTx(blk[i], tok[i])
          /\ Stay(i, "captured")
       \/ /\ blk[i] \notin Captured
          /\ Writable /\ ~hold
          /\ Stay(i, "abandon")
          /\ UNCHANGED ledgerVars
    /\ Quiet /\ NoFault

(* The strictly-live renewal at the boundary. *)
Arm(i) ==
    /\ pc[i] \in {"reserved", "captured"}
    /\ Writable /\ Holds(blk[i], tok[i])
    /\ Stay(i, IF pc[i] = "reserved" THEN "armed" ELSE "cleared")
    /\ UNCHANGED ledgerVars /\ Quiet /\ NoFault

(* The carry gate moved since the block was reserved as current work. *)
CarryGateMoved(i) ==
    /\ pc[i] = "armed"
    /\ blk[i] \in CarryPaying \ Leased
    /\ Stay(i, "unsent")
    /\ UNCHANGED ledgerVars /\ Quiet /\ Charge

Send(i) ==
    /\ pc[i] \in {"armed", "cleared"}
    /\ wire' = wire \union {<<blk[i], tok[i]>>}
    /\ Stay(i, "waiting")
    /\ UNCHANGED <<ledgerVars, runs, recon>> /\ NoFault

Reply(i, o) ==
    /\ Goto(i, "answered")
    /\ out' = [out EXCEPT ![i] = o]
    /\ UNCHANGED <<blk, tok, seen, obsTip, obsRev, retries>>

(* The node runs the call and its answer arrives, or is not understood. *)
Answer(i) ==
    /\ pc[i] = "waiting"
    /\ <<blk[i], tok[i]>> \in wire
    /\ wire' = wire \ {<<blk[i], tok[i]>>}
    /\ runs' = [runs EXCEPT ![blk[i]] = @ + 1]
    /\ \E o \in Outcomes : Reply(i, o)
    /\ UNCHANGED <<ledgerVars, recon>> /\ NoFault

(* The call was never connected, or the node answered from its warmup. *)
NotExecuted(i) ==
    /\ pc[i] = "waiting"
    /\ <<blk[i], tok[i]>> \in wire
    /\ wire' = wire \ {<<blk[i], tok[i]>>}
    /\ Stay(i, "unsent")
    /\ UNCHANGED <<ledgerVars, runs, recon>> /\ Charge

(* Mutant of Timeout: a call that timed out is taken for one that never ran. *)
TimeoutAsUnsent(i) ==
    /\ pc[i] = "waiting"
    /\ Stay(i, "unsent")
    /\ UNCHANGED <<ledgerVars, nodeVars, recon>> /\ Charge

(* The bounded call times out; the node may still run it. *)
Timeout(i) ==
    /\ pc[i] = "waiting"
    /\ Reply(i, "unknown")
    /\ UNCHANGED <<ledgerVars, nodeVars, recon>> /\ Charge

ReleaseUnsent(i) ==
    /\ pc[i] = "unsent"
    /\ ReleaseUnsentTx(blk[i], tok[i])
    /\ Done(i)
    /\ Quiet /\ NoFault

RecordOffer(i) ==
    /\ pc[i] = "answered"
    /\ RecordOfferTx(blk[i], tok[i], out[i])
    /\ Stay(i, "land")
    /\ Quiet /\ NoFault

-----------------------------------------------------------------------------
(* After the offer: land the audit, prove the block active, settle the row. *)

(* An audit that landed before is authenticated and reused. *)
LandSkip(i) ==
    /\ pc[i] = "land"
    /\ poolState[blk[i]] # "none"
    /\ Stay(i, "settle")
    /\ UNCHANGED ledgerVars /\ Quiet /\ NoFault

(* The window is read, the audit rebuilt and verified, or refused. *)
Rebuild(i) ==
    /\ pc[i] = "land"
    /\ poolState[blk[i]] = "none"
    /\ Stay(i, IF blk[i] \in Rebuildable THEN "verified" ELSE OnError(i))
    /\ UNCHANGED ledgerVars /\ Quiet /\ NoFault

(* A retry lands only a block the fresh observation still shows active. *)
LandObserve(i) ==
    /\ pc[i] = "verified"
    /\ \E tip \in Tips :
         Observe(i, tip, IF retries[i] > 0 /\ ~Active(tip, blk[i]) THEN OnError(i) ELSE "landing")
    /\ Quiet /\ NoFault

Land(i) ==
    /\ pc[i] = "landing"
    /\ LandTx(blk[i], tok[i], obsRev[i])
    /\ Goto(i, "settle")
    /\ retries' = [retries EXCEPT ![i] = 0]
    /\ UNCHANGED <<blk, tok, seen, obsTip, obsRev, out>>
    /\ Quiet /\ NoFault

(* Only evidence observed now advances the payout state: an active block is *)
(* finished, a buried one orphaned, any other kept for reconciliation.  The *)
(* operator's command settles an active block only.                         *)
SettleObserve(i) ==
    /\ pc[i] = "settle"
    /\ \E tip \in Tips :
         Observe(i, tip,
                 IF \/ Active(tip, blk[i])
                    \/ i \in Frontends /\ View[tip][blk[i]] = "buried"
                 THEN "settling" ELSE OnError(i))
    /\ Quiet /\ NoFault

Finish(i) ==
    /\ pc[i] = "settling"
    /\ Active(obsTip[i], blk[i])
    /\ FinishTx(blk[i], tok[i], obsRev[i])
    /\ Done(i)
    /\ Quiet /\ NoFault

Orphan(i) ==
    /\ pc[i] = "settling"
    /\ ~Active(obsTip[i], blk[i])
    /\ OrphanTx(blk[i], tok[i], obsRev[i])
    /\ Done(i)
    /\ Quiet /\ NoFault

(* A write refused because the revision moved is observed and written again, *)
(* within its phase's budget.                                                *)
RevisionRace(i) ==
    /\ pc[i] \in {"landing", "settling"}
    /\ Writable /\ Holds(blk[i], tok[i])
    /\ ~AtRevision(obsRev[i])
    /\ IF retries[i] < MaxRetries
       THEN /\ Goto(i, IF pc[i] = "landing" THEN "verified" ELSE "settle")
            /\ retries' = [retries EXCEPT ![i] = @ + 1]
            /\ UNCHANGED <<blk, tok, seen, obsTip, obsRev, out>>
       ELSE Stay(i, OnError(i))
    /\ UNCHANGED ledgerVars /\ Quiet /\ NoFault

Reconcile(i) ==
    /\ pc[i] = "reconcile"
    /\ ReconcileTx(blk[i], tok[i])
    /\ Done(i)
    /\ Quiet /\ NoFault

(* The operator's recovery: the chain must hold the block now. *)
Recover(i) ==
    /\ pc[i] = "recover"
    /\ \E tip \in Tips :
         Observe(i, tip, IF ~Active(tip, blk[i]) THEN "handback"
                         ELSE IF seen[i] = "pending" THEN "adopt" ELSE "land")
    /\ Quiet /\ NoFault

-----------------------------------------------------------------------------
(* Refused writes, errors and the ends of attempts. *)

Release(i) ==
    /\ pc[i] = "failed"
    /\ ReleaseTx(blk[i], tok[i])
    /\ Done(i)
    /\ Quiet /\ NoFault

HandBack(i) ==
    /\ pc[i] = "handback"
    /\ ReleaseRecoveryTx(blk[i], tok[i])
    /\ Done(i)
    /\ Quiet /\ NoFault

(* The awaits that are writes under the claim, and the row states they need. *)
Writes == {"claimed", "adopt", "abandon", "reserve", "bounding", "reserved", "captured",
           "unsent", "answered", "landing", "settling", "reconcile", "failed", "handback",
           "invalid"}

Requires(p) ==
    CASE p \in {"adopt", "abandon", "reserve", "bounding"} -> {"pending"}
      [] p \in {"answered", "unsent"} -> {"offer_reserved"}
      [] p \in {"landing", "settling", "reconcile"} -> OfferedStates
      [] OTHER -> Unfinished

Fenced(i) == Writable /\ Holds(blk[i], tok[i]) /\ state[blk[i]] \in Requires(pc[i])

(* A transaction refuses its write: the claim or the row's state is gone, the *)
(* cluster is held or fatal (which refuses observations too), the revision    *)
(* moved under an abandonment, or the orphan's block was confirmed.           *)
Refused(i) ==
    /\ pc[i] # "idle"
    /\ \/ pc[i] \in Writes /\ ~Fenced(i)
       \/ pc[i] \in {"reserve", "bounding"} /\ hold
       \/ pc[i] = "abandon" /\ ~AtRevision(obsRev[i])
       \/ pc[i] \in {"screen", "verified", "settle", "recover"} /\ fatal
       \/ /\ pc[i] = "settling" /\ AtRevision(obsRev[i])
          /\ ~Active(obsTip[i], blk[i]) /\ poolState[blk[i]] = "confirmed"
    /\ IF pc[i] \in {"failed", "handback", "invalid"} THEN Done(i) ELSE Stay(i, OnError(i))
    /\ UNCHANGED ledgerVars /\ Quiet /\ NoFault

(* An RPC or database error, or a node behind the cluster, ends the phase. *)
Fail(i) ==
    /\ pc[i] \notin {"idle", "failed", "handback", "invalid"}
    /\ Stay(i, OnError(i))
    /\ UNCHANGED ledgerVars /\ Quiet /\ Charge

(* The heartbeat lost the lease: the work is dropped, at whatever await. *)
LeaseLost(i) ==
    /\ i \in Frontends
    /\ pc[i] \notin {"idle", "failed", "handback", "invalid"}
    /\ Stay(i, "failed")
    /\ UNCHANGED ledgerVars /\ Quiet /\ Charge

(* A graceful shutdown drops an attempt outside its offer section, and one *)
(* inside it once the section's bound has passed, and hands its claim back. *)
Shutdown(i) ==
    /\ i \in Frontends
    /\ pc[i] \notin {"idle", "failed", "handback", "invalid"}
    /\ Stay(i, "handback")
    /\ UNCHANGED ledgerVars /\ Quiet /\ Charge

(* The process dies; its token stays on the row. *)
Crash(i) ==
    /\ pc[i] # "idle"
    /\ Done(i)
    /\ UNCHANGED ledgerVars /\ Quiet /\ Charge

-----------------------------------------------------------------------------
(* The node, the reconciler and the operator. *)

Unattended(c) == \A i \in Procs : ~(pc[i] = "waiting" /\ tok[i] = c[2])

(* A call nobody waits for any more runs late, or is lost. *)
LateRun(c) ==
    /\ c \in wire /\ Unattended(c)
    /\ wire' = wire \ {c}
    /\ runs' = [runs EXCEPT ![c[1]] = @ + 1]
    /\ UNCHANGED <<ledgerVars, procVars, recon>> /\ NoFault

LoseCall(c) ==
    /\ c \in wire /\ Unattended(c)
    /\ wire' = wire \ {c}
    /\ UNCHANGED <<ledgerVars, procVars, runs, recon>> /\ NoFault

(* The refresh loop observes a tip and then asks the node about every pool *)
(* block.  One pending observation stands for every frontend's: each is    *)
(* fenced by its revision, so of two at one revision at most one changes   *)
(* anything.                                                               *)
ReconcilerObserve ==
    /\ ~recon.on
    /\ \E tip \in Tips :
         /\ Known(tip)
         /\ ObserveTx(tip) \/ ObserveTransitionTx(tip)
         /\ recon' = [on |-> TRUE, tip |-> tip, rev |-> revision', seen |-> PoolBlocksForReconcile]
    /\ UNCHANGED <<procVars, nodeVars>> /\ NoFault

ReconcilerCommit ==
    /\ recon.on
    /\ ReconcileBlocksTx(recon.tip, recon.rev, recon.seen)
    /\ recon' = NoRecon
    /\ UNCHANGED <<procVars, nodeVars>> /\ NoFault

ReconcilerRefused ==
    /\ recon.on
    /\ fatal \/ ~AtRevision(recon.rev)
    /\ recon' = NoRecon
    /\ UNCHANGED <<ledgerVars, procVars, nodeVars>> /\ NoFault

SetHold(h) ==
    /\ SetHoldTx(h)
    /\ UNCHANGED procVars /\ Quiet
    /\ IF h THEN Charge ELSE NoFault

OperatorAbandon(b) ==
    /\ OperatorAbandonTx(b)
    /\ UNCHANGED procVars /\ Quiet /\ Charge

(* Every frontend is drained or stopped. *)
ClearFatal ==
    /\ \A i \in Frontends : pc[i] = "idle"
    /\ \E tip \in Tips : Known(tip) /\ ClearFatalTx(tip)
    /\ UNCHANGED procVars /\ Quiet /\ Charge

(* Every frontend is stopped; calls already sent are not. *)
PolicyTransition ==
    /\ \A i \in Frontends : pc[i] = "idle"
    /\ PolicyTransitionTx
    /\ UNCHANGED procVars /\ Quiet /\ Charge

-----------------------------------------------------------------------------
(* One step of an attempt that depends on no fault. *)
Advance(i) ==
    \/ Park(i) \/ Start(i)
    \/ ScreenPass(i) \/ ScreenProbe(i) \/ Adopt(i) \/ Abandon(i)
    \/ Reserve(i) \/ ReserveSuperseded(i) \/ ReserveBounded(i)
    \/ Arm(i) \/ Send(i) \/ Answer(i) \/ ReleaseUnsent(i) \/ RecordOffer(i)
    \/ LandSkip(i) \/ Rebuild(i) \/ LandObserve(i) \/ Land(i)
    \/ SettleObserve(i) \/ Finish(i) \/ Orphan(i) \/ RevisionRace(i)
    \/ Reconcile(i) \/ Recover(i) \/ Release(i) \/ HandBack(i) \/ Refused(i)

Disturb(i) ==
    \/ CarryGateMoved(i) \/ NotExecuted(i) \/ Timeout(i)
    \/ Fail(i) \/ LeaseLost(i) \/ Shutdown(i) \/ Crash(i)

Environment ==
    \/ \E b \in Blocks : IssueWork(b) \/ Enqueue(b) \/ OperatorAbandon(b)
    \/ \E c \in wire : LateRun(c) \/ LoseCall(c)
    \/ ReconcilerObserve \/ ReconcilerCommit \/ ReconcilerRefused
    \/ \E h \in BOOLEAN : SetHold(h)
    \/ PolicyTransition \/ ClearFatal

OutboxNext ==
    \/ \E i \in Procs : Advance(i) \/ Disturb(i)
    \/ \E i \in Procs, b \in Blocks, t \in Tokens :
         ClaimLane(i, b, t) \/ TakeOver(i, b, t) \/ RecoveryClaim(i, b, t)
    \/ Environment

OutboxSpec == OutboxInit /\ [][OutboxNext]_vars

(* The submit loops, the recovery and the reconciler keep running: every     *)
(* await is bounded by a timeout, the oldest-due lane orders rows by due     *)
(* time so that none is passed over for ever, and every poll surveys claims. *)
OutboxFairness ==
    /\ \A i \in Procs : WF_vars(Advance(i))
    /\ \A b \in Blocks :
         SF_vars(\E i \in Frontends, t \in Tokens : ClaimLane(i, b, t) \/ TakeOver(i, b, t))
    /\ WF_vars(ReconcilerObserve \/ ReconcilerCommit \/ ReconcilerRefused)

LiveOutboxSpec == OutboxSpec /\ OutboxFairness

-----------------------------------------------------------------------------
(* Safety. *)

(* A process that still may make the node run its block. *)
Custodian(i, b) ==
    blk[i] = b /\ pc[i] \in {"reserved", "captured", "armed", "cleared", "unsent"}

Uncommitted == {"absent", "pending", "abandoned"}

(* The node runs submitblock at most once for a found block, over every     *)
(* retry, takeover, crash, lost answer and late call (offer_candidate and   *)
(* the reservation that precedes its call).                                 *)
OfferedAtMostOnce == \A b \in Blocks : runs[b] <= 1

(* A row that is pending or abandoned has not been offered and no call for   *)
(* it can still run: abandoning and rescheduling never lose sight of a block *)
(* the node may hold (release_unsent_offer, finish_candidate, abandon).      *)
UncommittedNeverRuns ==
    \A b \in Blocks : state[b] \in Uncommitted =>
        runs[b] = 0 /\ \A c \in wire : c[1] # b

PhaseOf(b) ==
    IF state[b] \in {"absent", "pending"} THEN "undecided"
    ELSE IF state[b] = "abandoned" THEN "withdrawn" ELSE "committed"

ArmedOf(b) == (\E i \in Procs : Custodian(i, b)) \/ (\E c \in wire : c[1] = b)

Offer == INSTANCE OfferLifecycle WITH
    phase  <- [b \in Blocks |-> PhaseOf(b)],
    armed  <- [b \in Blocks |-> ArmedOf(b)],
    offers <- runs

(* The outbox implements the offer lifecycle. *)
ImplementsOfferLifecycle == Offer!OfferSpec

(* A block's rows start to count only while the accepted chain holds the      *)
(* block, though the node was asked in an earlier step: the revision fence    *)
(* refuses every stale observation (finish_candidate, reconcile_blocks).  The *)
(* operator's fatal-state clear works from its own node's chain.              *)
ConfirmedOnAcceptedChain ==
    [][\A b \in Blocks : poolState[b] # "confirmed" /\ poolState'[b] = "confirmed"
                         => fatal \/ Active(acceptedTip, b)]_vars

(* A row is closed as an orphan only while the accepted chain buries the     *)
(* block under a competitor, and never over a confirmation (orphan_candidate *)
(* _at_revision).                                                            *)
OrphanedOnlyWhenBuried ==
    [][\A b \in Blocks : state[b] # "orphaned" /\ state'[b] = "orphaned"
                         => View[acceptedTip][b] = "buried" /\ poolState[b] # "confirmed"]_vars

(* Every change of the set of blocks whose rows count is announced by a new *)
(* payout revision, so no job is built on balances that moved; only the     *)
(* walk that stops the cluster may leave it to the fatal-state clear.       *)
BalancesMoveRevision ==
    [][(\E b \in Blocks : (poolState[b] = "confirmed") # (poolState'[b] = "confirmed"))
         => revision' > revision \/ fatal']_vars

(* A parked row is operator work until it is closed: no release, recovery,   *)
(* takeover or policy transition puts it back in the lanes, though           *)
(* release_candidate_claim and reconcile_candidate write a finite schedule.  *)
ParkedStaysParked ==
    [][\A b \in Blocks : parked[b] => parked'[b]]_vars

(* The fanouts of a block whose rows count are on their way: a block that *)
(* comes back from a reorganisation brings its fanouts back.              *)
ConfirmedFanoutsLive ==
    \A b \in Blocks : poolState[b] = "confirmed" => fanout[b] # "reorged"

-----------------------------------------------------------------------------
(* Liveness. *)

Running(b) == ~hold /\ ~fatal /\ ~parked[b]

(* A pending row is decided, unless submission is held, the cluster is fatal *)
(* or the row waits for the operator: it is offered, adopted or abandoned.   *)
(* Once the accepted chain stays decided about an offered block, its row is  *)
(* closed: submitted, orphaned, or abandoned if it was provably not run.  A  *)
(* landed block the accepted chain keeps is confirmed, also after its row    *)
(* was closed as an orphan.                                                  *)
BlocksAreSettled ==
  /\ \A b \in Blocks : (state[b] = "pending") ~> (state[b] # "pending" \/ ~Running(b))
  /\ \A b \in Rebuildable :
       (state[b] \in OfferedStates
          /\ [](View[acceptedTip][b] \in {"active", "deep", "buried"} /\ Running(b)))
         ~> (state[b] \in TerminalStates)
  /\ \A b \in Blocks :
       (poolState[b] # "none" /\ [](Active(acceptedTip, b) /\ ~fatal))
         ~> (poolState[b] = "confirmed")

=============================================================================
