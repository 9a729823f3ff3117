----------------------------- MODULE CarryOwner -----------------------------
(***************************************************************************)
(* Which node of a dual-writer pair pays carried balances (carry_owner.rs,  *)
(* carry_owner/transfer.rs, the gate of ledger/carry.rs): the journals of   *)
(* ownership claims and their sync, the guard of each frontend, the gate    *)
(* its work is built and offered behind, and the operator's release and     *)
(* transfer.  An optional value is a set of at most one member.             *)
(*                                                                         *)
(* Only work that pays carried balances is followed, and only while it is   *)
(* at the node's payout revision: superseded work is not offered as current *)
(* (what may be offered under the capture ceiling is Divergence's subject), *)
(* and blocks found on carry-free work count among the foreign ones.  One   *)
(* chain is seen by both nodes, with forks one block deep.                  *)
(* The nodes' clocks agree, so a new epoch is above every earlier one.      *)
(***************************************************************************)
EXTENDS Integers, Sequences, FiniteSets

CONSTANTS
  ReleaseDepth,   \* release_depth, at least MIN_RELEASE_DEPTH
  Margin,         \* SCAN_REORG_MARGIN
  Scenes          \* what a behaviour starts from, and its bounds

ASSUME CarryAssumption == ReleaseDepth \in Nat /\ Margin \in Nat

(* A scene gives the journals' rows, the clock, the settings the operator   *)
(* may start with, the nodes whose work is mined, the nodes a transfer is   *)
(* run on, the nodes backed up, what the comparison of the coinbase layouts *)
(* may find, and bounds on epochs, heights and faults.                      *)
Nodes == {0, 1}
Peer(n) == 1 - n

VARIABLES
  scene,      \* never changes
  clock,      \* the epoch the next row gets
  \* each node's database: qbit_prism_node_roles, confirmed pool blocks
  journal, landed,
  backup,     \* an older copy of the database, or none
  \* each frontend
  setting,    \* PRISM_CARRY_OWNER
  latched,    \* the own-log latch
  guard,      \* Guard: peer_confirmed, highest_own_epoch (0: none)
  seen,       \* the local rows the check under way has read, or none
  gate, fence,    \* CarryGate: paying, fence_pending
  work,       \* the current carry-paying work, or none
  offer,      \* the block being offered, or none
  transfer,   \* the carry-owner transfer under way, or none
  \* the chain
  chain, side, faults  \* faults: restarts and restores

dbVars == <<journal, landed, backup>>
guardVars == <<setting, latched, guard, seen>>
gateVars == <<gate, fence>>
offerVars == <<work, offer>>
chainVars == <<chain, side>>
carryVars == <<scene, clock, dbVars, guardVars, gateVars, offerVars, transfer, chainVars, faults>>

----------------------------------------------------------------------------
(* Journals.                                                                *)

Newest(rows) == {r \in rows : \A s \in rows : s.epoch <= r.epoch}
Of(rows, n) == {r \in rows : r.origin = n}
Latest(rows, n) == Newest(Of(rows, n))
LatestClaim(rows, n) == Newest({r \in Of(rows, n) : r.owner})
Claims(rows, n) == \E r \in Latest(rows, n) : r.owner

(* append_role at next_epoch.                                               *)
AppendRole(n, owner, action, tip, peer) ==
  /\ clock <= scene.epochs
  /\ clock' = clock + 1
  /\ journal' = [journal EXCEPT ![n] = @ \cup
       {[origin |-> n, epoch |-> clock, owner |-> owner, action |-> action, tip |-> tip,
         peer |-> peer]}]

(* bump_payout_revision: earlier work is no longer current.                 *)
Superseded(n) == work' = [work EXCEPT ![n] = {}]

CarryInit ==
  /\ scene \in Scenes
  /\ clock = scene.clock /\ setting \in scene.settings
  /\ journal = [n \in Nodes |-> scene.rows]
  /\ landed = [n \in Nodes |-> {}]
  /\ backup = [n \in Nodes |-> {}]
  /\ latched = [n \in Nodes |-> TRUE]
  /\ guard = [n \in Nodes |-> [confirmed |-> FALSE, highest |-> 0]]
  /\ seen = [n \in Nodes |-> {}]
  /\ gate = [n \in Nodes |-> FALSE] /\ fence = [n \in Nodes |-> FALSE]
  /\ work = [n \in Nodes |-> {}] /\ offer = [n \in Nodes |-> {}]
  /\ transfer = [n \in Nodes |-> {}]
  /\ chain = <<>> /\ side = {} /\ faults = 0

(* apply_node_roles: the peer's rows are pulled, and this node's own rows   *)
(* come back from the peer (recover_own_log).                               *)
SyncRoles(n) ==
  /\ ~(Of(journal[Peer(n)], Peer(n)) \subseteq journal[n])
  /\ journal' = [journal EXCEPT ![n] = @ \cup Of(journal[Peer(n)], Peer(n))]
  /\ UNCHANGED <<scene, clock, landed, backup, guardVars, gateVars, offerVars, transfer, chainVars,
                 faults>>

RecoverOwnLog(n) ==
  /\ ~latched[n]
  /\ journal' = [journal EXCEPT ![n] = @ \cup Of(journal[Peer(n)], n)]
  /\ latched' = [latched EXCEPT ![n] = TRUE]
  /\ UNCHANGED <<scene, clock, landed, backup, setting, guard, seen, gateVars, offerVars, transfer,
                 chainVars, faults>>

----------------------------------------------------------------------------
(* The guard.                                                               *)

(* A read of the peer's journal: by its primary URL, by a fallback that may *)
(* lag, or not at all.                                                      *)
Answer(n, rows, primary) ==
  [ok |-> TRUE, primary |-> primary, peer |-> Latest(rows, Peer(n)), own |-> Latest(rows, n)]
Failed == [ok |-> FALSE, primary |-> FALSE, peer |-> {}, own |-> {}]
Answers(n) ==
  {Failed, Answer(n, journal[Peer(n)], TRUE)}
    \cup {Answer(n, b.journal, FALSE) : b \in backup[Peer(n)]}

(* Guard::decide: the guard's next state, which pays exactly when it is     *)
(* confirmed.                                                               *)
AcquiredAfter(own, release) == own.action = "acquire" /\ own.peer >= release.epoch
RolledBack(n, own) == IF own = {} THEN guard[n].highest # 0
                                  ELSE \E r \in own : r.epoch < guard[n].highest
(* Mutant: the peer's claim is looked for only in this node's copy.         *)
StopsOnSyncedClaim(n, own, synced, answer) ==
  LET peer == Newest(answer.peer \cup synced)
  IN \/ own = {} \/ RolledBack(n, own)
     \/ \E r \in own : ~r.owner \/ ~setting[n]
     \/ \E r \in own, theirs \in answer.own : theirs.epoch > r.epoch
     \/ \E r \in synced : r.owner
     \/ \E r \in own, release \in peer : release.action = "release" /\ ~AcquiredAfter(r, release)
     \/ answer.ok /\ peer = {}

(* Every reason not to pay.                                                 *)
Stops(n, own, synced, answer) ==
  LET peer == Newest(answer.peer \cup synced)
  IN \/ own = {} \/ RolledBack(n, own)
     \/ \E r \in own : ~r.owner \/ ~setting[n]
     \/ \E r \in own, theirs \in answer.own : theirs.epoch > r.epoch
     \/ \E r \in peer \cup answer.peer : r.owner
     \/ \E r \in own, release \in peer : release.action = "release" /\ ~AcquiredAfter(r, release)
     \/ answer.ok /\ peer = {}
Decide(n, own, synced, answer, mismatch) ==
  LET stops == mismatch \/ Stops(n, own, synced, answer)
  IN [confirmed |-> ~stops /\ (guard[n].confirmed \/ answer.primary),
      highest |-> IF mismatch \/ own = {} \/ RolledBack(n, own)
                  THEN guard[n].highest ELSE (CHOOSE r \in own : TRUE).epoch]

(* check reads this node's journal first.                                   *)
Local(n) == [own |-> Latest(journal[n], n), peer |-> Latest(journal[n], Peer(n)), answer |-> {}]
CheckReads(n) ==
  /\ seen[n] = {}
  /\ seen' = [seen EXCEPT ![n] = {Local(n)}]
  /\ UNCHANGED <<scene, clock, dbVars, setting, latched, guard, gateVars, offerVars, transfer,
                 chainVars, faults>>

(* A node with no row reads the peer before it seeds its journal, and       *)
(* decides on that answer.                                                  *)
SeedReads(n) ==
  /\ guard[n].highest = 0 /\ latched[n]
  /\ \E s \in seen[n], answer \in Answers(n) :
       /\ s.own = {} /\ s.answer = {}
       /\ seen' = [seen EXCEPT ![n] = {[s EXCEPT !.answer = {answer}]}]
  /\ UNCHANGED <<scene, clock, dbVars, setting, latched, guard, gateVars, offerVars, transfer,
                 chainVars, faults>>

(* seed_role, under the settlement lock; the journal is then read again.    *)
Seed(n) ==
  /\ \E s \in seen[n], answer \in UNION {s.answer : s \in seen[n]} :
       /\ s.own = {} /\ answer.primary /\ answer.own = {}
       /\ Of(journal[n], n) = {}
       /\ AppendRole(n, setting[n], "seed", -1, 0)
       /\ seen' = [seen EXCEPT ![n] =
            {[s EXCEPT !.own = Latest(journal'[n], n), !.peer = Latest(journal[n], Peer(n))]}]
  /\ UNCHANGED <<scene, landed, backup, setting, latched, guard, gateVars, offerVars, transfer,
                 chainVars, faults>>

(* Then the peer's, decides, and moves the gate; the bump that fences the   *)
(* change follows.                                                          *)
(* Mutant: the change is not fenced.                                        *)
MovedUnfenced(n, paying) ==
  /\ gate' = [gate EXCEPT ![n] = paying]
  /\ IF gate[n] # paying
     THEN /\ offer' = [offer EXCEPT ![n] = {[o EXCEPT !.moved = TRUE] : o \in @}]
          /\ UNCHANGED fence
     ELSE UNCHANGED <<fence, offer>>

(* set_carry_paying: the gate, its generation, and the fence.               *)
Moved(n, paying) ==
  /\ gate' = [gate EXCEPT ![n] = paying]
  /\ IF gate[n] # paying
     THEN /\ fence' = [fence EXCEPT ![n] = n \in scene.miners]
          /\ offer' = [offer EXCEPT ![n] = {[o EXCEPT !.moved = TRUE] : o \in @}]
     ELSE UNCHANGED <<fence, offer>>

CheckDecides(n, answer, mismatch) ==
  /\ \E s \in seen[n] :
       /\ s.answer \subseteq {answer}
       /\ LET next == Decide(n, s.own, s.peer, answer, mismatch)
          IN /\ guard' = [guard EXCEPT ![n] = next]
             /\ Moved(n, next.confirmed)
  /\ seen' = [seen EXCEPT ![n] = {}]
  /\ UNCHANGED <<scene, clock, dbVars, setting, latched, work, transfer, chainVars, faults>>

FenceCarryChange(n) ==
  /\ fence[n]
  /\ fence' = [fence EXCEPT ![n] = FALSE]
  /\ Superseded(n)
  /\ UNCHANGED <<scene, clock, dbVars, guardVars, gate, offer, transfer, chainVars, faults>>

----------------------------------------------------------------------------
(* Work and offers.                                                         *)

Active == {chain[h].id : h \in DOMAIN chain}
IdAt(h) == IF h \in DOMAIN chain THEN chain[h].id ELSE <<0, 2, FALSE>>
TipId == IdAt(Len(chain))

(* job_prior_balance_sql_in: the gate and this node's journal, in the       *)
(* snapshot.                                                                *)
PaysNow(n) == gate[n] /\ Claims(journal[n], n)
BuildWork(n) ==
  LET new == [on |-> TipId, sees |-> landed[n] \cap Active]
  IN /\ n \in scene.miners /\ PaysNow(n) /\ work[n] # {new}
     /\ work' = [work EXCEPT ![n] = {new}]
     /\ UNCHANGED <<scene, clock, dbVars, guardVars, gateVars, offer, transfer, chainVars, faults>>

(* A block is found on the work and its offer is reserved.                  *)
NotCurrent(n) == ~gate[n] \/ fence[n]
ReserveOffer(n) ==
  /\ offer[n] = {} /\ ~NotCurrent(n)
  /\ \E w \in work[n] :
       offer' = [offer EXCEPT ![n] =
                   {[on |-> w.on, sees |-> w.sees, moved |-> FALSE, cleared |-> FALSE]}]
  /\ UNCHANGED <<scene, clock, dbVars, guardVars, gateVars, work, transfer, chainVars, faults>>

(* The gate and the journal are read once more before the send.             *)
Unsendable(n, o) == NotCurrent(n) \/ o.moved \/ ~Claims(journal[n], n)
CheckOffer(n) ==
  /\ \E o \in offer[n] :
       /\ ~o.cleared
       /\ offer' = [offer EXCEPT ![n] = IF Unsendable(n, o) THEN {}
                                        ELSE {[o EXCEPT !.cleared = TRUE]}]
  /\ UNCHANGED <<scene, clock, dbVars, guardVars, gateVars, work, transfer, chainVars, faults>>

(* A block is known by its height, who found it, and whether it forked off. *)
Block(n, o, height, forked) == [id |-> <<height, n, forked>>, by |-> n, sees |-> o.sees]
Foreign(height) == [id |-> <<height, 2, FALSE>>, by |-> 2, sees |-> {}]

(* submitblock: the block extends the tip, forks off below it, or is stale. *)
SubmitBlock(n) ==
  /\ Len(chain) < scene.height
  /\ \E o \in offer[n] :
       /\ o.cleared
       /\ \/ /\ o.on = TipId
             /\ chain' = Append(chain, Block(n, o, Len(chain) + 1, FALSE)) /\ side' = {}
          \/ /\ Len(chain) >= 1 /\ o.on = IdAt(Len(chain) - 1)
             /\ side' = {Block(n, o, Len(chain), TRUE)} /\ UNCHANGED chain
          \/ /\ o.on # TipId
             /\ UNCHANGED chainVars
  /\ offer' = [offer EXCEPT ![n] = {}]
  /\ UNCHANGED <<scene, clock, dbVars, guardVars, gateVars, work, transfer, faults>>

(* Another miner extends the tip, or the block beside it.                   *)
ForeignBlock ==
  /\ Len(chain) < scene.height
  /\ chain' = Append(chain, Foreign(Len(chain) + 1)) /\ side' = {}
  /\ UNCHANGED <<scene, clock, dbVars, guardVars, gateVars, offerVars, transfer, faults>>

SwitchChain ==
  /\ Len(chain) < scene.height
  /\ \E b \in side : chain' = SubSeq(chain, 1, Len(chain) - 1) \o <<b, Foreign(Len(chain) + 1)>>
  /\ side' = {}
  /\ UNCHANGED <<scene, clock, dbVars, guardVars, gateVars, offerVars, transfer, faults>>

(* A pool block lands and is confirmed where it was found, then, copied, at *)
(* the peer; its confirmation bumps the payout revision.                    *)
LandBlock(n, h) ==
  /\ h \in DOMAIN chain /\ chain[h].by \in Nodes /\ chain[h].id \notin landed[n]
  /\ chain[h].by = n \/ chain[h].id \in landed[Peer(n)]
  /\ landed' = [landed EXCEPT ![n] = @ \cup {chain[h].id}]
  /\ Superseded(n)
  /\ UNCHANGED <<scene, clock, journal, backup, guardVars, gateVars, offer, transfer, chainVars, faults>>

----------------------------------------------------------------------------
(* The operator's commands.                                                 *)

(* carry-owner release: the row and a revision bump, in one transaction.    *)
Release(n) ==
  /\ Claims(journal[n], n)
  /\ AppendRole(n, FALSE, "release", Len(chain), 0)
  /\ Superseded(n)
  /\ UNCHANGED <<scene, landed, backup, guardVars, gateVars, offer, transfer, chainVars, faults>>

(* scan_start: how high the scan may begin.                                 *)
ScanBounded(n, from) ==
  LET claim == Newest(LatestClaim(journal[Peer(n)], Peer(n)) \cup LatestClaim(journal[n], Peer(n)))
      peer == Latest(journal[Peer(n)], Peer(n)) \cup Latest(journal[n], Peer(n))
  IN /\ claim = {} => \A r \in peer : r.action # "release"
     /\ \A r \in claim : from <= (IF r.tip < Margin THEN 0 ELSE r.tip - Margin)

Scanned(n, from) ==
  \A h \in DOMAIN chain : h >= from /\ chain[h].by \in Nodes => chain[h].id \in landed[n]

(* A release is buried under blocks, which take minutes.  The releasing     *)
(* node's guard checks every few seconds and bounds its reads: by then a    *)
(* check that read the release has closed the gate, and none begun before   *)
(* it is still under way.                                                   *)
BuriedOneShort(release) ==
  LET n == release.origin
  IN /\ release.tip + ReleaseDepth - 1 <= Len(chain)
     /\ gate[n] => Claims(journal[n], n)
     /\ \A s \in seen[n] : \A r \in s.own : r.epoch >= release.epoch

Buried(release) ==
  LET n == release.origin
  IN /\ release.tip + ReleaseDepth <= Len(chain)
     /\ gate[n] => Claims(journal[n], n)
     /\ \A s \in seen[n] : \A r \in s.own : r.epoch >= release.epoch

(* carry-owner transfer, its checks: of the peer's journal read live and of *)
(* this node's copy, and of the active chain.                               *)
TransferChecks(n, from) ==
  LET live == Latest(journal[Peer(n)], Peer(n))
      synced == Latest(journal[n], Peer(n))
      own == Latest(journal[n], n)
      peer == Newest(live \cup synced)
  IN /\ n \in scene.movers /\ transfer[n] = {}
     /\ ~Claims(journal[n], n)
     /\ peer # {} /\ \A r \in peer \cup live : ~r.owner
     /\ \A theirs \in Latest(journal[Peer(n)], n) : \E r \in own : r.epoch >= theirs.epoch
     /\ ScanBounded(n, from)
     /\ \A r \in peer : r.action = "release" => Buried(r)
     /\ Scanned(n, from)
     /\ transfer' = [transfer EXCEPT ![n] =
          {[live |-> live, own |-> own, peer |-> peer, height |-> Len(chain), tip |-> TipId,
            again |-> FALSE]}]
     /\ UNCHANGED <<scene, clock, dbVars, guardVars, gateVars, offerVars, chainVars, faults>>

(* The peer's row is read once more, and copied.                            *)
TransferReads(n) ==
  /\ \E t \in transfer[n] :
       /\ ~t.again
       /\ Latest(journal[Peer(n)], Peer(n)) = t.live /\ t.live # {}
       /\ Latest(journal[n], n) = t.own
       /\ journal' = [journal EXCEPT ![n] = @ \cup t.live]
       /\ transfer' = [transfer EXCEPT ![n] = {[t EXCEPT !.again = TRUE]}]
  /\ UNCHANGED <<scene, clock, landed, backup, guardVars, gateVars, offerVars, chainVars, faults>>

(* Nothing checked has changed here, and the scanned tip is still active.   *)
TransferWrites(n) ==
  /\ \E t \in transfer[n] :
       /\ t.again
       /\ Latest(journal[n], n) = t.own
       /\ Latest(journal[n], Peer(n)) = t.peer
       /\ t.height <= Len(chain) /\ IdAt(t.height) = t.tip
       /\ \E r \in t.peer : AppendRole(n, TRUE, "acquire", t.height, r.epoch)
  /\ transfer' = [transfer EXCEPT ![n] = {}]
  /\ UNCHANGED <<scene, landed, backup, guardVars, gateVars, offerVars, chainVars, faults>>

TransferRefused(n) ==
  /\ transfer[n] # {} /\ transfer' = [transfer EXCEPT ![n] = {}]
  /\ UNCHANGED <<scene, clock, dbVars, guardVars, gateVars, offerVars, chainVars, faults>>

----------------------------------------------------------------------------
(* Faults.                                                                  *)

Fault == faults < scene.faults /\ faults' = faults + 1

Stopped(n) ==
  /\ guard' = [guard EXCEPT ![n] = [confirmed |-> FALSE, highest |-> 0]]
  /\ seen' = [seen EXCEPT ![n] = {}]
  /\ gate' = [gate EXCEPT ![n] = FALSE] /\ fence' = [fence EXCEPT ![n] = FALSE]
  /\ work' = [work EXCEPT ![n] = {}] /\ offer' = [offer EXCEPT ![n] = {}]

(* A frontend restarts, its setting changed or not.                         *)
RestartFrontend(n) ==
  /\ Fault
  /\ \E s \in BOOLEAN : setting' = [setting EXCEPT ![n] = s]
  /\ latched' = [latched EXCEPT ![n] = FALSE]
  /\ Stopped(n)
  /\ UNCHANGED <<scene, clock, dbVars, transfer, chainVars>>

Backup(n) ==
  /\ n \in scene.backups /\ backup[n] = {}
  /\ backup' = [backup EXCEPT ![n] = {[journal |-> journal[n], landed |-> landed[n]]}]
  /\ UNCHANGED <<scene, clock, journal, landed, guardVars, gateVars, offerVars, transfer, chainVars,
                 faults>>

(* The database comes back from the backup, under a stopped frontend, or    *)
(* under a running one between two of its checks.                           *)
Restore(n) ==
  /\ Fault
  /\ \E b \in backup[n] : /\ journal' = [journal EXCEPT ![n] = b.journal]
                          /\ landed' = [landed EXCEPT ![n] = b.landed]
  /\ latched' = [latched EXCEPT ![n] = FALSE]
  /\ \/ Stopped(n)
     \/ /\ seen[n] = {} /\ offer[n] = {}
        /\ \A r \in Latest(journal[n], n) : guard[n].highest = r.epoch
        /\ Superseded(n)
        /\ UNCHANGED <<guard, seen, gateVars, offer>>
  /\ transfer' = [transfer EXCEPT ![n] = {}]
  /\ UNCHANGED <<scene, clock, backup, setting, chainVars>>

----------------------------------------------------------------------------
CarryStep(n) ==
  \/ SyncRoles(n) \/ RecoverOwnLog(n) \/ CheckReads(n) \/ SeedReads(n) \/ Seed(n) \/ FenceCarryChange(n)
  \/ \E answer \in Answers(n), mismatch \in scene.mismatches : CheckDecides(n, answer, mismatch)
  \/ BuildWork(n) \/ ReserveOffer(n) \/ CheckOffer(n) \/ SubmitBlock(n)
  \/ \E h \in DOMAIN chain : LandBlock(n, h)
  \/ Release(n) \/ TransferReads(n) \/ TransferWrites(n) \/ TransferRefused(n)
  \/ \E from \in 0..Len(chain) : TransferChecks(n, from)
  \/ RestartFrontend(n) \/ Backup(n) \/ Restore(n)

CarryNext == ForeignBlock \/ SwitchChain \/ \E n \in Nodes : CarryStep(n)
CarrySpec == CarryInit /\ [][CarryNext]_carryVars

----------------------------------------------------------------------------
(* Never do both nodes build carry-paying work at a time: whatever was      *)
(* seeded, released, transferred, restored or restarted, and whichever of   *)
(* the two reads what the other has since changed.                          *)
OnePayer == ~(PaysNow(0) /\ PaysNow(1))

(* Current work pays only behind an open gate or one whose change is still  *)
(* to be fenced, and only while this node's journal claims ownership.       *)
WorkFollowsGate ==
  \A n \in Nodes : work[n] # {} => (gate[n] \/ fence[n]) /\ Claims(journal[n], n)

(* Of two carry-paying blocks of different nodes on the chain, one was      *)
(* built on balances that include the other: no carried balance is paid by  *)
(* both.                                                                    *)
PaidOnce ==
  \A g, h \in DOMAIN chain :
    LET b == chain[g]  c == chain[h]
    IN b.by = 0 /\ c.by = 1 => b.id \in c.sees \/ c.id \in b.sees
=============================================================================
