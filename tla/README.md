# The PRISM pool server, in TLA+

This directory specifies and verifies the part of the PRISM mining pool that
must not go wrong even once: what happens to a found block, from the work it
was mined on to the payout rows it leaves behind and the fanouts that pay them,
over several frontends that share one PostgreSQL ledger and talk to qbit nodes
that reorganise, stall and lose calls; and, where two such ledgers form a pair,
what each of them comes to hold of the other and which of them pays the
carried balances.

## 1. The system and its parts

`crates/qbit-prism-server` is the pool: any number of stateless *frontends*
that serve miners over Stratum, sharing one PostgreSQL *ledger* (all durable
state), each with its own qbit *node* behind JSON-RPC.  `crates/qbit-prism` is
the payout mathematics; the other crates and `lab/` are tools.

| Part | State | Operations | Talks to | What makes it hard |
|---|---|---|---|---|
| Cluster authority (`ledger/window.rs`, `ledger/connect.rs`, `coordinator/chain_observation.rs`) | accepted tip, payout revision | strict observation, equal-work transition, bumps | every writer | frontends whose nodes disagree; a revision read before and used after an await |
| Candidate outbox (`ledger/candidates.rs`, `ledger/divergence.rs`, `coordinator.rs`) | one row per found block: state, claim, schedule, offer columns | enqueue, claim, take over, reserve, record, release, adopt, reconcile, park, recover, abandon | node (`submitblock`), pool blocks | crash between two awaits, takeover of a stalled holder, a call that times out and runs later |
| Pool blocks (`ledger/blocks.rs`, `sql/001_share_ledger.sql`) | chain state, maturity, fanout status, deferred credit | land, finish, orphan, reconcile, mature | outbox, fanouts, revision | reorganisation between the question to the node and the write |
| Submission hold, fatal state, policy transition | hold flag, fatal error | set, clear, transition | outbox, pool blocks | operator action against running frontends |
| Claim leases (`ledger/claim_observer.rs`) | claim version, per-process clocks | survey, watch, take over, renew | outbox, fanouts | clocks of different machines, stalls |
| Payout divergence (`ledger/divergence.rs`) | balances, bound | bound, record | reservation, confirmation | debt that no later payment recovers |
| Share append and window (`ledger/window.rs`, `ledger/window/*`) | share log, dedup index, snapshot | probe, append, snapshot, cut | miners, jobs | duplicate shares, a moving cut |
| Miner submit, Stratum (`stratum.rs`, `coordinator/miner_submit.rs`) | jobs, retained jobs, grace | notify, submit | share append, outbox | share for superseded work |
| Job issuance (`coordinator/tip_observation.rs`, `publication_authority.rs`, `clocked_flight.rs`) | template, authority | refresh, revalidate, issue | authority | coalesced reads that are older than their reader |
| Fanout broadcaster (`broadcaster.rs`, `ledger/fanout.rs`) | fanout claims, attempts | claim, send, check, finish | node, pool blocks | package sent, answer lost |
| Carry ownership, dual writer (`carry_owner*`, `peer_sync*`, `coordinator/adoption.rs`) | owner journal, cursors | transfer, sync, adopt | the other database | two databases, no common transaction |
| Archive, migration, instances, readiness, API, tools | — | — | — | see `PROJECT.json` |

## 2. Modules

| Module | Models |
|---|---|
| `ChainAuthority` | what the cluster row promises: an accepted tip that never loses work and a revision that every change of it moves |
| `CandidateLedger` | the durable side of a found block: outbox row, pool block, cluster row; one operator per ledger transaction |
| `CandidateOutbox` | the frontends, the operator's recovery, the reconciler, the wire and the node over those transactions |
| `OfferLifecycle` | the abstract promise about a block's one offer |
| `ClaimLease` | who owns an outbox row and for how long: claims, heartbeats, releases and takeovers on the processes' own clocks |
| `ChainView` | how the frontends' refresh loops and candidate observations move the accepted tip |
| `FanoutBroadcast` | the CTV broadcaster: claims, the spend scan, the sponsor's coin and its wallet lock, the signed child, the send, over a chain that reorganises |
| `CarryOwner` | which node of a pair pays carried balances: the ownership journals, the gate on work and offers, release, transfer, restart, restore |
| `PeerStreams` | two databases that pull each other's shares, blocks and prepared jobs by cursor |
| `OwnLog` | the same pair with databases that are rolled back: own-log recovery and the latch |
| `MCCandidateOutbox`, `MCClaimLease`, `MCChainView`, `MCFanoutBroadcast`, `MCCarryOwner`, `MCOwnLog`, `MCLive` | the instances for TLC; `MCLive` is two parts without common state, of which the initial state chooses one |
| `CandidateOutboxProofs` | the theorems about the outbox |
| `ClaimLeaseProofs` | the theorems about the leases |
| `ChainViewProofs` | the theorems about the chain view |
| `FanoutProofs` | the theorems about the broadcaster |
| `ShareStreamProofs`, `PeerProofs` | the theorems about the pair without rollbacks: the share stream, and the rest with the theorems |
| `OwnLogProofs`, `RollbackProofs` | the theorems about the pair with rollbacks: the steps that roll nothing back, and the rollbacks with the theorems |

`CandidateOutbox` EXTENDS `CandidateLedger` EXTENDS `ChainAuthority`: the
processes compose with the database through its transactions.  `ClaimLease`
and `ChainView` open up what `CandidateOutbox` takes for granted: the takeover
it allows at any time from a dead holder, and the accepted tip, which `ChainView`
shows to behave as `ChainAuthority` promises (`AuthoritySpec` is a property of
both).  `OwnLog` EXTENDS `PeerStreams`: it adds the rollbacks and gates every
step of the streams by the latch.

### How state and actions correspond to the code

*Transactions.*  PostgreSQL's settlement lock, the row locks and the `WHERE`
fences make each transaction one atomic step.  `Holds` is `require_claim`'s
token and state fence, `AtRevision` is `require_revision`, `Writable` is
`connect.rs`'s write guard; a transaction whose guard fails rolls back and
changes nothing, which is the attempt's action `Refused` or `RevisionRace`.
The guard's second cause, a live legacy Python writer, is left out: it refuses
exactly what a fatal cluster refuses.

*Attempts.*  `pc[i]` names the await at which process `i` is suspended, and
each action is the code from one await to the next.  The submit loop's path is
`claimed → screen → reserve → reserved → armed → waiting → answered → land →
verified → landing → settle → settling`; `bounding` and `captured` are the
capture path of superseded work; `unsent`, `adopt`, `abandon`, `reconcile`,
`failed`, `handback`, `invalid` and `recover` are its exits and the operator's
entry.  `obsTip` and `obsRev` are what the last observation returned and the
next write is fenced by.

*The node.*  `wire` holds the `submitblock` calls that were sent and have
neither run nor been lost; they outlive their sender.  `runs` counts how often
the node ran each block.  The node's tip is not a variable: an observation
picks any tip the node could report (`Known`: it holds a pool block only if
somebody gave it to the node) that the cluster accepts; a node that is behind,
or an RPC error, is the fault `Fail`.  An observation is one action because
`observe_candidate` proves the tip unchanged around its reads and the revision
it returns fences whatever is written from it.

*The reconciler.*  One pending observation `recon` stands for every frontend's
refresh loop: each is fenced by its revision, so of two at one revision at most
one changes anything.

*Data.*  Blocks, tips and tokens are model values.  `View[tip][b]` is what a
chain says of a block: its parent is the tip (`open`), it is `active`, active
and a thousand blocks `deep`, `competing`, or `buried` under a competitor with
the configured confirmations.  Constant sets say which blocks are leased,
carry-paying, within the capture ceiling, rebuildable and readable.  Times
(leases, back-offs, deadlines) are not modelled here: a due row may be claimed,
a claim may be taken over from a dead holder at any time, and from a live one
at the price of a fault.

*Leases* (`ClaimLease`).  The claim columns of one row (`row`), what became of
every claim in the process that made it (`stage`: `claimed`, then `working`
from the first answered renewal, `failed` while its release is outstanding,
`gone`), its heartbeat (`hb`), and each process's poll and observer (`poll`,
`seen`, `watched`).  A monotonic clock is a set of countdowns and ages that
`Tick` moves together; no two processes' clocks are compared, and a process may
sit still over any number of ticks.  A statement and its answer are different
steps, so a renewal or a release can be executed after its caller gave up
(`stray`, `relPending`).  `LeaseHorizon` is `left`; `claimed_at` is `began`.

*Chain view* (`ChainView`).  A refresh is three steps: `Capture` reads the
cluster row, `Prove` is the node proof with the start of
`ChainObservation::observe` (which records the tip and takes the witness before
any write), and `Accepted`, `RefusedBehind` or `Refused` is
`observe_chain_view_checked` with what the observer does with its result.
`Abort` is a refresh that failed or was dropped before the write; dropped after
it, with the answer lost, it is `Accepted`, since `observe` does nothing more on
success.  The node may move between any two steps.

*Fanouts* (`FanoutBroadcast`).  A frontend works through `step`: `view` (the
node's tip is read), `maintain` and `release` (the reservation's lock is kept,
or taken off once the child is confirmed), `scan` (a page of blocks is searched
for what spends the fanout), `child`, `save` and `send` (a coin is reserved and
locked, the child signed and recorded, the package sent), and the results with
which `finish_fanout` ends the attempt.  `package` and `retired` are the
CPFP tables, `locked`, `known` and `loose` the sponsorship wallet: neither the
wallet nor the node is transactional with the ledger, so a frontend may stop
between any two steps.  Simplified: an RPC takes effect within the step that
makes it; the fatal and the hold check are atomic with the send; parents are
mature; the dual writer's check of the sponsor is left out; an attempt's
deadline is shorter than the lease, so no step of it follows its takeover
(`ClaimLease` is the protocol).

*Carry ownership* (`CarryOwner`).  A scene gives the journal rows to begin
with, the settings, the nodes that mine and the nodes the operator acts on.
Each node has its journal, its copy of the peer's and one item of work.
Balances are not summed and the transfer's walk of the chain is its result.
Work that is superseded is not followed; a block of carry-free work counts as
foreign; forks are one block deep; clocks agree and an epoch is unique; a
restore drops the work in hand; the fallback path answers from the backup copy.
`Buried` states the timing that the release depth assumes.  Documented
behaviour, not an error of the model: a node that acquires and is then
restored from a backup older than the peer's carry-paying block pays before it
pulls that block (`ledger/carry.rs:8-10`).

*The pair* (`PeerStreams`, `OwnLog`).  A pass is the stages of
`peer_sync/engine.rs`: the share stream (read, `raise`, `check`, `insert`,
`commit`), the barrier that finds how far landings have ended, then the block
and the prepared stream.  Shares carry their `share_seq`, whose parity is the node's;
landings draw a `sync_seq` when they open and commit in any order.  A share is
identified by its header.  `OwnLog` adds the evidence (server and timeline),
the latch, recovery, restores on the same and on a new timeline, and a rebuild
from a copy of the peer.  Assumed: one frontend per node; a restore outlasts a
pass of the other node; a restore that keeps the timeline is made with the
frontend stopped, and one under a running frontend is noticed by its next pass
before a share is appended (`AppendsFirst` is FALSE; the code compares the
evidence at the start of a pass, `peer_sync/engine.rs:462-467`, so a share that
a frontend appends before that pass is outside what is checked);
after a kept-timeline restore the peer stays readable until recovery has found
the first missing row (`reach`); a missing rollup progress row is a watermark
of 0.  Left out: connection paths, the ceiling of `share_seq`, partitions, the
pruning of prepared rows and the journal of node roles.  `WindowsHeld` is about
the blocks a node holds of its peer.

## 3. Runs

All bounds are constants of the cfg files: `MaxFaults` bounds crashes, errors,
lost leases, timeouts, carry-gate moves, takeovers from live holders and
operator interventions; `MaxRevision` bounds the revision moves that come from
outside (equal-work transitions, policy transitions); `MaxRetries` is
`REVISION_RACE_RETRIES`.

| Run | Instance | Checks |
|---|---|---|
| `outbox_takeover` | 2 frontends, 1 carry-paying block, 3 tokens, 2 faults | `OfferedAtMostOnce`, `UncommittedNeverRuns` (nothing that may run is given up), `ImplementsOfferLifecycle` |
| `outbox_recovery` | 1 frontend, 1 operator, unreadable row, block possibly relayed by others | `OfferedAtMostOnce`, `OfferColumns` (the table's CHECK), `ParkedStaysParked` |
| `outbox_reorg` | 1 frontend, 5 tips with deep and burying ones, leased work, fairness | `CreditFollowsConfirmation`, `MatureIsFinal`, `ConfirmedOnAcceptedChain`, `OrphanedOnlyWhenBuried`, `BalancesMoveRevision`, `BlocksAreSettled` |
| `outbox_fanouts` | 1 frontend, no faults | `ConfirmedFanoutsLive`: *violation*, see below |
| `lease_frontends` | 2 frontends, leases of 1 tick, 2 claims, 1 renewal | `LiveLeaseHoldsRow`, `TakenOverNeverEarlier` |
| `lease_restart` | 1 process that may be an operator, leases of 1 and (unrecorded) of 2 ticks, 2 claims, 1 stop, fairness | `LeasesEnd` |
| `lease_writes` | as `lease_frontends` | `WritesUnderLiveDatabaseLease`: *violation*, see below |
| `view_siblings` | 2 frontends, 2 tips of equal work and a stronger one, 2 moves of each node, 1 settlement | `NoFlipFlop`, `EpochNamesTip`, `NoReversal`, `AuthoritySpec` |
| `fanout_takeover` | 2 broadcasters, 1 fanout, 2 coins, chain of 2 blocks, 1 reorganisation, 1 fault | `LocksRecorded`, `SignedCoinProtected`, `OneChild`, `ScanNeverPasses`, `DeepIsFinal` |
| `carry_owner` | 5 scenes: first seeding, release with restores, two transfers at once, work across a transfer, layouts that come to differ | `OnePayer`, `WorkFollowsGate`, `PaidOnce` |
| `peer_pair` | 7 plans: shares on both sides with failing passes, blocks and prepared jobs, a restore of either node, a rebuild; 1 failure, 1 restore, 1 crash; fairness | `OneRowPerKey`, `CursorsCover`, `HeaderCreditedOnce`, `WindowsHeld`, `ConfirmedMeansHeld`, `FoldedOnce`, `LatchMeansWhole`, `PairConverges` |
| `parts_live` | 1 frontend, 3 tips with equal work at two heights and a stronger one; or 1 broadcaster, 2 fanouts, 1 coin; fairness | `MoreWorkIsAccepted`; `OneFanoutPerCoin`, `DueIsClaimed` |

Two tokens suffice for one holder and its successor, a third for a stalled
holder's return; two faults allow a crash during another process's takeover.
A lease of one tick is enough for every order of the events that matter (the
end of the holder's countdown, the commit, the observer's reply and the end of
the observer's lease), because any number of steps fits between two ticks; the
second claim is the takeover.  Two moves of each node let a tip be replaced and
replaced back while a third observation is under way; `MaxBumps` settlements
make a witness be retried.

`fanout_takeover` has a scan page of one block (`ScanBlocks`) and a final depth
of 2 (`Deep`), so a scan takes several attempts, the reorganisation may come
between two of them, and a confirmation becomes deep before or after it; two
coins let a retired reservation and its successor exist at once.  In
`carry_owner` each scene gives only the nodes and the operator's commands that
its question needs, with `ReleaseDepth` 2 and `Margin` 1, so that a fork and a
burial both fit into the chain.  In `peer_pair` batches of one row
(`BatchRows`, `SyncLimit`) put every cursor position between two rows, and a
pass can fail between any two stages; the plan of a node bounds what it writes.

`outbox_reorg` does not check deadlock, because a fatal cluster really stops
until the operator clears it; the lease, view, fanout, carry, pair and
`parts_live` runs do not, because the bounds on claims, moves, blocks and
appends stop them.

*Fairness.*  No fairness is assumed of faults, of the node, of the operator,
of the miners or of stray statements.

- `outbox_reorg`: weak fairness of every attempt's `Advance` (each await is
  bounded by a timeout and the loop keeps polling); strong fairness of claiming
  each block (lanes take the oldest due row first, and every poll surveys the
  claims before it takes a new row); weak fairness of the reconciler (the
  refresh loop runs it on every pass).
- `lease_restart`: time passes; the polls, heartbeats and releases of a running
  process are loops on timers (weak); a survey asked again and again is answered
  at some time and a takeover possible at poll after poll is made at one of
  them (strong); a stopped process is started again.
- `parts_live`: the refresh loop runs on a timer (weak), and a refresh tried
  for ever reaches the node and the ledger at some time (strong); the
  broadcaster keeps passing, an attempt that cannot go on fails or runs into its
  deadline, and a scheduled fanout falls due (weak).
- `peer_pair`: the sync loop keeps passing, an open landing commits or aborts,
  a frontend that lost its log exits and is started again, recovery runs (weak).

### Findings

`lease_writes`: `coordinator/claim_release.rs:4` says that every write under a
claim is fenced on its token *and on a live database lease*.  Since migration
021 the renewal and the release compare the token alone (`ledger/candidates.rs`,
`renew_candidate_claim`, `release_candidate_claim`), as the migration intends;
the run shows a renewal after `claim_expires_at`.  The comment is out of date,
and `HolderEndsFirst` below is why the fence is not needed.

`outbox_fanouts` shows a block whose rows count while its CTV fanouts are
`reorged`: the reconciler drops a landed block of an unsettled row, the chain
comes back, and the submit loop's `finish_candidate` confirms the block
(`ledger/blocks.rs:456`) before the reconciler does.  Only the reconciler moves
the fanouts back (`ledger/blocks.rs:784`), and it skips a block that is already
confirmed, so they never become broadcastable.

## 4. Proofs

The theorems hold for every value of the constants under the named assumptions
(`ChainAssumption`, `LedgerAssumption`, `OutboxAssumption`, `LeaseAssumption`,
`BoundAssumption`, `ViewAssumption`, `FanoutAssumption`, `StreamsAssumption`,
`OwnLogAssumption`):
types of the constants, disjoint processes, an injective rank, every lease
positive and no longer than the one assumed for a claim that recorded none.
TLC evaluates each of them in the runs.

Each proof module begins with `USE ZenonT(60)`: a leaf is Zenon's unless it
names `SMTT`, which the leaves that need arithmetic do.

1. `CandidateOutboxProofs`, the ledger: `LedgerStep` is the disjunction of all ledger
   transactions.  It keeps the types, the offer columns, credit and maturity,
   never lowers the revision, moves the tip only with the revision, and
   announces every change of the counting blocks.  Every action of
   `CandidateOutbox` is one `LedgerStep` or leaves the ledger alone, which
   lifts these facts; `TypeCorrect`.
2. `CandidateOutboxProofs`, custody: `AtMostOneOffer` is not inductive; it needs the
   *custody* invariant: a process between the reservation and the call is the
   only one, its block has not run and no call for it is on the wire
   (`CustodiansExclude`); a call on the wire is the only one and its block has
   not run (`CallsExclude`); a block that ran has a committed row
   (`RunsExclude`).  A custodian may have lost its claim; what excludes a second
   one is that nobody returns a reserved row to `pending` but the custodian
   itself.  From the same invariant, `OutboxSpec => ImplementsOfferLifecycle`
   (`ImplementsOffer`), with a block *armed* while a process has custody of it
   or a call for it is on the wire.
3. `CandidateOutboxProofs`, observations: `ConfirmedOnChain` and `OrphanedOnChain` need
   `ObservationsCurrent`: an observation's revision is at most the current one,
   and if they are equal its tip is the accepted one.  The other ledger
   invariants and `ImplementsAuthority` follow from (1).  `ParkedRowsStay` needs
   `Parking`: three of the attempt's writes put a finite schedule on the row
   they hold, so it must be shown that no frontend holds a parked row, even
   when an operator has claimed it anew, and that the recovery command reaches
   none of the three.
4. `ClaimLeaseProofs`: the invariant `LeaseInv` orders the
   clocks around the commit that wrote the row's version.  Every observer that
   watches that version began later (`ObserversLate`: its age is at most
   `rowAge`), the holder's countdown began earlier (`HolderEarly`: what is left
   of its lease is at most the lease minus `rowAge`), versions are never reused
   (`Versions`), and an executed renewal whose answer is outstanding holds the
   row (`RenewalHoldsRow`).  So a takeover finds no live holder
   (`HolderEndsFirst`) and comes no earlier than a lease after the last renewal
   (`NeverEarlier`).
5. `ChainViewProofs`: `MovesCover` accounts for every witness with a move of
   the node not yet spent on a replacement, which gives `NoFlipFlopHolds`;
   `EpochPast` says that a witness which a newly accepted tip has overtaken
   carries an older epoch, which gives `NoReversalHolds`;
   `ViewImplementsAuthority` is the refinement of `ChainAuthority`.
6. `FanoutProofs`: none of the broadcaster's invariants is inductive, because
   an attempt acts on what it read some steps ago.  `FanInv` says what still
   holds of it.  `Holding`: an attempt that is not over has its fanout's claim,
   so nobody else writes its rows.  `Funding`: a coin belongs to one package
   and then to no retired row; the coin an attempt is about to sign for is
   locked, what it is about to send is on record, and the child whose lock it
   is about to take off is in the wallet; every child the wallet knows is a
   signed one on record.  `ChildrenSent`: so is every child in the mempool and
   on the chain, since a block can come back with one.  These give
   `LocksAreRecorded`, `SignedCoinsAreProtected`, `OneChildEver` and
   `CoinsPayOnce`.  `Anchors`: while the anchor block of a scan is on the
   chain, no block up to it holds the fanout, which a reorganisation keeps
   because branches never reuse an identifier (`ScanMissesNothing`).
   `NotDeep`: a result that undoes a confirmation is never that of a deep one
   (`DeepStaysConfirmed`).
7. `ShareStreamProofs`, `PeerProofs`: `PeerInv` is in two halves.  `ShareInv`:
   sequences are above everything held and keys keep their node's parity
   (`Raised`); a header and a key name one share (`OneCredit`); what the peer
   wrote up to the cursor is held or quarantined (`Scanned`); the batch in hand
   has all that the peer wrote up to where it was read, and at the commit still
   clashes with nothing appended meanwhile (`Pulling`); the rollup counts the
   shares at or below the watermark (`Folding`).  Rows appear behind the place
   a pull has read to only if a key below it is drawn later, and `Raised` is
   why none is.  `SyncInv`: a landing has its number to itself and its window
   (`Numbered`); open landings are above every mark and cursor (`Ended`); a
   stream's rows up to its cursor are held (`Covered`); those still queued have
   nothing left out before them (`Queued`); a block held comes with its window
   (`WindowHeld`).  They give `CursorsAreSafe`, `HeadersAreCreditedOnce`,
   `KeysNameOneRow`, `BlocksComeWithWindows`, `AdoptionIsSafe` and
   `SharesFoldOnce`.

8. `OwnLogProofs`, `RollbackProofs`: a restore moves sequences and cursors
   back, and then much of `PeerInv` is false.  It is stated for a set `W` of
   nodes whose log is whole, and what it says of a node's sequences and of the
   peer's copies of its rows it says of members of `W` only.  `LogInv(W)` adds
   what a node outside `W` is: `Behind`, that is without the latch on the
   server it runs on (`Locked`), with own shares that are a prefix of those the
   peer holds of it and no row in their way (`OwnPrefix`), and with landed rows
   that agree with the peer's copies (`OwnLanded`).  Recovery takes `Behind`
   from stage to stage, and its last stage, which puts the sequences above the
   peer's cursors and rows, puts the node back in `W` (`RaisesOwn`).  That a
   copy of the database is fit to be `Behind` with is a fact about the time
   between the copy and the rollback: `Unrolled` says how a copy is related to
   what both databases hold since (`Sound`, `Since`), and that pulls have taken
   the peer's shares in the order of their keys (`InOrder`).  `OwnInv` is
   `LogInv(W)` for some `W`.  It gives `LatchedLogsAreWhole`,
   `RollbacksReuseNoKey` and `RollbacksKeepTheStreams`, the last for the five
   other invariants of the pair.

The inductive invariants were model-checked on the instances of the runs
before they were proved.

*The reach of the theorems about rollbacks.*  They are about `OwnSpec` under
`OneRollback`: at most one restore or rebuild (`MaxRestores`), and a running
frontend that notices one before it appends (`AppendsFirst` is FALSE).  Crashes
(`MaxCrashes`), headers, hashes and batch sizes are not bounded.  Both
conditions are needed.  With two rollbacks TLC finds a counterexample: a node
is rebuilt from a copy of its peer that lacks one of its shares and is whole
again, then the peer is rebuilt from an older copy of the node, which has it.
The second condition is discussed in section 2.

*Only model-checked.*

- The liveness properties (`BlocksAreSettled`, `LeasesEnd`, `PairConverges`,
  `MoreWorkIsAccepted`, `DueIsClaimed`): fairness rests on ENABLED, which the
  prover does not handle.
- `OnePayer`, `PaidOnce` and `WorkFollowsGate` of `CarryOwner`.  The first two
  rest on the timing that `Buried` states and on the history of a scene;
  `WorkFollowsGate` holds in the scenes checked, which have at most one
  restore, and not for arbitrary `Scenes`: two restores, one of each node, can
  put an own release back under work that is still current.  A theorem for
  every `Scenes` would be false.
- The findings' two properties, which the code violates.

## 5. What is left out

Inside the modelled parts: the payload columns, the wording of errors, metrics,
the standby and peer waits before the offer (bounded, and the block is offered
whatever they find), a disabled submit loop.  In `ClaimLease`: a database clock
that steps and the rescheduling of the rows it leaves in the future, an
operator's revocation (a lease of 0), and the policy transition, which clears
claims only while every frontend is stopped.  The claims of the CTV fanouts
follow the same scheme with code of their own; `FanoutBroadcast` takes their
timing from it.  What `FanoutBroadcast`, `CarryOwner` and the pair simplify is
said in section 2.

Not modelled: the share append's admission queue and the share window,
Stratum's jobs, stale grace and vardiff, job issuance and publication
authority, adoption of a peer's blocks and dual-writer readiness, the archive,
instances and their heartbeats, the payout and window mathematics, CTV
construction, schema migration, audit publication, and the tools and lab
programs.  `PROJECT.json` lists each with its reason.
