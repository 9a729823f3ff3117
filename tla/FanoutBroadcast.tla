--------------------------- MODULE FanoutBroadcast ---------------------------
(***************************************************************************)
(* The CTV broadcaster (broadcaster.rs, ledger/fanout.rs, claim_fanout and  *)
(* finish_fanout of ledger/blocks.rs): frontends claim due fanouts of       *)
(* mature blocks, look on the chain for the fanout transaction, fund a      *)
(* zero-fee one with a CPFP child from the sponsorship wallet, and send it. *)
(* Every ledger write is fenced on the claim's token; the wallet and the    *)
(* node are not transactional with the ledger, so a frontend may stop       *)
(* between any two of the steps below.                                      *)
(*                                                                         *)
(* An attempt ends within its deadline, and a claim is taken over only      *)
(* after a lease longer than the deadline went unrenewed (ClaimLease is the *)
(* protocol): no step of an attempt follows its takeover.                   *)
(***************************************************************************)
EXTENDS Integers, Sequences, FiniteSets

CONSTANTS
  Frontends, Fanouts,
  Coins,        \* outputs of the sponsorship wallet
  SelfPaying,   \* fanouts that may carry a built-in fee, which need no child
  Deep,         \* confirmations after which a fanout may not be undone (1000)
  ScanBlocks,   \* blocks one attempt scans (PRISM_CTV_SPEND_SCAN_BLOCKS)
  MaxHeight,    \* bound on the chain above the parents' maturity height
  MaxReorgs,    \* bound on reorganisations
  MaxFaults,    \* bound on crashes, shutdowns, holds, evictions, lost coins
  Nobody        \* SQL NULL in claim_token

ASSUME FanoutAssumption ==
  /\ Nobody \notin Frontends \cup Fanouts \cup Coins /\ SelfPaying \subseteq Fanouts
  /\ Deep \in Nat \ {0} /\ ScanBlocks \in Nat \ {0}
  /\ MaxHeight \in Nat /\ MaxReorgs \in Nat /\ MaxFaults \in Nat

VARIABLES
  \* the ledger: qbit_ctv_fanout_artifacts, the CPFP tables, the cluster row
  status,     \* settlement_status
  token,      \* the frontend whose claim_token the row carries
  dead,       \* the claims of frontends that stopped
  due,        \* unclaimed fanouts due now, in schedule order
  evidence,   \* the block the fanout was confirmed in, with confirmed_depth
  scanned,    \* the spend scan's next height and its anchor block
  package,    \* the fanout's CPFP package: its coin, its signed child
  retired,    \* retired funding: the coin's fanout, its wallet lock
  hold, fatal,
  \* the frontends
  step, job, view, result,
  \* the node and its wallet
  chain,      \* blocks from the parents' maturity height on
  branch,     \* the branch: a block is named by its height and its branch
  mempool,
  locked,     \* coins under a persistent wallet lock
  known,      \* children the wallet knows
  bad,        \* coins that are gone
  loose,      \* coins someone unlocked by hand
  paying,     \* the fanouts with a built-in fee
  faults

rowVars == <<status, evidence, scanned>>
claimVars == <<token, dead, due>>
fundVars == <<package, retired>>
frontVars == <<step, job, view, result>>
netVars == <<chain, branch, mempool>>
walletVars == <<locked, known, bad, loose>>
fanVars == <<rowVars, claimVars, fundVars, hold, fatal, frontVars, netVars, walletVars, faults, paying>>

Fanout(f) == [kind |-> "fanout", of |-> f]
Child(f, c, w) == [kind |-> "child", of |-> f, coin |-> c, by |-> w]
NoPackage == [coin |-> Nobody, child |-> Nobody, released |-> FALSE]
NotRetired == [for |-> Nobody, released |-> FALSE]
NoEvidence == [height |-> 0, id |-> 0, depth |-> 0]
NoAnchor == [next |-> 1, height |-> 0, id |-> 0]

Tip == IF chain = <<>> THEN 0 ELSE chain[Len(chain)].id
Active(height, id) == height <= Len(chain) /\ chain[height].id = id
InChain(tx) == \E h \in DOMAIN chain : tx \in chain[h].txs
SignedChild(f) == Child(f, package[f].coin, package[f].child)
Spent(c) == \E f \in Fanouts, w \in Frontends : InChain(Child(f, c, w))

FanInit ==
  /\ status = [f \in Fanouts |-> "broadcastable"]
  /\ token = [f \in Fanouts |-> Nobody] /\ dead = {} /\ due = <<>>
  /\ evidence = [f \in Fanouts |-> NoEvidence] /\ scanned = [f \in Fanouts |-> NoAnchor]
  /\ package = [f \in Fanouts |-> NoPackage] /\ retired = [c \in Coins |-> NotRetired]
  /\ hold = FALSE /\ fatal = FALSE
  /\ step = [w \in Frontends |-> "idle"] /\ job = [w \in Frontends |-> Nobody]
  /\ view = [w \in Frontends |-> [tip |-> 0, height |-> 0, current |-> FALSE]]
  /\ result = [w \in Frontends |-> NoEvidence]
  /\ chain = <<>> /\ branch = 1 /\ mempool = {}
  /\ locked = {} /\ known = {} /\ bad = {} /\ loose = {} /\ faults = 0
  /\ paying \in {{}, SelfPaying}

----------------------------------------------------------------------------
(* Claims.                                                                  *)

DeepEnough(f) == status[f] = "confirmed" /\ evidence[f].depth >= Deep

(* A settlement still to send, a confirmation still to watch, or the newest *)
(* deep one, which is watched for good.                                     *)
Claimable(f) ==
  DeepEnough(f) => \A g \in Fanouts : DeepEnough(g) => evidence[g].height <= evidence[f].height

(* Settlements go before confirmation checks, then the oldest schedule.     *)
Before(i, j) ==
  \/ status[due[i]] # "confirmed" /\ status[due[j]] = "confirmed"
  \/ (status[due[i]] = "confirmed") = (status[due[j]] = "confirmed") /\ i < j
Lane == {i \in DOMAIN due : /\ Claimable(due[i])
                            /\ \A j \in DOMAIN due : Claimable(due[j]) /\ j # i => Before(i, j)}

Without(q, f) == SelectSeq(q, LAMBDA g : g # f)
Working(w) == step[w] # "idle"

(* A claim whose holder's attempt is over and went unrenewed for its lease; *)
(* the holder may still be about to complete it.                            *)
Results == {"confirmed", "in_mempool", "scan_pending", "submitted"}
Over(w) == step[w] \in Results \cup {"idle", "failed"}
Unrenewed(f) == token[f] # Nobody /\ (f \in dead \/ Over(token[f]) \/ job[token[f]] # f)

Claimed(w, f) ==
  /\ token' = [token EXCEPT ![f] = w]
  /\ dead' = dead \ {f}
  /\ due' = Without(due, f)
  /\ step' = [step EXCEPT ![w] = "view"]
  /\ job' = [job EXCEPT ![w] = f]
  /\ UNCHANGED <<rowVars, fundVars, hold, fatal, view, result, netVars, walletVars, faults, paying>>

ClaimFanout(w) ==
  /\ step[w] = "idle" /\ ~hold /\ ~fatal
  /\ \/ \E f \in Fanouts : Unrenewed(f) /\ Claimable(f) /\ Claimed(w, f)
     \/ /\ \A f \in Fanouts : ~(Unrenewed(f) /\ Claimable(f))
        /\ \E f \in Fanouts : token[f] = Nobody /\ (\E i \in Lane : due[i] = f) /\ Claimed(w, f)

Holds(w) == Working(w) /\ token[job[w]] = w
At(w, label) == step[w] = label

(* An attempt that is over no longer uses the tip it saw.                   *)
Goto(w, label) ==
  /\ step' = [step EXCEPT ![w] = label]
  /\ view' = IF label \in Results \cup {"failed"}
               THEN [view EXCEPT ![w].tip = 0, ![w].height = 0] ELSE view

(* The claim is renewed and the node's view recorded for the attempt.       *)
ReadView(w) ==
  /\ At(w, "view") /\ Holds(w) /\ ~fatal
  /\ view' = [view EXCEPT ![w] = [tip |-> Tip, height |-> Len(chain), current |-> TRUE]]
  /\ step' = [step EXCEPT ![w] = "maintain"]
  /\ UNCHANGED <<rowVars, claimVars, fundVars, hold, fatal, job, result, netVars, walletVars,
                 faults, paying>>

----------------------------------------------------------------------------
(* maintain_funding_reservation: what fails here is left for a later pass.  *)

(* A retired coin's wallet lock is taken off, then its record discharged.   *)
UnlockRetired(w, c) ==
  /\ At(w, "maintain") /\ Holds(w) /\ ~fatal
  /\ retired[c].for = job[w] /\ ~retired[c].released
  /\ \/ /\ c \in locked
        /\ locked' = locked \ {c}
        /\ UNCHANGED retired
     \/ /\ c \notin locked
        /\ retired' = [retired EXCEPT ![c].released = TRUE]
        /\ UNCHANGED locked
  /\ UNCHANGED <<rowVars, claimVars, package, hold, fatal, frontVars, netVars, known, bad,
                 loose, faults, paying>>

(* While the child is unconfirmed the coin stays out of coin selection: by  *)
(* the child the wallet knows, or by the lock.                              *)
RetainLock(w) ==
  LET p == package[job[w]]
  IN /\ At(w, "maintain") /\ Holds(w) /\ ~fatal
     /\ p.child # Nobody /\ ~Spent(p.coin)
     /\ \/ /\ SignedChild(job[w]) \notin known /\ p.coin \notin locked
           /\ locked' = locked \cup {p.coin} /\ loose' = loose \ {p.coin}
           /\ UNCHANGED package
        \/ /\ SignedChild(job[w]) \in known \/ p.coin \in locked
           /\ p.released
           /\ package' = [package EXCEPT ![job[w]].released = FALSE]
           /\ UNCHANGED <<locked, loose>>
     /\ UNCHANGED <<rowVars, claimVars, retired, hold, fatal, frontVars, netVars, known, bad,
                    faults, paying>>

(* The child's confirmation is read at a stable tip before the lock goes.   *)
ChildConfirmed(w) ==
  LET p == package[job[w]]
  IN /\ At(w, "maintain") /\ Holds(w)
     /\ p.child # Nobody /\ ~p.released /\ InChain(SignedChild(job[w]))
     /\ Goto(w, "release")
     /\ UNCHANGED <<rowVars, claimVars, fundVars, hold, fatal, job, result, netVars,
                    walletVars, faults, paying>>

ReleaseLock(w) ==
  LET c == package[job[w]].coin
  IN /\ At(w, "release") /\ Holds(w) /\ ~fatal
     /\ \/ /\ c \in locked
           /\ locked' = locked \ {c}
           /\ UNCHANGED <<package, step, view>>
        \/ /\ c \notin locked
           /\ package' = [package EXCEPT ![job[w]].released = TRUE]
           /\ Goto(w, "maintain")
           /\ UNCHANGED locked
     /\ UNCHANGED <<rowVars, claimVars, retired, hold, fatal, job, result, netVars, known,
                    bad, loose, faults, paying>>

----------------------------------------------------------------------------
(* process_view: where the fanout stands.                                   *)

(* The maintenance is over, done or failed.                                *)
Inspecting(w) == step[w] \in {"maintain", "release"}
Stable(w) == Tip = view[w].tip /\ Len(chain) = view[w].height
Resulted(w, label, height, id) ==
  /\ result' = [result EXCEPT ![w] = [height |-> height, id |-> id,
                  depth |-> IF label = "confirmed" THEN view[w].height - height + 1 ELSE 0]]
  /\ Goto(w, label)

(* Still confirmed where it was.                                            *)
StillConfirmed(w) ==
  LET e == evidence[job[w]]
  IN /\ Inspecting(w) /\ e.id # 0 /\ e.height <= view[w].height
     /\ Stable(w) /\ Active(e.height, e.id)
     /\ Resulted(w, "confirmed", e.height, e.id)
     /\ UNCHANGED <<rowVars, claimVars, fundVars, hold, fatal, job, netVars, walletVars,
                    faults, paying>>

Disconnected(w) ==
  LET e == evidence[job[w]]
  IN e.id # 0 /\ e.height <= view[w].height /\ Stable(w) /\ ~Active(e.height, e.id)

(* A deep confirmation that is gone stops the cluster.                      *)
HaltFanoutReorg(w) ==
  /\ Inspecting(w) /\ Disconnected(w) /\ evidence[job[w]].depth >= Deep
  /\ Holds(w) /\ view[w].current
  /\ fatal' = TRUE
  /\ Goto(w, "failed")
  /\ UNCHANGED <<rowVars, claimVars, fundVars, hold, job, result, netVars, walletVars,
                 faults, paying>>

(* Looked up by its id, which a node without the index may not find; spent  *)
(* by something, to be searched for; in the mempool; or to be sent.         *)
Inspect(w) ==
  LET f == job[w] IN
  /\ Inspecting(w)
  /\ evidence[f].id = 0 \/ (Disconnected(w) /\ evidence[f].depth < Deep)
  /\ \/ \E h \in DOMAIN chain : /\ Fanout(f) \in chain[h].txs /\ Stable(w)
                                /\ Resulted(w, "confirmed", h, chain[h].id)
     \/ InChain(Fanout(f)) /\ Goto(w, "scan") /\ UNCHANGED result
     \/ /\ ~InChain(Fanout(f)) /\ Fanout(f) \in mempool
        /\ Resulted(w, "in_mempool", 0, 0)
     \/ /\ ~InChain(Fanout(f)) /\ Fanout(f) \notin mempool
        /\ Goto(w, IF f \in paying THEN "send" ELSE "child") /\ UNCHANGED result
  /\ UNCHANGED <<rowVars, claimVars, fundVars, hold, fatal, job, netVars, walletVars,
                 faults, paying>>

(* scan_spender: from the page after the anchor, while the anchor is on the *)
(* chain.  Every page is persisted.                                         *)

\* Mutant: the anchor is trusted after a reorganisation.
ScanFromAnchor(f) == scanned[f].next
ScanFrom(f) == IF scanned[f].id # 0 /\ ~Active(scanned[f].height, scanned[f].id) THEN 1
                                                                                 ELSE scanned[f].next
ScanPage(w) ==
  LET f == job[w]
      next == ScanFrom(f)
      stop == IF view[w].height < next + ScanBlocks - 1 THEN view[w].height
                                                        ELSE next + ScanBlocks - 1
      found == {h \in next..stop : h <= Len(chain) /\ Fanout(f) \in chain[h].txs}
  IN /\ At(w, "scan")
     /\ \/ /\ next > stop
           /\ Resulted(w, "scan_pending", 0, 0)
           /\ UNCHANGED scanned
        \/ /\ Stable(w) /\ found # {} /\ Holds(w)
           /\ \E h \in found : Resulted(w, "confirmed", h, chain[h].id)
           /\ UNCHANGED scanned
        \/ /\ Stable(w) /\ found = {} /\ next <= stop /\ Holds(w) /\ ~fatal
           /\ scanned' = [scanned EXCEPT ![f] = [next |-> stop + 1, height |-> stop,
                                                 id |-> chain[stop].id]]
           /\ Resulted(w, "scan_pending", 0, 0)
     /\ UNCHANGED <<status, evidence, claimVars, fundVars, hold, fatal, job, netVars,
                    walletVars, faults, paying>>

----------------------------------------------------------------------------
(* build_child: one coin, one child, for good.                              *)

Usable(c) == c \notin bad /\ ~Spent(c)
Reserved == {package[f].coin : f \in Fanouts}

\* Mutant: a coin another fanout reserved is taken again.
ReserveFundingReused(w, c) ==
  /\ At(w, "child") /\ Holds(w) /\ ~fatal /\ package[job[w]] = NoPackage
  /\ Usable(c) /\ c \notin locked
  /\ package' = [package EXCEPT ![job[w]] = [NoPackage EXCEPT !.coin = c]]
  /\ UNCHANGED <<rowVars, claimVars, retired, hold, fatal, frontVars, netVars, walletVars,
                 faults, paying>>
ReserveFunding(w, c) ==
  /\ At(w, "child") /\ Holds(w) /\ ~fatal /\ package[job[w]] = NoPackage
  /\ Usable(c) /\ c \notin locked
  /\ c \notin Reserved /\ retired[c] = NotRetired
  /\ package' = [package EXCEPT ![job[w]] = [NoPackage EXCEPT !.coin = c]]
  /\ UNCHANGED <<rowVars, claimVars, retired, hold, fatal, frontVars, netVars, walletVars,
                 faults, paying>>

\* Mutant: the reservation is dropped without a record of its lock.
RetireForgets(w) ==
  package' = [package EXCEPT ![job[w]] = NoPackage] /\ UNCHANGED retired
Retire(w) ==
  /\ retired' = [retired EXCEPT ![package[job[w]].coin] = [for |-> job[w], released |-> FALSE]]
  /\ package' = [package EXCEPT ![job[w]] = NoPackage]

(* An unsigned reservation whose coin is gone moves to the retired ones,    *)
(* which keep the duty to take its lock off.                                *)
RetireFunding(w) ==
  LET p == package[job[w]]
  IN /\ step[w] \in {"child", "save"} /\ Holds(w) /\ ~fatal
     /\ p # NoPackage /\ p.child = Nobody /\ ~Usable(p.coin)
     /\ Retire(w)
     /\ Goto(w, IF At(w, "save") THEN "failed" ELSE "child")
     /\ UNCHANGED <<rowVars, claimVars, hold, fatal, job, result, netVars, walletVars,
                    faults, paying>>

\* Mutant: the child is signed before the coin is locked.
LockFundingLater(w) ==
  LET p == package[job[w]]
  IN /\ At(w, "child") /\ Holds(w) /\ ~fatal
     /\ p # NoPackage /\ p.child = Nobody /\ Usable(p.coin)
     /\ Goto(w, "save")
     /\ UNCHANGED <<rowVars, claimVars, fundVars, hold, fatal, job, result, netVars,
                    walletVars, faults, paying>>
LockFunding(w) ==
  LET p == package[job[w]]
  IN /\ At(w, "child") /\ Holds(w) /\ ~fatal
     /\ p # NoPackage /\ p.child = Nobody /\ Usable(p.coin)
     /\ locked' = locked \cup {p.coin} /\ loose' = loose \ {p.coin}
     /\ Goto(w, "save")
     /\ UNCHANGED <<rowVars, claimVars, fundVars, hold, fatal, job, result, netVars, known,
                    bad, faults, paying>>

(* Signed, the coin checked again, and the bytes made durable before any    *)
(* node sees them.                                                          *)
SavePackage(w) ==
  LET p == package[job[w]]
  IN /\ At(w, "save") /\ Holds(w) /\ ~fatal
     /\ p.child = Nobody /\ Usable(p.coin)
     /\ package' = [package EXCEPT ![job[w]].child = w]
     /\ Goto(w, "send")
     /\ UNCHANGED <<rowVars, claimVars, retired, hold, fatal, job, result, netVars,
                    walletVars, faults, paying>>

(* A package on record is replayed byte for byte, once its lock is in order. *)

\* Mutant: the child is signed anew.
ReplayPackageResigned(w) ==
  /\ At(w, "child") /\ package[job[w]].child # Nobody /\ ~package[job[w]].released
  /\ package' = [package EXCEPT ![job[w]].child = w]
  /\ Goto(w, "send")
  /\ UNCHANGED <<rowVars, claimVars, retired, hold, fatal, job, result, netVars,
                 walletVars, faults, paying>>
ReplayPackage(w) ==
  /\ At(w, "child") /\ package[job[w]].child # Nobody /\ ~package[job[w]].released
  /\ Goto(w, "send")
  /\ UNCHANGED <<rowVars, claimVars, fundVars, hold, fatal, job, result, netVars,
                 walletVars, faults, paying>>

(* sendrawtransaction or submitpackage: a reply may be lost.                *)
Send(w) ==
  LET f == job[w]
      txs == IF f \in paying THEN {Fanout(f)} ELSE {Fanout(f), SignedChild(f)}
  IN /\ At(w, "send") /\ Holds(w) /\ ~hold /\ ~fatal /\ Stable(w)
     /\ \A tx \in txs : ~InChain(tx)
     /\ f \in paying \/ Usable(package[f].coin)
     /\ mempool' = mempool \cup txs
     /\ known' = known \cup (txs \ {Fanout(f)})
     /\ \/ Resulted(w, "submitted", 0, 0)
        \/ Goto(w, "failed") /\ UNCHANGED result
     /\ UNCHANGED <<rowVars, claimVars, fundVars, hold, fatal, job, chain, branch, locked,
                    bad, loose, faults, paying>>

----------------------------------------------------------------------------
(* The end of an attempt.                                                   *)

StatusOf(label) == CASE label = "confirmed" -> "confirmed"
                     [] label = "scan_pending" -> "broadcastable"
                     [] OTHER -> "broadcast_submitted"
Idle(w) == /\ step' = [step EXCEPT ![w] = "idle"] /\ job' = [job EXCEPT ![w] = Nobody]
           /\ view' = [view EXCEPT ![w] = [tip |-> 0, height |-> 0, current |-> FALSE]]
           /\ result' = [result EXCEPT ![w] = NoEvidence]
Cleared(f) == token' = [token EXCEPT ![f] = Nobody] /\ UNCHANGED dead

(* finish_fanout, observe_fanout: fenced on the token and the revision.     *)
FinishFanout(w) ==
  LET f == job[w] IN
  /\ step[w] \in Results /\ Holds(w) /\ ~fatal /\ view[w].current
  /\ status' = [status EXCEPT ![f] = StatusOf(step[w])]
  /\ evidence' = [evidence EXCEPT ![f] = IF At(w, "confirmed") THEN result[w] ELSE NoEvidence]
  /\ Cleared(f) /\ Idle(w)
  /\ UNCHANGED <<scanned, due, fundVars, hold, fatal, netVars, walletVars, faults, paying>>

(* A completion refused by a moved revision: due again, behind the others.  *)
\* Mutant: it keeps its place in the schedule.
RequeuedFirst(f) == <<f>> \o due
Requeued(f) == Append(due, f)
RequeueRefused(w) ==
  LET f == job[w] IN
  /\ step[w] \in Results /\ ~fatal /\ ~(Holds(w) /\ view[w].current)
  /\ \/ Holds(w) /\ Cleared(f) /\ due' = Requeued(f)
     \/ ~Holds(w) /\ UNCHANGED claimVars
  /\ Idle(w)
  /\ UNCHANGED <<rowVars, fundVars, hold, fatal, netVars, walletVars, faults, paying>>

(* An attempt fails at any step, or runs into its deadline.                 *)
AttemptFails(w) ==
  /\ ~Over(w)
  /\ Goto(w, "failed")
  /\ UNCHANGED <<rowVars, claimVars, fundVars, hold, fatal, job, result, netVars,
                 walletVars, faults, paying>>

(* A failed attempt backs off; a confirmation is kept.                      *)
\* Mutant: the failure is recorded over it.
FailedAlways(f) == "failed"
Failed(f) == IF status[f] = "confirmed" THEN "confirmed" ELSE "failed"
FinishFailed(w) ==
  LET f == job[w] IN
  /\ At(w, "failed")
  /\ \/ /\ Holds(w) /\ ~fatal
        /\ status' = [status EXCEPT ![f] = Failed(f)]
        /\ Cleared(f)
     \/ ~(Holds(w) /\ ~fatal) /\ UNCHANGED <<status, token, dead>>
  /\ Idle(w)
  /\ UNCHANGED <<evidence, scanned, due, fundVars, hold, fatal, netVars, walletVars, faults, paying>>

Fault == faults < MaxFaults /\ faults' = faults + 1 /\ UNCHANGED paying

(* At a shutdown and under a hold the claim is handed back unrecorded, as   *)
(* due as it was.                                                           *)
HandBack(w) ==
  /\ ~Over(w) /\ ~fatal
  /\ IF hold THEN UNCHANGED <<faults, paying>> ELSE Fault
  /\ Holds(w) /\ Cleared(job[w]) /\ due' = <<job[w]>> \o due
  /\ Idle(w)
  /\ UNCHANGED <<rowVars, fundVars, hold, fatal, netVars, walletVars>>

Crash(w) ==
  /\ Working(w) /\ Fault
  /\ dead' = IF Holds(w) THEN dead \cup {job[w]} ELSE dead
  /\ Idle(w)
  /\ UNCHANGED <<rowVars, token, due, fundVars, hold, fatal, netVars, walletVars>>

----------------------------------------------------------------------------
(* The node, the wallet's other users and the clock.                        *)

FallsDue(f) ==
  /\ token[f] = Nobody /\ \A i \in DOMAIN due : due[i] # f
  /\ due' = Append(due, f)
  /\ UNCHANGED <<rowVars, token, dead, fundVars, hold, fatal, frontVars, netVars, walletVars,
                 faults, paying>>

(* A landing, or a tip another frontend recorded, moves the payout revision. *)
MoveRevision ==
  /\ \E w \in Frontends : view[w].current
  /\ view' = [w \in Frontends |-> [view[w] EXCEPT !.current = FALSE]]
  /\ UNCHANGED <<rowVars, claimVars, fundVars, hold, fatal, step, job, result, netVars, walletVars,
                 faults, paying>>

ToggleHold ==
  /\ hold' = ~hold
  /\ IF hold THEN UNCHANGED <<faults, paying>> ELSE Fault
  /\ UNCHANGED <<rowVars, claimVars, fundVars, fatal, frontVars, netVars, walletVars>>

Parents(tx) == IF tx.kind = "child" THEN {Fanout(tx.of)} ELSE {}
Mine(txs) ==
  /\ Len(chain) < MaxHeight
  /\ \A tx \in txs : \A p \in Parents(tx) : InChain(p) \/ p \in txs
  /\ chain' = Append(chain, [id |-> branch, txs |-> txs])
  /\ mempool' = mempool \ txs
  /\ UNCHANGED <<rowVars, claimVars, fundVars, hold, fatal, frontVars, branch, walletVars, faults, paying>>

(* Blocks from height h on are replaced by others, the first of which holds *)
(* all or none of what they held; what is left over is in the mempool.      *)
Undone(h) == UNION {chain[i].txs : i \in h..Len(chain)}
Reorg(h, txs) ==
  /\ branch <= MaxReorgs
  /\ branch' = branch + 1
  /\ chain' = [i \in DOMAIN chain |->
                 IF i < h THEN chain[i]
                          ELSE [id |-> branch + 1, txs |-> IF i = h THEN txs ELSE {}]]
  /\ mempool' = mempool \cup (Undone(h) \ txs)
  /\ UNCHANGED <<rowVars, claimVars, fundVars, hold, fatal, frontVars, walletVars, faults, paying>>

Evict ==
  /\ mempool # {} /\ mempool' = {} /\ Fault
  /\ UNCHANGED <<rowVars, claimVars, fundVars, hold, fatal, frontVars, chain, branch, walletVars>>

(* A coin is spent by something else, which only an unprotected one can be, *)
(* or its own transaction is reorganised away.                              *)
CoinGone(c) ==
  /\ c \notin bad /\ ~Spent(c) /\ Fault
  /\ bad' = bad \cup {c}
  /\ UNCHANGED <<rowVars, claimVars, fundVars, hold, fatal, frontVars, netVars, locked, known, loose>>

UnlockByHand(c) ==
  /\ c \in locked /\ Fault
  /\ locked' = locked \ {c} /\ loose' = loose \cup {c}
  /\ UNCHANGED <<rowVars, claimVars, fundVars, hold, fatal, frontVars, netVars, known, bad>>

----------------------------------------------------------------------------
Attempt(w) ==
  \/ ClaimFanout(w) \/ ReadView(w) \/ RetainLock(w) \/ ChildConfirmed(w) \/ ReleaseLock(w)
  \/ StillConfirmed(w) \/ HaltFanoutReorg(w) \/ Inspect(w) \/ ScanPage(w)
  \/ RetireFunding(w) \/ LockFunding(w) \/ SavePackage(w) \/ ReplayPackage(w) \/ Send(w)
  \/ FinishFanout(w) \/ RequeueRefused(w) \/ FinishFailed(w)
  \/ \E c \in Coins : UnlockRetired(w, c) \/ ReserveFunding(w, c)

Environment ==
  \/ \E f \in Fanouts : FallsDue(f)
  \/ MoveRevision \/ ToggleHold \/ Evict
  \/ \E txs \in SUBSET mempool : Mine(txs)
  \/ \E h \in DOMAIN chain : \E txs \in {{}, Undone(h)} : Reorg(h, txs)
  \/ \E c \in Coins : CoinGone(c) \/ UnlockByHand(c)

FanNext ==
  \/ \E w \in Frontends : Attempt(w) \/ AttemptFails(w) \/ HandBack(w) \/ Crash(w)
  \/ Environment

FanSpec == FanInit /\ [][FanNext]_fanVars

(* The broadcaster keeps passing, an attempt that cannot go on fails or runs *)
(* into its deadline, and the clock keeps running.                          *)
FanFairness ==
  /\ \A w \in Frontends : WF_fanVars(Attempt(w) \/ AttemptFails(w))
  /\ \A f \in Fanouts : WF_fanVars(FallsDue(f))
FanLiveSpec == FanSpec /\ FanFairness
----------------------------------------------------------------------------
(* Migration 002: "Wallet locks are always backed by a durable reservation  *)
(* before lockunspent."  Whatever stops a frontend, a locked coin is that   *)
(* of a package or of a retired reservation still to be discharged.         *)
LocksRecorded ==
  \A c \in locked : c \in Reserved \/ (retired[c].for # Nobody /\ ~retired[c].released)

(* A signed child stays valid until it confirms: nothing else can select    *)
(* its coin, whichever of the frontends cleaned up, replayed or died, once  *)
(* a lock taken off by hand is put back.                                    *)
SignedCoinProtected ==
  \A f \in Fanouts : package[f].child # Nobody =>
    package[f].coin \in locked \cup loose \/ SignedChild(f) \in known

(* One fanout, one child: of all the children nodes were ever given for a   *)
(* fanout, over takeovers, faults and lost replies, there is one.          *)
OneChild == \A s, t \in known : s.of = t.of => s = t

(* A coin is gone for one fanout only.                                      *)
OneFanoutPerCoin == \A s, t \in known : s.coin = t.coin => s = t

(* The spend scan never passes the block it looks for: over reorganisations *)
(* no block below the height where the next page starts spends the          *)
(* covenant, so the scan cannot miss it for good.                           *)
ScanNeverPasses ==
  \A f \in Fanouts : \A h \in DOMAIN chain : h < ScanFrom(f) => Fanout(f) \notin chain[h].txs

(* A confirmation 1000 deep is never undone: not by a failed attempt, not   *)
(* by a reorganisation, after which the cluster stops.                      *)
DeepIsFinal ==
  [][\A f \in Fanouts : DeepEnough(f) => status'[f] = "confirmed"]_fanVars

(* #573: a fanout that is due is claimed, even when the completions of the  *)
(* others are refused for ever, unless submission is held or stopped.       *)
DueIsClaimed ==
  \A f \in Fanouts :
    []((\E i \in DOMAIN due : due[i] = f) /\ status[f] # "confirmed" =>
         <>(token[f] # Nobody \/ fatal \/ hold \/ status[f] = "confirmed"))
=============================================================================
