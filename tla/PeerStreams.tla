----------------------------- MODULE PeerStreams -----------------------------
(***************************************************************************)
(* Two writers, each with a database of its own, pull from each other the  *)
(* rows the other wrote (peer_sync/engine.rs, ledger/peer_sync.rs,         *)
(* migration 027).  Three streams are pulled: shares in share_seq order,   *)
(* then landed blocks and prepared jobs in sync_seq order.  A cursor says  *)
(* how far each stream has been scanned, and everything downstream trusts  *)
(* it: windows are cut at it, blocks wait for it, the node that found a    *)
(* block reads it on the other side before it offers the block.            *)
(*                                                                         *)
(* One pass of one node is a sequence of statements, some on the peer's    *)
(* database and some on its own, interleaved here with appends, landings,  *)
(* rollup sweeps and the other node's passes.  ORDER_LOCK makes an append, *)
(* number and commit together, one step; a landing draws its number when   *)
(* it begins and commits later, in any order.                              *)
(*                                                                         *)
(* A share is its header: a share_id held at another share_seq and a       *)
(* header credited to another share are refused by the same statement.     *)
(***************************************************************************)
EXTENDS Integers, FiniteSets

CONSTANTS
  Plans,      \* what each node may do: headers it is sent, and Deeds
  Headers,    \* headers a miner may submit, to either node or to both
  Ids,        \* block hashes and prepared keys
  MaxSeq,     \* bound on share_seq
  MaxSync,    \* bound on sync_seq
  BatchRows,  \* rows one share pull scans
  SyncLimit,  \* rows one pull of a sync_seq stream reads (BLOCKS_PER_PASS)
  MaxFails    \* bound on passes and applies that fail

ASSUME StreamsAssumption ==
  /\ Plans \subseteq [{0, 1} -> SUBSET (Headers \cup {"abort", "block", "prepared", "sweep", "fail",
                                                    "backup", "crash"})]
  /\ MaxSeq \in Nat /\ MaxSync \in Nat /\ MaxFails \in Nat
  /\ BatchRows \in Nat \ {0} /\ SyncLimit \in Nat \ {0}

Nodes == {0, 1}
Peer(n) == 1 - n
Kinds == {"block", "prepared"}

(* A share row and a row of a sync_seq stream, as both databases hold them. *)
Shares == [seq : 1..MaxSeq, origin : Nodes, header : Headers]
SyncRows == [sync : 1..MaxSync, origin : Nodes, kind : Kinds, id : Ids, window : SUBSET Shares]

VARIABLES
  does,       \* the plan of this behaviour
  shares,     \* accepted rows of qbit_share_ledger, with their header mappings
  shareSeq,   \* last value of the share sequence, of the node's parity
  shareMark,  \* scanned_through of the shares cursor: the safe peer mark
  refused,    \* ingested_through: the highest peer share refused, 0 for none
  quarantine, \* peer shares refused as conflicts, never inserted
  synced,     \* landed blocks and prepared jobs
  syncSeq,    \* last value of qbit_prism_sync_seq
  open,       \* landings that drew a sync_seq and have not ended
  syncMark,   \* scanned_through of the blocks and prepared cursors
  watermark,  \* last_share_seq of the hashrate rollups
  rollup,     \* shares folded into the rollups
  stage,      \* where the node's pass is
  batch,      \* the pull in hand: the position scanned to and the rows read
  fresh,      \* rows of the batch the pull inserts
  queue,      \* rows of a sync_seq stream still to be applied, in order
  whole,      \* the stream's read ended below the limit with every row covered
  safe,       \* safe_sync_mark, 0 for none
  fails       \* failures so far

dbVars == <<shares, shareSeq, shareMark, refused, quarantine, synced, syncSeq, open, syncMark,
            watermark, rollup>>
passVars == <<stage, batch, fresh, queue, whole, safe>>
streamVars == <<does, dbVars, passVars, fails>>

Seqs(rows) == {r.seq : r \in rows}
IsTop(s, S) == s \in S /\ \A t \in S : t <= s
Greatest(a, b) == IF a >= b THEN a ELSE b

(* share_seq_at_or_above: the lowest key of the node's parity not below s.  *)
AtOrAbove(n, s) == IF s % 2 = n THEN s ELSE s + 1

NoBatch == [through |-> 0, rows |-> {}]

(* Both databases are personalised and hold nothing above their floors.     *)
Init ==
  /\ does \in Plans
  /\ shares = [n \in Nodes |-> {}]
  /\ shareSeq = [n \in Nodes |-> n]
  /\ shareMark = [n \in Nodes |-> Peer(n)]
  /\ refused = [n \in Nodes |-> 0]
  /\ quarantine = [n \in Nodes |-> {}]
  /\ synced = [n \in Nodes |-> {}]
  /\ syncSeq = [n \in Nodes |-> 0]
  /\ open = [n \in Nodes |-> {}]
  /\ syncMark = [n \in Nodes |-> [k \in Kinds |-> 0]]
  /\ watermark = [n \in Nodes |-> 0]
  /\ rollup = [n \in Nodes |-> 0]
  /\ stage = [n \in Nodes |-> "idle"]
  /\ batch = [n \in Nodes |-> NoBatch]
  /\ fresh = [n \in Nodes |-> {}]
  /\ queue = [n \in Nodes |-> {}]
  /\ whole = [n \in Nodes |-> FALSE]
  /\ safe = [n \in Nodes |-> 0]
  /\ fails = 0

----------------------------------------------------------------------------
(* A node's own writers.                                                    *)

(* A header is credited once here; one that a pull is inserting is waited   *)
(* for on the mapping's key and then found credited.                        *)
Credited(n, h) ==
  \E r \in shares[n] \cup (IF stage[n] = "commit" THEN fresh[n] ELSE {}) : r.header = h

Append(n, h) ==
  /\ shareSeq[n] + 2 <= MaxSeq
  /\ ~Credited(n, h)
  /\ shareSeq' = [shareSeq EXCEPT ![n] = @ + 2]
  /\ shares' = [shares EXCEPT ![n] =
                  @ \cup {[seq |-> shareSeq[n] + 2, origin |-> n, header |-> h]}]
  /\ UNCHANGED <<shareMark, refused, quarantine, synced, syncSeq, open, syncMark, watermark,
                 rollup, passVars, fails, does>>

(* An append that rolls back after it drew its number.                      *)
AppendAborts(n) ==
  /\ shareSeq[n] + 2 <= MaxSeq
  /\ shareSeq' = [shareSeq EXCEPT ![n] = @ + 2]
  /\ UNCHANGED <<shares, shareMark, refused, quarantine, synced, syncSeq, open, syncMark,
                 watermark, rollup, passVars, fails, does>>

Named(rows, k, i) == {b \in rows : b.kind = k /\ b.id = i}

(* A landing or a prepared job begins: it takes the sync barrier shared and *)
(* draws its number.  A block commits its window by its hash, so a node     *)
(* that adopts the other's block lands the same window, which it must hold. *)
LandBegin(n, k, i, w) ==
  LET theirs == Named(synced[Peer(n)] \cup open[Peer(n)], k, i)
  IN /\ syncSeq[n] < MaxSync
     /\ Named(synced[n] \cup open[n], k, i) = {}
     /\ w \subseteq shares[n]
     /\ \A b \in theirs : b.window = w
     /\ (k = "prepared" => w = {}) /\ (k = "block" /\ theirs = {} => w = shares[n])
     /\ syncSeq' = [syncSeq EXCEPT ![n] = @ + 1]
     /\ open' = [open EXCEPT ![n] = @ \cup {[sync |-> syncSeq[n] + 1, origin |-> n,
                                             kind |-> k, id |-> i, window |-> w]}]
     /\ UNCHANGED <<shares, shareSeq, shareMark, refused, quarantine, synced, syncMark,
                    watermark, rollup, passVars, fails, does>>

LandEnd(n, b, committed) ==
  /\ b \in open[n]
  /\ open' = [open EXCEPT ![n] = @ \ {b}]
  /\ synced' = [synced EXCEPT ![n] = IF committed THEN @ \cup {b} ELSE @]
  /\ UNCHANGED <<shares, shareSeq, shareMark, refused, quarantine, syncSeq, syncMark,
                 watermark, rollup, passVars, fails, does>>

(* The rollup sweep folds every share above its watermark, once.            *)
Sweep(n) ==
  LET above == {r \in shares[n] : r.seq > watermark[n]}
  IN \E top \in Seqs(above) :
       /\ IsTop(top, Seqs(above))
       /\ watermark' = [watermark EXCEPT ![n] = top]
       /\ rollup' = [rollup EXCEPT ![n] = @ + Cardinality(above)]
       /\ UNCHANGED <<shares, shareSeq, shareMark, refused, quarantine, synced, syncSeq, open,
                      syncMark, passVars, fails, does>>

----------------------------------------------------------------------------
(* The share stream of one pass.                                            *)

Goto(n, s) == stage' = [stage EXCEPT ![n] = s]

(* One statement on the peer: BatchRows rows of either origin are scanned   *)
(* from the cursor on, and the peer's own among them are read.              *)
Scan(rows, after) ==
  {r \in rows : r.seq > after /\ Cardinality({t \in rows : after < t.seq /\ t.seq < r.seq})
                                    < BatchRows}

ReadShares(n) ==
  LET scanned == Scan(shares[Peer(n)], shareMark[n])
  IN /\ stage[n] = "idle"
     /\ \/ /\ scanned = {}
           /\ Goto(n, "barrier")
           /\ UNCHANGED batch
        \/ \E through \in Seqs(scanned) :
             /\ IsTop(through, Seqs(scanned))
             /\ batch' = [batch EXCEPT ![n] =
                  [through |-> through,
                   rows |-> {r \in shares[Peer(n)] : /\ r.origin = Peer(n)
                                                     /\ shareMark[n] < r.seq
                                                     /\ r.seq <= through}]]
             /\ Goto(n, "raise")
     /\ UNCHANGED <<dbVars, fresh, queue, whole, safe, fails, does>>

(* The node's own sequence goes above the rows before any is inserted, in a *)
(* transaction of its own under ORDER_LOCK.                                 *)
RaiseShareSequence(n) ==
  /\ stage[n] = "raise"
  /\ \/ /\ batch[n].rows = {}
        /\ UNCHANGED shareSeq
     \/ \E top \in Seqs(batch[n].rows) :
          /\ IsTop(top, Seqs(batch[n].rows))
          /\ shareSeq' = [shareSeq EXCEPT ![n] = AtOrAbove(n, Greatest(top, @))]
  /\ Goto(n, "check")
  /\ UNCHANGED <<shares, shareMark, refused, quarantine, synced, syncSeq, open, syncMark,
                 watermark, rollup, batch, fresh, queue, whole, safe, fails, does>>

(* Rows whose header is credited here to another share are left out.        *)
CheckShares(n) ==
  /\ stage[n] = "check"
  /\ fresh' = [fresh EXCEPT ![n] =
       {r \in batch[n].rows : \A l \in shares[n] : l.header = r.header => l.seq = r.seq}]
  /\ Goto(n, "insert")
  /\ UNCHANGED <<dbVars, batch, queue, whole, safe, fails, does>>

(* The rows not held are inserted.  One that lost its header to an append   *)
(* committed since the check undoes the pull, which is read again.          *)
\* Mutant: the header checked before is taken to be free still.
UnmappedNever(n, rows) == FALSE
Unmapped(n, rows) == \E r \in rows, l \in shares[n] : l.header = r.header
InsertShares(n) ==
  LET inserted == {r \in fresh[n] : \A l \in shares[n] : l.seq # r.seq}
  IN /\ stage[n] = "insert"
     /\ \/ /\ ~Unmapped(n, inserted)
           /\ fresh' = [fresh EXCEPT ![n] = inserted]
           /\ Goto(n, "commit")
           /\ UNCHANGED batch
        \/ /\ Unmapped(n, inserted)
           /\ fresh' = [fresh EXCEPT ![n] = {}]
           /\ batch' = [batch EXCEPT ![n] = NoBatch]
           /\ Goto(n, "barrier")
     /\ UNCHANGED <<dbVars, queue, whole, safe, fails, does>>

(* fold_late_peer_shares: the rows the sweep has passed.                    *)
\* Mutant: they are left to the sweep.
FoldedNone(n, rows) == 0
Folded(n, rows) == Cardinality({r \in rows : r.seq <= watermark[n]})

(* The scan ends where it read to, though every row of it were this node's. *)
Through(n) == batch[n].through

(* Rows the sweep has passed are folded, refused rows quarantined and the   *)
(* cursor moved, all in the transaction that inserts the rows.              *)
CommitShares(n) ==
  LET kept == batch[n].rows \ (fresh[n] \cup shares[n])
  IN /\ stage[n] = "commit"
     /\ shares' = [shares EXCEPT ![n] = @ \cup fresh[n]]
     /\ rollup' = [rollup EXCEPT ![n] = @ + Folded(n, fresh[n])]
     /\ quarantine' = [quarantine EXCEPT ![n] = @ \cup kept]
     /\ \/ kept = {} /\ UNCHANGED refused
        \/ \E top \in Seqs(kept) :
             /\ IsTop(top, Seqs(kept))
             /\ refused' = [refused EXCEPT ![n] = Greatest(@, top)]
     /\ shareMark' = [shareMark EXCEPT ![n] = Greatest(@, Through(n))]
     /\ fresh' = [fresh EXCEPT ![n] = {}]
     /\ batch' = [batch EXCEPT ![n] = NoBatch]
     /\ Goto(n, "barrier")
     /\ UNCHANGED <<shareSeq, synced, syncSeq, open, syncMark, watermark, queue, whole, safe,
                    fails, does>>

----------------------------------------------------------------------------
(* The sync_seq streams of one pass.                                        *)

(* The barrier is tried exclusively: with no landing open, every number at  *)
(* or below the sequence's last value has committed or never will.          *)
\* Mutant: landings still open are not waited for.
BarrierMarkOpen(n) == Greatest(safe[n], syncSeq[Peer(n)])
BarrierMark(n) == IF open[Peer(n)] = {} THEN Greatest(safe[n], syncSeq[Peer(n)]) ELSE safe[n]
SyncBarrier(n) ==
  LET mark == BarrierMark(n)
  IN /\ stage[n] = "barrier"
     /\ safe' = [safe EXCEPT ![n] = mark]
     /\ Goto(n, IF mark = 0 THEN "idle" ELSE "block")
     /\ UNCHANGED <<dbVars, batch, fresh, queue, whole, fails, does>>

NextStage(s) == IF s \in {"block", "block_apply"} THEN "prepared" ELSE "idle"
ApplyStage(k) == IF k = "block" THEN "block_apply" ELSE "prepared_apply"

(* D-5: a block is applied once the share mark covers its window.           *)
\* Mutant: it is applied as soon as it is read.
WindowCoveredAtOnce(b, mark) == TRUE
WindowCovered(b, mark) == \A r \in b.window : r.seq <= mark

(* The rows of the peer's stream from the cursor through the safe mark, at  *)
(* most SyncLimit; of these, the ones before the first uncovered block.     *)
ReadSync(n, k) ==
  LET due == {b \in synced[Peer(n)] : /\ b.origin = Peer(n) /\ b.kind = k
                                      /\ syncMark[n][k] < b.sync /\ b.sync <= safe[n]}
      pulled == {b \in due : Cardinality({c \in due : c.sync < b.sync}) < SyncLimit}
      covered == {b \in pulled : \A c \in pulled :
                                   c.sync <= b.sync => WindowCovered(c, shareMark[n])}
  IN /\ stage[n] = k
     /\ queue' = [queue EXCEPT ![n] = covered]
     /\ whole' = [whole EXCEPT ![n] = covered = pulled /\ Cardinality(pulled) < SyncLimit]
     /\ Goto(n, ApplyStage(k))
     /\ UNCHANGED <<dbVars, batch, fresh, safe, fails, does>>

(* One row whole, with its cursor, in one transaction; one held already,    *)
(* by this node's own landing or adoption, is passed.                       *)
ApplySync(n, b) ==
  /\ b \in queue[n] /\ \A c \in queue[n] : b.sync <= c.sync
  /\ Named(open[n], b.kind, b.id) = {}
  /\ synced' = [synced EXCEPT ![n] = IF Named(@, b.kind, b.id) = {} THEN @ \cup {b} ELSE @]
  /\ syncMark' = [syncMark EXCEPT ![n][b.kind] = Greatest(@, b.sync)]
  /\ queue' = [queue EXCEPT ![n] = @ \ {b}]
  /\ UNCHANGED <<shares, shareSeq, shareMark, refused, quarantine, syncSeq, open, watermark,
                 rollup, stage, batch, fresh, whole, safe, fails, does>>

(* A stream read to its end settles at the mark.                            *)
SettleSync(n, k) ==
  /\ stage[n] = ApplyStage(k)
  /\ queue[n] = {}
  /\ syncMark' = IF whole[n] THEN [syncMark EXCEPT ![n][k] = Greatest(@, safe[n])]
                             ELSE syncMark
  /\ whole' = [whole EXCEPT ![n] = FALSE]
  /\ Goto(n, NextStage(stage[n]))
  /\ UNCHANGED <<shares, shareSeq, shareMark, refused, quarantine, synced, syncSeq, open,
                 watermark, rollup, batch, fresh, queue, safe, fails, does>>

----------------------------------------------------------------------------
(* Failures.                                                                *)

EndPass(n) ==
  /\ batch' = [batch EXCEPT ![n] = NoBatch]
  /\ fresh' = [fresh EXCEPT ![n] = {}]
  /\ queue' = [queue EXCEPT ![n] = {}]
  /\ whole' = [whole EXCEPT ![n] = FALSE]

(* A stream whose rows cannot be applied here keeps its cursor before them, *)
(* and the other streams go on.                                             *)
StreamFails(n) ==
  /\ "fail" \in does[n] /\ fails < MaxFails /\ fails' = fails + 1
  /\ \/ stage[n] \in {"raise", "check", "insert", "commit"} /\ Goto(n, "barrier")
     \/ stage[n] \in {"block_apply", "prepared_apply"} /\ Goto(n, NextStage(stage[n]))
  /\ EndPass(n)
  /\ UNCHANGED <<does, dbVars, safe>>

(* A read of the peer fails: the pass ends and drops the path, and the mark *)
(* read on it.  A process that dies leaves the same behind.                 *)
PassFails(n) ==
  /\ "fail" \in does[n] /\ fails < MaxFails /\ fails' = fails + 1
  /\ stage[n] # "idle" \/ safe[n] # 0
  /\ Goto(n, "idle")
  /\ safe' = [safe EXCEPT ![n] = 0]
  /\ EndPass(n)
  /\ UNCHANGED <<does, dbVars>>

----------------------------------------------------------------------------
PassStep(n) ==
  \/ ReadShares(n) \/ RaiseShareSequence(n) \/ CheckShares(n) \/ InsertShares(n)
  \/ CommitShares(n) \/ SyncBarrier(n)
  \/ \E k \in Kinds : ReadSync(n, k) \/ SettleSync(n, k)
  \/ \E b \in queue[n] : ApplySync(n, b)

EndLanding(n) == \E b \in open[n] : \E c \in BOOLEAN : LandEnd(n, b, c)

Write(n) ==
  \/ \E h \in does[n] \cap Headers : Append(n, h)
  \/ "abort" \in does[n] /\ AppendAborts(n)
  \/ \E k \in Kinds \cap does[n], i \in Ids, w \in {{}, shares[n]} \cup
        {b.window : b \in synced[Peer(n)] \cup open[Peer(n)]} : LandBegin(n, k, i, w)

Next ==
  \E n \in Nodes :
    \/ Write(n) \/ ("sweep" \in does[n] /\ Sweep(n))
    \/ EndLanding(n) \/ PassStep(n) \/ StreamFails(n) \/ PassFails(n)

Spec == Init /\ [][Next]_streamVars

----------------------------------------------------------------------------
(* The safe peer mark (D-14, migration 027): every share the peer wrote at  *)
(* or below the cursor is held here, or quarantined for good.  The scan     *)
(* counts rows of both origins, so it is true only because each node raises *)
(* its own sequence above a pulled row before the row can be scanned.  The  *)
(* blocks and prepared cursors never pass a row whose transaction was open  *)
(* when the barrier was read, nor one that failed to apply.                 *)
CursorsCover ==
  \A n \in Nodes :
    /\ \A r \in shares[Peer(n)] :
         r.origin = Peer(n) /\ r.seq <= shareMark[n] => r \in shares[n] \cup quarantine[n]
    /\ \A b \in synced[Peer(n)] :
         b.origin = Peer(n) /\ b.sync <= syncMark[n][b.kind] => Named(synced[n], b.kind, b.id) # {}

(* One key, one row: two ledgers never hold different shares under one      *)
(* share_seq, nor different rows of one node's under one sync_seq.          *)
OneRowPerKey ==
  /\ \A r \in shares[0], l \in shares[1] : r.seq = l.seq => r = l
  /\ \A b \in synced[0], c \in synced[1] :
       b.origin = c.origin /\ b.sync = c.sync => b = c

(* No header is credited to two shares of one ledger, whichever of an       *)
(* append and a pull of the other node's credit came first.                 *)
HeaderCreditedOnce ==
  \A n \in Nodes : \A r, l \in shares[n] : r.header = l.header \/ r.seq = l.seq => r = l

(* D-5: a node that holds a block of its peer's holds every share of its    *)
(* window, its own and the peer's, except the ones it has quarantined.      *)
(* (Own-log recovery puts a node's own blocks back before the peer's        *)
(* shares their windows may hold.)                                          *)
WindowsHeld ==
  \A n \in Nodes : \A b \in synced[n] :
    b.origin # n => b.window \subseteq shares[n] \cup quarantine[n]

(* AdoptionNeeds::met_by: the peer's cursors cover the window's last share, *)
(* and nothing of the window is at or below the highest one it refused.     *)
\* Mutant: what the peer refused is not looked at.
MetByScanned(n, first, last) == shareMark[Peer(n)] >= last
MetBy(n, first, last) ==
  shareMark[Peer(n)] >= last /\ (refused[Peer(n)] = 0 \/ first > refused[Peer(n)])

(* D-19: a found block the wait confirms has every share of its window that *)
(* its finder wrote on the peer, which can therefore adopt it.              *)
ConfirmedMeansHeld ==
  \A n \in Nodes : \A first, last \in Seqs(shares[n]) :
    MetBy(n, first, last) =>
      {r \in shares[n] : r.origin = n /\ first <= r.seq /\ r.seq <= last} \subseteq shares[Peer(n)]

(* Every share at or below the sweep's watermark is folded into the rollups *)
(* exactly once: by the sweep that passed it, or by the pull that brought   *)
(* it in below the watermark.                                               *)
FoldedOnce ==
  \A n \in Nodes : rollup[n] = Cardinality({r \in shares[n] : r.seq <= watermark[n]})

(* What either node wrote has reached the other: its shares are held or     *)
(* quarantined, its blocks and prepared jobs held.                          *)
AllPulled ==
  \A n \in Nodes :
    /\ \A r \in shares[Peer(n)] : r.origin = Peer(n) => r \in shares[n] \cup quarantine[n]
    /\ \A b \in synced[Peer(n)] : Named(synced[n], b.kind, b.id) # {}
=============================================================================
