------------------------------- MODULE OwnLog -------------------------------
(***************************************************************************)
(* A writer whose database is rolled back.  A node of the pair may be      *)
(* restored from its own backup, on the same WAL timeline or a new one, or *)
(* rebuilt from a copy of its peer's database (node-identity               *)
(* repersonalise).  Its frontend serves nothing until the own-log latch is *)
(* set: it has pulled back every row it wrote that the peer still holds    *)
(* and raised its sequences above everything the peer has seen of it, or   *)
(* the peer is out of reach and the database is still on the server it     *)
(* last proved itself on (peer_sync/engine.rs, D-8, D-16, D-17).           *)
(*                                                                         *)
(* A restore outlasts a pass of the other node: every pass meanwhile fails *)
(* and drops its path, so none applies what it read before the restore to  *)
(* a cursor read after it.                                                 *)
(***************************************************************************)
EXTENDS PeerStreams

CONSTANTS
  MaxRestores,    \* bound on restores and rebuilds
  MaxCrashes,     \* bound on frontends that die
  AppendsFirst    \* a share may be appended between a restore under the
                  \* running frontend and the pass that notices it

ASSUME OwnLogAssumption ==
  MaxRestores \in Nat /\ MaxCrashes \in Nat /\ AppendsFirst \in BOOLEAN

VARIABLES
  evidence,   \* the database's system identifier and timeline, one number
  verified,   \* the evidence the own log was last verified on, 0 for none
  latch,      \* the evidence the process latched on, 0 while unset
  lost,       \* own_log_lost: every share is refused until the process exits
  diverged,   \* own_log_diverged
  recovery,   \* where own-log recovery is
  proving,    \* the evidence recovery started on
  reach,      \* the peer is readable until recovery finds what is missing
  backup,     \* a consistent copy of the database, taken at some moment
  restores, crashes

logVars == <<evidence, verified, latch, lost, diverged, recovery, proving, reach,
             backup, restores, crashes>>
ownVars == <<streamVars, logVars>>

Database(n) ==
  [shares |-> shares[n], shareSeq |-> shareSeq[n], shareMark |-> shareMark[n],
   refused |-> refused[n], quarantine |-> quarantine[n], synced |-> synced[n],
   syncSeq |-> syncSeq[n], syncMark |-> syncMark[n], watermark |-> watermark[n],
   rollup |-> rollup[n], verified |-> verified[n], evidence |-> evidence[n]]

OwnInit ==
  /\ Init
  /\ evidence = [n \in Nodes |-> 1] /\ verified = [n \in Nodes |-> 1]
  /\ latch = [n \in Nodes |-> 1]
  /\ lost = [n \in Nodes |-> FALSE] /\ diverged = [n \in Nodes |-> FALSE]
  /\ recovery = [n \in Nodes |-> "none"] /\ proving = [n \in Nodes |-> 0]
  /\ reach = [n \in Nodes |-> FALSE]
  /\ backup = [n \in Nodes |-> <<>>]
  /\ restores = 0 /\ crashes = 0

----------------------------------------------------------------------------
(* The streams, gated by the latch.  The listeners, the refresh and the     *)
(* submit loop start with the latch; an append checks own_log_lost.         *)
\* Mutant: they start with the process.
ServingUnlatched(n) == ~lost[n]
Serving(n) == latch[n] # 0 /\ (evidence[n] = latch[n] \/ AppendsFirst)

(* A pass starts by comparing the evidence with the one latched.            *)
Pull(n) ==
  /\ latch[n] # 0 /\ (stage[n] = "idle" => evidence[n] = latch[n])
  /\ PassStep(n) \/ StreamFails(n) \/ PassFails(n)

Serve(n) ==
  /\ (Serving(n) /\ Write(n)) \/ EndLanding(n) \/ Pull(n)
  /\ UNCHANGED logVars

(* The database changed under the running frontend: it refuses every share  *)
(* and stops.                                                               *)
StopFrontend(n) ==
  /\ stage[n] = "idle" /\ latch[n] # 0 /\ evidence[n] # latch[n]
  /\ lost' = [lost EXCEPT ![n] = TRUE]
  /\ latch' = [latch EXCEPT ![n] = 0]
  /\ UNCHANGED <<streamVars, evidence, verified, diverged, recovery, proving, reach,
                 backup, restores, crashes>>

----------------------------------------------------------------------------
(* Own-log recovery, in the pass of a process without the latch.            *)

RecoveryVars(n, r) == recovery' = [recovery EXCEPT ![n] = r]
Recovering(n, r) == ~lost[n] /\ recovery[n] = r

RecoverBegin(n) ==
  /\ Recovering(n, "none") /\ latch[n] = 0 /\ stage[n] = "idle"
  /\ proving' = [proving EXCEPT ![n] = evidence[n]]
  /\ RecoveryVars(n, "shares")
  /\ UNCHANGED <<streamVars, evidence, verified, latch, lost, diverged, reach, backup,
                 restores, crashes>>

AboveAll(S, x) == CHOOSE s \in S \cup {x} : IsTop(s, S \cup {x})
Own(n, rows) == {r \in rows : r.origin = n}
\* Mutant: the read starts from the first of them every time.
MissingSharesAll(n) == Own(n, shares[Peer(n)])
MissingShares(n) ==
  {r \in Own(n, shares[Peer(n)]) : \A l \in Own(n, shares[n]) : l.seq < r.seq}
MissingSync(n, k) ==
  {b \in Own(n, synced[Peer(n)]) : b.kind = k /\ Named(synced[n], k, b.id) = {}}

(* Rows are missing: the verification goes before any of them is inserted.  *)
Forget(n, missing) ==
  /\ verified' = IF missing THEN [verified EXCEPT ![n] = 0] ELSE verified
  /\ reach' = IF missing THEN [reach EXCEPT ![n] = FALSE] ELSE reach

(* The peer's copy of this node's shares is read from the highest one held. *)
RecoverReadShares(n) ==
  LET missing == MissingShares(n)
      rows == {r \in missing : Cardinality({t \in missing : t.seq < r.seq}) < BatchRows}
  IN /\ Recovering(n, "shares")
     /\ batch' = [batch EXCEPT ![n].rows = rows]
     /\ Forget(n, rows # {})
     /\ RecoveryVars(n, IF rows = {} THEN "block" ELSE "insert")
     /\ UNCHANGED <<dbVars, stage, fresh, queue, whole, safe, fails, does, evidence, latch, lost, diverged, proving, backup, restores, crashes>>

(* They are put back under ORDER_LOCK, the sequence raised above them first. *)
(* A row that meets a conflict here is left out: the own log has diverged.  *)
RecoverInsertShares(n) ==
  LET rows == batch[n].rows
      kept == {r \in rows : \A l \in shares[n] : l.seq = r.seq \/ l.header = r.header => l = r}
  IN /\ Recovering(n, "insert")
     /\ shareSeq' = [shareSeq EXCEPT ![n] = AtOrAbove(n, AboveAll(Seqs(rows), @))]
     /\ batch' = [batch EXCEPT ![n] = NoBatch]
     /\ shares' = [shares EXCEPT ![n] = @ \cup kept]
     /\ rollup' = [rollup EXCEPT ![n] = @ + Folded(n, kept \ shares[n])]
     /\ diverged' = [diverged EXCEPT ![n] = @ \/ kept # rows]
     /\ RecoveryVars(n, IF kept = rows THEN "shares" ELSE "none")
     /\ UNCHANGED <<shareMark, refused, quarantine, synced, syncSeq, open, syncMark, watermark,
                    stage, fresh, queue, whole, safe, fails, does, evidence, verified, latch, lost,
                    proving, reach, backup, restores, crashes>>

(* Landed blocks, then prepared jobs: they commit out of order, so all of   *)
(* them are compared.                                                       *)
RecoverReadSync(n, k) ==
  LET missing == MissingSync(n, k)
  IN /\ Recovering(n, k) /\ queue[n] = {}
     /\ queue' = [queue EXCEPT ![n] = missing]
     /\ Forget(n, missing # {})
     /\ RecoveryVars(n, IF missing # {} THEN k ELSE IF k = "block" THEN "prepared" ELSE "raise")
     /\ UNCHANGED <<dbVars, stage, batch, fresh, whole, safe, fails, does, evidence, latch, lost, diverged, proving, backup, restores, crashes>>

RecoverInsertSync(n, b) ==
  /\ recovery[n] \in Kinds /\ Recovering(n, recovery[n]) /\ b \in queue[n]
  /\ synced' = [synced EXCEPT ![n] = @ \cup {b}]
  /\ queue' = [queue EXCEPT ![n] = @ \ {b}]
  /\ UNCHANGED <<shares, shareSeq, shareMark, refused, quarantine, syncSeq, open, syncMark,
                 watermark, rollup, stage, batch, fresh, whole, safe, fails, does, logVars>>

(* The own sequences go above the peer's cursors over this node's streams   *)
(* and above the highest own rows it holds.                                 *)
ShareFloor(n) == AboveAll(Seqs(Own(n, shares[Peer(n)])), shareMark[Peer(n)])
\* Mutant: landed rows are put back under the keys they had.
SyncFloorHeld(n) == 0
SyncFloor(n) ==
  AboveAll({b.sync : b \in Own(n, synced[Peer(n)])},
           Greatest(syncMark[Peer(n)]["block"], syncMark[Peer(n)]["prepared"]))
RaiseOwnSequences(n) ==
  /\ Recovering(n, "raise")
  /\ shareSeq' = [shareSeq EXCEPT ![n] =
       AtOrAbove(n, Greatest(@, AboveAll(Seqs(shares[n]), ShareFloor(n))))]
  /\ syncSeq' = [syncSeq EXCEPT ![n] = Greatest(@, SyncFloor(n))]
  /\ RecoveryVars(n, "record")
  /\ UNCHANGED <<shares, shareMark, refused, quarantine, synced, open, syncMark, watermark,
                 rollup, passVars, fails, does, evidence, verified, latch, lost, diverged,
                 proving, reach, backup, restores, crashes>>

(* The verification is recorded only on the server recovery began on.       *)
RecoverDone(n) ==
  /\ Recovering(n, "record") /\ evidence[n] = proving[n]
  /\ verified' = [verified EXCEPT ![n] = proving[n]]
  /\ latch' = [latch EXCEPT ![n] = proving[n]]
  /\ reach' = [reach EXCEPT ![n] = FALSE]
  /\ RecoveryVars(n, "none")
  /\ UNCHANGED <<streamVars, evidence, lost, diverged, proving, backup, restores,
                 crashes>>

(* The peer cannot be read, from the start or partway: the latch follows    *)
(* the evidence alone.                                                      *)
\* Mutant: a verification on another server will do.
MayLatchAloneVerified(n) == ~diverged[n] /\ verified[n] # 0
MayLatchAlone(n) == ~diverged[n] /\ verified[n] = evidence[n]
LatchWithoutPeer(n) ==
  /\ ~lost[n] /\ latch[n] = 0 /\ stage[n] = "idle" /\ ~reach[n]
  /\ "fail" \in does[n] /\ fails < MaxFails /\ fails' = fails + 1
  /\ latch' = IF MayLatchAlone(n) THEN [latch EXCEPT ![n] = evidence[n]] ELSE latch
  /\ batch' = [batch EXCEPT ![n] = NoBatch] /\ queue' = [queue EXCEPT ![n] = {}]
  /\ RecoveryVars(n, "none")
  /\ UNCHANGED <<does, dbVars, stage, fresh, whole, safe, evidence, verified, lost, diverged,
                 proving, reach, backup, restores, crashes>>

Recover(n) ==
  \/ RecoverBegin(n) \/ RecoverReadShares(n) \/ RecoverInsertShares(n)
  \/ \E k \in Kinds : RecoverReadSync(n, k)
  \/ \E b \in queue[n] : RecoverInsertSync(n, b)
  \/ RaiseOwnSequences(n) \/ RecoverDone(n)

----------------------------------------------------------------------------
(* Processes and databases fail.                                            *)

(* The process of n ends and another starts: what it held in memory goes,   *)
(* and its open transactions roll back.                                     *)
Restarted(n) ==
  /\ stage' = [stage EXCEPT ![n] = "idle"] /\ batch' = [batch EXCEPT ![n] = NoBatch]
  /\ fresh' = [fresh EXCEPT ![n] = {}] /\ queue' = [queue EXCEPT ![n] = {}]
  /\ whole' = [whole EXCEPT ![n] = FALSE]
  /\ latch' = [latch EXCEPT ![n] = 0] /\ lost' = [lost EXCEPT ![n] = FALSE]
  /\ diverged' = [diverged EXCEPT ![n] = FALSE]
  /\ recovery' = [recovery EXCEPT ![n] = "none"] /\ proving' = [proving EXCEPT ![n] = 0]

Exit(n) ==
  /\ lost[n] \/ ("crash" \in does[n] /\ crashes < MaxCrashes)
  /\ crashes' = IF lost[n] THEN crashes ELSE crashes + 1
  /\ Restarted(n)
  /\ safe' = [safe EXCEPT ![n] = 0]
  /\ open' = [open EXCEPT ![n] = {}]
  /\ UNCHANGED <<shares, shareSeq, shareMark, refused, quarantine, synced, syncSeq, syncMark,
                 watermark, rollup, fails, does, evidence, verified, reach, backup, restores>>

Backup(n) ==
  /\ "backup" \in does[n] /\ backup[n] = <<>>
  /\ backup' = [backup EXCEPT ![n] = Database(n)]
  /\ UNCHANGED <<streamVars, evidence, verified, latch, lost, diverged, recovery, proving, reach,
                 restores, crashes>>

Load(n, d) ==
  /\ shares' = [shares EXCEPT ![n] = d.shares] /\ shareSeq' = [shareSeq EXCEPT ![n] = d.shareSeq]
  /\ shareMark' = [shareMark EXCEPT ![n] = d.shareMark]
  /\ refused' = [refused EXCEPT ![n] = d.refused]
  /\ quarantine' = [quarantine EXCEPT ![n] = d.quarantine]
  /\ synced' = [synced EXCEPT ![n] = d.synced] /\ syncSeq' = [syncSeq EXCEPT ![n] = d.syncSeq]
  /\ syncMark' = [syncMark EXCEPT ![n] = d.syncMark]
  /\ watermark' = [watermark EXCEPT ![n] = d.watermark]
  /\ rollup' = [rollup EXCEPT ![n] = d.rollup]
  /\ verified' = [verified EXCEPT ![n] = d.verified]
  /\ evidence' = [evidence EXCEPT ![n] = d.evidence]
  /\ open' = [open EXCEPT ![n] = {}]
  /\ safe' = [m \in Nodes |-> 0]

(* A restore of the node's own backup, with its frontend stopped or under   *)
(* it.  Recovery through the archive starts a new timeline.  One that keeps *)
(* the timeline is made with the peer in reach, or with the verification    *)
(* cleared (docs/prism-ledger-ops.md, "Restoring a node").                  *)
Restore(n, timeline, cleared, under) ==
  LET d == [backup[n] EXCEPT !.evidence = IF timeline = "new" THEN restores + 2 ELSE @,
                             !.verified = IF cleared THEN 0 ELSE @]
  IN /\ restores < MaxRestores /\ restores' = restores + 1
     /\ backup[n] # <<>> /\ stage[Peer(n)] = "idle" /\ recovery[Peer(n)] = "none"
     /\ cleared => timeline = "kept"
     /\ under => timeline = "new" /\ stage[n] = "idle" /\ recovery[n] = "none"
     /\ Load(n, d)
     /\ reach' = [reach EXCEPT ![n] = timeline = "kept" /\ ~cleared]
     /\ IF under THEN UNCHANGED <<stage, batch, fresh, queue, whole, latch, lost, diverged,
                                  recovery, proving>>
                 ELSE Restarted(n)
     /\ UNCHANGED <<fails, does, backup, crashes>>

(* node-identity repersonalise: a promoted copy of the peer's database      *)
(* becomes n's.  Keys go above every key held and above every position the  *)
(* peer had reached in n's old streams; the shares cursor starts at the     *)
(* peer's newest share in the copy, the others at its floor.                *)
Repersonalise(n) ==
  LET c == backup[Peer(n)]
      d == [c EXCEPT !.shareSeq = AtOrAbove(n, AboveAll(Seqs(c.shares),
                                                        Greatest(c.shareSeq, c.shareMark))),
                     !.shareMark = AboveAll(Seqs(Own(Peer(n), c.shares)), Peer(n)),
                     !.refused = 0, !.quarantine = {},
                     !.syncSeq = AboveAll({b.sync : b \in c.synced} \cup {c.syncSeq},
                                          Greatest(c.syncMark["block"], c.syncMark["prepared"])),
                     !.syncMark = [k \in Kinds |-> 0],
                     !.verified = 0, !.evidence = restores + 2]
  IN /\ restores < MaxRestores /\ restores' = restores + 1
     /\ c # <<>> /\ stage[Peer(n)] = "idle" /\ recovery[Peer(n)] = "none"
     /\ Load(n, d)
     /\ reach' = [reach EXCEPT ![n] = FALSE]
     /\ Restarted(n)
     /\ UNCHANGED <<fails, does, backup, crashes>>

----------------------------------------------------------------------------
OwnNext ==
  \E n \in Nodes :
    \/ Serve(n) \/ ("sweep" \in does[n] /\ Sweep(n) /\ UNCHANGED logVars) \/ StopFrontend(n)
    \/ Recover(n) \/ LatchWithoutPeer(n) \/ Exit(n) \/ Backup(n)
    \/ \E timeline \in {"new", "kept"}, cleared, under \in BOOLEAN :
         Restore(n, timeline, cleared, under)
    \/ Repersonalise(n)

OwnSpec == OwnInit /\ [][OwnNext]_ownVars

(* The sync loop passes, a stopped frontend is restarted.                   *)
OwnFairness ==
  \A n \in Nodes :
    /\ WF_ownVars(Recover(n)) /\ WF_ownVars(StopFrontend(n)) /\ WF_ownVars(lost[n] /\ Exit(n))
    /\ WF_ownVars(PassStep(n) /\ Pull(n) /\ UNCHANGED logVars)
    /\ WF_ownVars(EndLanding(n) /\ UNCHANGED logVars)
OwnLiveSpec == OwnSpec /\ OwnFairness

----------------------------------------------------------------------------
(* The latch (D-8): while it is set on the server the database still runs   *)
(* on, this node holds every row it originated that the peer holds, so      *)
(* nothing it appends or lands can take the identity of a row it forgot.    *)
LatchMeansWhole ==
  \A n \in Nodes : latch[n] # 0 /\ latch[n] = evidence[n] =>
    /\ Own(n, shares[Peer(n)]) \subseteq shares[n]
    /\ \A b \in Own(n, synced[Peer(n)]) : Named(synced[n], b.kind, b.id) # {}

(* A node that was rolled back serves again once its peer can be read, and  *)
(* what either node wrote comes to be held by both.                         *)
PairConverges ==
  /\ \A n \in Nodes : []<>(latch[n] # 0 \/ diverged[n])
  /\ <>[]AllPulled
=============================================================================
