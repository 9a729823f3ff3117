---------------------------- MODULE OwnLogProofs ----------------------------
(***************************************************************************)
(* The pair with a database that is rolled back.  Its streams keep their   *)
(* invariant relative to W, the nodes whose log is whole: PeerInv(W) asks  *)
(* of a node's sequences and of the other's copies of its rows only while  *)
(* the node is in W.  A node leaves W when its database is restored or     *)
(* rebuilt and is in it again once recovery has put its rows back and has  *)
(* raised its sequences; until then it is Behind: without the latch, with  *)
(* own rows that are a prefix of what its peer holds of it.  That a copy   *)
(* taken earlier is good to be Behind with is what Unrolled carries from   *)
(* the beginning to the rollback.                                          *)
(*                                                                         *)
(* This module has the steps that roll nothing back; RollbackProofs has    *)
(* the others and the theorems.                                            *)
(***************************************************************************)
EXTENDS PeerProofs, OwnLog

USE ZenonT(60)

RecoverySteps == {"none", "shares", "insert", "block", "prepared", "raise", "record"}
Copies ==
  [shares : SUBSET ShareRows, shareSeq : Nat, shareMark : Nat, refused : Nat,
   quarantine : SUBSET ShareRows, synced : SUBSET SyncRecords, syncSeq : Nat,
   syncMark : [Kinds -> Nat], watermark : Nat, rollup : Nat, verified : Nat, evidence : Nat]
LogTypes ==
  /\ evidence \in [Nodes -> Nat] /\ verified \in [Nodes -> Nat] /\ latch \in [Nodes -> Nat]
  /\ lost \in [Nodes -> BOOLEAN] /\ recovery \in [Nodes -> RecoverySteps]
  /\ proving \in [Nodes -> Nat] /\ reach \in [Nodes -> BOOLEAN]
  /\ backup \in [Nodes -> {<<>>} \cup Copies] /\ restores \in Nat

(* A process recovers its log without the latch and between passes.  One    *)
(* whose log is whole finds nothing to put back.                            *)
Process(n, W) ==
  /\ recovery[n] # "none" => latch[n] = 0 /\ stage[n] = "idle"
  /\ n \in W => recovery[n] # "insert"
  /\ n \notin W => recovery[n] # "record"

(* A hash or a prepared key names one row of a ledger.                      *)
OneName(n) ==
  \A b, c \in synced[n] \cup open[n] : b.kind = c.kind /\ b.id = c.id => b = c

----------------------------------------------------------------------------
(* A node that was rolled back and has not raised its sequences yet.        *)

(* It holds no latch on the server it runs on, and cannot take one alone.   *)
Locked(n) ==
  /\ Peer(n) \in Nodes
  /\ latch[n] = 0 \/ evidence[n] # latch[n]
  /\ evidence[n] # 0 /\ (verified[n] # evidence[n] \/ reach[n])
  /\ stage[n] = "idle" /\ open[n] = {}

(* What it holds of its own shares is a prefix of what its peer holds, and  *)
(* nothing it holds stands against the rest.                                *)
OwnPrefix(n) ==
  LET theirs == Own(n, shares[Peer(n)])
  IN /\ \A r \in theirs : r.seq % 2 = n
     /\ \A r \in theirs : \A l \in Own(n, shares[n]) : r.seq <= l.seq => r \in shares[n]
     /\ \A r \in theirs : \A l \in shares[n] : r.seq = l.seq \/ r.header = l.header => r = l
     /\ recovery[n] = "insert" =>
          /\ batch[n].rows \subseteq theirs
          /\ \A r \in theirs, l \in batch[n].rows : r.seq <= l.seq => r \in shares[n] \cup batch[n].rows
     /\ recovery[n] \in {"block", "prepared", "raise"} => theirs \subseteq shares[n]

(* Its landed rows and its peer's copies of them agree on names and on      *)
(* numbers, and those above its sequence are on the peer too.               *)
OwnLanded(n) ==
  LET theirs == Own(n, synced[Peer(n)])
  IN /\ \A b \in theirs : \A c \in synced[n] :
          (c.origin = n /\ b.sync = c.sync) \/ (b.kind = c.kind /\ b.id = c.id) => b = c
     /\ \A b, c \in theirs : b.sync = c.sync => b = c
     /\ \A b \in synced[n] : b.origin = n => b.sync <= syncSeq[n] \/ b \in synced[Peer(n)]
     /\ \A b \in queue[n] : b \in theirs /\ b.kind = recovery[n]
     /\ recovery[n] \in {"prepared", "raise"} => \A b \in theirs : b.kind = "block" => b \in synced[n]
     /\ recovery[n] = "raise" => theirs \subseteq synced[n]

Behind(n) == Locked(n) /\ OwnPrefix(n) /\ OwnLanded(n)

----------------------------------------------------------------------------
(* Before any rollback.                                                     *)

(* Pulls take the peer's shares in the order of their keys.                 *)
InOrder(n) ==
  /\ \A r \in shares[n] : r.origin # n => r.seq <= shareMark[n]
  /\ stage[n] \in {"raise", "check", "insert", "commit"} =>
       \A r \in batch[n].rows : shareMark[n] < r.seq /\ r.seq <= batch[n].through
OwnWindows(n) ==
  \A b \in synced[n] \cup open[n] : b.origin = n => b.window \subseteq shares[n]

(* A copy of a database, as it was when it was taken ...                    *)
Sound(n, B) ==
  /\ B.evidence = 1 /\ B.verified = 1
  /\ B.shareSeq % 2 = n /\ B.watermark <= B.shareSeq
  /\ B.rollup = Cardinality({r \in B.shares : r.seq <= B.watermark})
  /\ \A r \in B.shares : r.seq <= B.shareSeq /\ (r.origin # n => r.seq <= B.shareMark)
  /\ \A r \in B.quarantine : r.seq <= B.refused
  /\ \A b \in B.synced :
       /\ b.origin = n => b.sync <= B.syncSeq /\ b.window \subseteq B.shares
       /\ b.origin # n => b.window \subseteq B.shares \cup B.quarantine

(* ... and as the databases are since.                                      *)
Since(n, B) ==
  /\ B.shares \subseteq shares[n] /\ B.synced \subseteq synced[n]
  /\ B.shareSeq <= shareSeq[n] /\ B.shareMark <= shareMark[n]
  /\ \A r \in shares[n] : r.origin = n /\ r.seq <= B.shareSeq => r \in B.shares
  /\ \A r \in shares[n] : r.origin # n /\ r.seq <= B.shareMark => r \in B.shares
  /\ B.shareMark <= shareSeq[Peer(n)]
  /\ \A r \in shares[Peer(n)] :
       r.origin = Peer(n) /\ r.seq <= B.shareMark => r \in B.shares \cup B.quarantine
  /\ \A k \in Kinds :
       /\ B.syncMark[k] <= syncSeq[Peer(n)]
       /\ \A b \in open[Peer(n)] : B.syncMark[k] < b.sync
       /\ \A b \in Theirs(n, k) : b.sync <= B.syncMark[k] => Named(B.synced, k, b.id) # {}

Unrolled(n) ==
  /\ evidence[n] = 1 /\ verified[n] = 1 /\ latch[n] \in {0, 1}
  /\ InOrder(n) /\ OwnWindows(n)
  /\ backup[n] # <<>> => Sound(n, backup[n]) /\ Since(n, backup[n])

----------------------------------------------------------------------------
LogInv(W) ==
  /\ PeerInv(W) /\ LogTypes /\ W \subseteq Nodes
  /\ \A n \in Nodes : Process(n, W) /\ OneName(n)
  /\ \A n \in Nodes \ W : Peer(n) \in W /\ Behind(n)
  /\ restores = 0 => W = Nodes /\ \A n \in Nodes : Unrolled(n)

OwnInv == \E W \in SUBSET Nodes : LogInv(W)
----------------------------------------------------------------------------
(* What a step of a node whose log is whole may do: rows are added, and     *)
(* new ones have new numbers or are the other node's.                       *)
PeerSame(n) ==
  /\ shares'[Peer(n)] = shares[Peer(n)] /\ shareSeq'[Peer(n)] = shareSeq[Peer(n)]
  /\ shareMark'[Peer(n)] = shareMark[Peer(n)] /\ synced'[Peer(n)] = synced[Peer(n)]
  /\ syncSeq'[Peer(n)] = syncSeq[Peer(n)] /\ open'[Peer(n)] = open[Peer(n)]
  /\ stage'[Peer(n)] = stage[Peer(n)] /\ batch'[Peer(n)] = batch[Peer(n)]
  /\ queue'[Peer(n)] = queue[Peer(n)]
SharesGrow(n) ==
  /\ shares[n] \subseteq shares'[n] /\ shareSeq[n] <= shareSeq'[n] /\ shareMark[n] <= shareMark'[n]
  /\ \A r \in shares'[n] \ shares[n] :
       \/ r.origin = n /\ shareSeq[n] < r.seq
       \/ /\ r.origin = Peer(n) /\ r \in shares[Peer(n)]
          /\ stage[n] = "commit" /\ r \in batch[n].rows /\ batch[n].through <= shareMark'[n]
SyncGrows(n) ==
  /\ synced[n] \subseteq synced'[n] /\ syncSeq[n] <= syncSeq'[n]
  /\ \A b \in open'[n] \ open[n] :
       b.origin = n /\ syncSeq[n] < b.sync /\ b.window \subseteq shares[n]
  /\ \A b \in synced'[n] \ synced[n] :
       b \in open[n] \/ (b.origin = Peer(n) /\ b \in synced[Peer(n)])
Grows(n) == PeerSame(n) /\ SharesGrow(n) /\ SyncGrows(n)

LEMMA PassDrops ==
    ASSUME NEW W, PeerInv(W), PassTypes', NEW n \in Nodes,
           UNCHANGED <<shares, shareSeq, shareMark, refused, quarantine, watermark, rollup, synced,
                       syncSeq, syncMark>>,
           open' \in [Nodes -> SUBSET SyncRecords], \A m \in Nodes : open'[m] \subseteq open[m],
           stage'[n] = "idle", queue'[n] = {} \/ n \notin W, safe'[n] \in {safe[n], 0},
           \A m \in Nodes \ {n} :
             /\ stage'[m] = stage[m] /\ batch'[m] = batch[m] /\ fresh'[m] = fresh[m]
             /\ queue'[m] = queue[m] /\ whole'[m] = whole[m] /\ safe'[m] = safe[m]
    PROVE  PeerInv(W)'
<1>1. ShareInv(W)'
  BY OtherStages DEF PeerInv
<1>2. \A m \in Nodes : /\ shares[m] \subseteq shares'[m] /\ quarantine[m] \subseteq quarantine'[m]
                       /\ shareMark[m] <= shareMark'[m]
  BY SMTT(30) DEF PeerInv, ShareInv, ShareTypes
<1>3. /\ \A m \in Nodes : safe'[m] \in {safe[m], 0}
      /\ \A m \in Nodes : \/ /\ stage'[m] = stage[m] /\ whole'[m] = whole[m]
                             /\ queue'[m] = queue[m] /\ safe'[m] = safe[m]
                          \/ stage'[m] \notin Applying /\ (queue'[m] = {} \/ m \notin W)
  BY DEF Applying
<1>4. SyncInv(W)'
  BY <1>1, <1>2, <1>3, SyncKept DEF ShareInv
<1> QED BY <1>1, <1>4 DEF PeerInv

LEMMA NothingGrows ==
    ASSUME ShareTypes, SyncTypes, PassTypes, NEW n \in Nodes,
           UNCHANGED <<shares, shareMark, synced>>,
           \A m \in Nodes : shareSeq[m] <= shareSeq'[m] /\ syncSeq[m] <= syncSeq'[m],
           open'[n] \subseteq open[n],
           /\ shareSeq'[Peer(n)] = shareSeq[Peer(n)] /\ syncSeq'[Peer(n)] = syncSeq[Peer(n)]
           /\ open'[Peer(n)] = open[Peer(n)] /\ stage'[Peer(n)] = stage[Peer(n)]
           /\ batch'[Peer(n)] = batch[Peer(n)] /\ queue'[Peer(n)] = queue[Peer(n)]
    PROVE  Grows(n)
<1>1. shareMark[n] <= shareMark'[n]
  BY SMTT(30) DEF ShareTypes
<1> QED BY <1>1 DEF Grows, PeerSame, SharesGrow, SyncGrows

LEMMA StepGrows ==
    ASSUME NEW W, PeerInv(W), NEW n \in Nodes, n \in W,
           Write(n) \/ EndLanding(n) \/ PassStep(n) \/ StreamFails(n) \/ PassFails(n)
    PROVE  Grows(n)
<1> DEFINE p == Peer(n)
<1>1. /\ ShareTypes /\ SyncTypes /\ PassTypes /\ p \in Nodes /\ p # n
      /\ Pulling(n) /\ Queued(n, W) /\ Numbered(n, W)
  BY Pairs DEF PeerInv, ShareInv, SyncInv
<1>2. \A m \in Nodes : /\ shareSeq[m] \in Nat /\ syncSeq[m] \in Nat /\ shareMark[m] \in Nat
                       /\ shareSeq[m] <= shareSeq[m] /\ syncSeq[m] <= syncSeq[m]
                       /\ shareMark[m] <= shareMark[m]
  BY SMTT(30), <1>1 DEF ShareTypes, SyncTypes
<1>3. ASSUME NEW h \in Headers, Append(n, h) PROVE Grows(n)
  <2> DEFINE row == [seq |-> shareSeq[n] + 2, origin |-> n, header |-> h]
  <2>1. /\ shares'[n] = shares[n] \cup {row} /\ shares'[p] = shares[p]
        /\ shareSeq'[n] = shareSeq[n] + 2 /\ shareSeq'[p] = shareSeq[p]
        /\ UNCHANGED <<shareMark, synced, syncSeq, open, stage, batch, queue>>
    BY <1>1, <1>3 DEF Append, ShareTypes, passVars
  <2>2. row.origin = n /\ shareSeq[n] < row.seq /\ shareSeq[n] <= shareSeq'[n]
    BY SMTT(30), <1>2, <2>1
  <2> HIDE DEF row
  <2> QED BY <1>2, <2>1, <2>2 DEF Grows, PeerSame, SharesGrow, SyncGrows
<1>4. CASE AppendAborts(n) \/ RaiseShareSequence(n)
  <2>1. /\ UNCHANGED <<shares, shareMark, synced, syncSeq, open, batch, queue>>
        /\ stage'[p] = stage[p] /\ shareSeq'[p] = shareSeq[p]
    BY <1>1, <1>4 DEF AppendAborts, RaiseShareSequence, ShareTypes, PassTypes, passVars, Goto
  <2>2. shareSeq[n] <= shareSeq'[n]
    <3>1. CASE AppendAborts(n)
      BY SMTT(30), <1>1, <1>2, <3>1 DEF AppendAborts, ShareTypes
    <3>2. CASE RaiseShareSequence(n)
      <4>1. \A r \in batch[n].rows : r.seq \in Nat
        BY SMTT(30), <1>1 DEF PassTypes, ShareRows
      <4>2. \A top \in Seqs(batch[n].rows) : shareSeq[n] <= AtOrAbove(n, Greatest(top, shareSeq[n]))
        BY SMTT(30), <1>2, <4>1 DEF Seqs, AtOrAbove, Greatest
      <4> QED BY <1>1, <1>2, <3>2, <4>2 DEF RaiseShareSequence, ShareTypes
    <3> QED BY <1>4, <3>1, <3>2
  <2> QED BY <1>2, <2>1, <2>2 DEF Grows, PeerSame, SharesGrow, SyncGrows
<1>5. ASSUME NEW k, NEW i, NEW w, LandBegin(n, k, i, w) PROVE Grows(n)
  <2> DEFINE row == [sync |-> syncSeq[n] + 1, origin |-> n, kind |-> k, id |-> i, window |-> w]
  <2>1. /\ open'[n] = open[n] \cup {row} /\ open'[p] = open[p] /\ w \subseteq shares[n]
        /\ syncSeq'[n] = syncSeq[n] + 1 /\ syncSeq'[p] = syncSeq[p]
        /\ UNCHANGED <<shares, shareSeq, shareMark, synced, stage, batch, queue>>
    BY <1>1, <1>5 DEF LandBegin, SyncTypes, passVars
  <2>2. /\ row.origin = n /\ syncSeq[n] < row.sync /\ row.window \subseteq shares[n]
        /\ syncSeq[n] <= syncSeq'[n]
    BY SMTT(30), <1>2, <2>1
  <2> HIDE DEF row
  <2> QED BY <1>2, <2>1, <2>2 DEF Grows, PeerSame, SharesGrow, SyncGrows
<1>6. ASSUME NEW b \in open[n], NEW c \in BOOLEAN, LandEnd(n, b, c) PROVE Grows(n)
  <2>1. /\ open'[n] \subseteq open[n] /\ open'[p] = open[p] /\ synced'[p] = synced[p]
        /\ synced'[n] = synced[n] \/ synced'[n] = synced[n] \cup {b}
        /\ UNCHANGED <<shares, shareSeq, shareMark, syncSeq, stage, batch, queue>>
    BY <1>1, <1>6 DEF LandEnd, SyncTypes, passVars
  <2> QED BY <1>2, <2>1 DEF Grows, PeerSame, SharesGrow, SyncGrows
<1>7. CASE CommitShares(n)
  <2>1. /\ shares'[n] = shares[n] \cup fresh[n] /\ shares'[p] = shares[p]
        /\ shareMark'[n] = Greatest(shareMark[n], batch[n].through) /\ shareMark'[p] = shareMark[p]
        /\ stage[n] = "commit" /\ stage'[p] = stage[p] /\ batch'[p] = batch[p]
        /\ UNCHANGED <<shareSeq, synced, syncSeq, open, queue>>
    BY <1>1, <1>7 DEF CommitShares, Through, Goto, ShareTypes, PassTypes
  <2>2. batch[n].through \in Nat
    BY <1>1 DEF PassTypes
  <2>3. shareMark[n] <= shareMark'[n] /\ batch[n].through <= shareMark'[n]
    BY <1>2, <2>1, <2>2, GreatestOf
  <2>4. \A r \in fresh[n] : r \in batch[n].rows /\ r \in shares[p] /\ r.origin = p
    BY SMTT(30), <1>1, <2>1 DEF Pulling
  <2> QED BY <1>2, <2>1, <2>3, <2>4 DEF Grows, PeerSame, SharesGrow, SyncGrows
<1>8. ASSUME NEW b \in queue[n], ApplySync(n, b) PROVE Grows(n)
  <2>1. /\ synced'[n] = synced[n] \/ synced'[n] = synced[n] \cup {b}
        /\ synced'[p] = synced[p] /\ queue'[p] = queue[p]
        /\ UNCHANGED <<shares, shareSeq, shareMark, syncSeq, open, stage, batch>>
    BY <1>1, <1>8 DEF ApplySync, SyncTypes, PassTypes
  <2>2. b \in synced[p] /\ b.origin = p
    <3>1. b.kind \in Kinds
      BY SMTT(30), <1>1 DEF PassTypes, SyncRecords
    <3> QED BY <1>1, <3>1 DEF Queued, Theirs
  <2> QED BY <1>2, <2>1, <2>2 DEF Grows, PeerSame, SharesGrow, SyncGrows
<1>9. ASSUME \/ ReadShares(n) \/ CheckShares(n) \/ InsertShares(n) \/ SyncBarrier(n)
             \/ StreamFails(n) \/ PassFails(n) \/ \E k \in Kinds : ReadSync(n, k) \/ SettleSync(n, k)
      PROVE  Grows(n)
  <2>1. UNCHANGED <<shares, shareSeq, shareMark, synced, syncSeq, open>>
    BY <1>9 DEF ReadShares, CheckShares, InsertShares, SyncBarrier, StreamFails, PassFails, ReadSync,
                SettleSync, dbVars
  <2>2. stage'[p] = stage[p] /\ batch'[p] = batch[p] /\ queue'[p] = queue[p]
    <3>1. CASE ReadShares(n) \/ CheckShares(n) \/ InsertShares(n)
      BY <1>1, <3>1 DEF ReadShares, CheckShares, InsertShares, Goto, PassTypes
    <3>2. CASE SyncBarrier(n) \/ StreamFails(n) \/ PassFails(n)
      BY <1>1, <3>2 DEF SyncBarrier, StreamFails, PassFails, EndPass, Goto, PassTypes
    <3>3. CASE \E k \in Kinds : ReadSync(n, k) \/ SettleSync(n, k)
      BY <1>1, <3>3 DEF ReadSync, SettleSync, Goto, PassTypes
    <3> QED BY <1>9, <3>1, <3>2, <3>3
  <2> QED BY <1>2, <2>1, <2>2 DEF Grows, PeerSame, SharesGrow, SyncGrows
<1> QED BY <1>3, <1>4, <1>5, <1>6, <1>7, <1>8, <1>9 DEF Write, EndLanding, PassStep

LEMMA NamesKept ==
    ASSUME NEW W, PeerInv(W), NEW n \in Nodes, OneName(n),
           Write(n) \/ EndLanding(n) \/ PassStep(n) \/ StreamFails(n) \/ PassFails(n)
    PROVE  OneName(n)'
<1>1. SyncTypes
  BY DEF PeerInv, SyncInv
<1>2. ASSUME NEW row, synced'[n] \cup open'[n] \subseteq synced[n] \cup open[n] \cup {row},
             row \notin synced[n] \cup open[n] => Named(synced[n] \cup open[n], row.kind, row.id) = {}
      PROVE  OneName(n)'
  <2>1. \A b \in synced[n] \cup open[n] :
          row \notin synced[n] \cup open[n] => ~(b.kind = row.kind /\ b.id = row.id)
    BY <1>2 DEF Named
  <2> QED BY <1>2, <2>1 DEF OneName
<1>3. CASE synced'[n] \cup open'[n] \subseteq synced[n] \cup open[n]
  BY <1>3 DEF OneName
<1>4. ASSUME NEW k, NEW i, NEW w, LandBegin(n, k, i, w) PROVE OneName(n)'
  <2> DEFINE row == [sync |-> syncSeq[n] + 1, origin |-> n, kind |-> k, id |-> i, window |-> w]
  <2>1. synced'[n] \cup open'[n] = synced[n] \cup open[n] \cup {row}
    BY <1>1, <1>4 DEF LandBegin, SyncTypes
  <2>2. Named(synced[n] \cup open[n], row.kind, row.id) = {}
    BY <1>4 DEF LandBegin
  <2> HIDE DEF row
  <2> QED BY <1>2, <2>1, <2>2
<1>5. CASE EndLanding(n)
  <2>1. PICK b \in open[n], c \in BOOLEAN : LandEnd(n, b, c)
    BY <1>5 DEF EndLanding
  <2>2. synced'[n] \in {synced[n], synced[n] \cup {b}} /\ open'[n] = open[n] \ {b}
    BY <1>1, <2>1 DEF LandEnd, SyncTypes
  <2> QED BY <1>3, <2>1, <2>2
<1>6. ASSUME NEW b \in queue[n], ApplySync(n, b) PROVE OneName(n)'
  <2>1. /\ open' = open /\ Named(open[n], b.kind, b.id) = {}
        /\ synced'[n] = IF Named(synced[n], b.kind, b.id) = {} THEN synced[n] \cup {b} ELSE synced[n]
    BY <1>1, <1>6 DEF ApplySync, SyncTypes
  <2>2. CASE Named(synced[n], b.kind, b.id) = {}
    <3>1. Named(synced[n] \cup open[n], b.kind, b.id) = {}
      BY <2>1, <2>2 DEF Named
    <3>2. synced'[n] \cup open'[n] \subseteq synced[n] \cup open[n] \cup {b}
      BY <2>1, <2>2
    <3> QED BY <1>2, <3>1, <3>2
  <2>3. CASE Named(synced[n], b.kind, b.id) # {}
    BY <1>3, <2>1, <2>3
  <2> QED BY <2>2, <2>3
<1>7. CASE UNCHANGED <<synced, open>>
  BY <1>7 DEF OneName
<1>8. CASE PassStep(n) \/ StreamFails(n) \/ PassFails(n)
  <2>1. CASE \/ ReadShares(n) \/ RaiseShareSequence(n) \/ CheckShares(n) \/ InsertShares(n)
             \/ CommitShares(n)
    BY <1>7, <2>1 DEF ReadShares, RaiseShareSequence, CheckShares, InsertShares, CommitShares, dbVars
  <2>2. CASE SyncBarrier(n) \/ StreamFails(n) \/ PassFails(n)
    BY <1>7, <2>2 DEF SyncBarrier, StreamFails, PassFails, dbVars
  <2>3. CASE \E k \in Kinds : ReadSync(n, k)
    BY <1>7, <2>3 DEF ReadSync, dbVars
  <2>4. CASE \E k \in Kinds : SettleSync(n, k)
    <3>1. synced'[n] \cup open'[n] \subseteq synced[n] \cup open[n]
      BY <2>4 DEF SettleSync
    <3> QED BY <1>3, <3>1
  <2> QED BY <1>6, <1>8, <2>1, <2>2, <2>3, <2>4 DEF PassStep
<1> QED BY <1>4, <1>5, <1>7, <1>8 DEF Write, Append, AppendAborts

(* The peer of a node that was rolled back goes on, and pulls from it.      *)
LEMMA BehindKept ==
    ASSUME NEW W, PeerInv(W), NEW n \in Nodes, Grows(n), Behind(Peer(n)), OneName(Peer(n)),
           /\ recovery'[Peer(n)] = recovery[Peer(n)] /\ latch'[Peer(n)] = latch[Peer(n)]
           /\ evidence'[Peer(n)] = evidence[Peer(n)] /\ verified'[Peer(n)] = verified[Peer(n)]
           /\ reach'[Peer(n)] = reach[Peer(n)]
    PROVE  Behind(Peer(n))'
<1> DEFINE v == Peer(n)
<1>1. /\ v \in Nodes /\ v # n /\ Peer(v) = n
      /\ Raised(v, W) /\ OneCredit(v) /\ Numbered(v, W) /\ Numbered(n, W)
  BY Pairs DEF PeerInv, ShareInv, SyncInv
<1>2. /\ shares'[v] = shares[v] /\ synced'[v] = synced[v] /\ syncSeq'[v] = syncSeq[v]
      /\ open'[v] = open[v] /\ stage'[v] = stage[v] /\ batch'[v] = batch[v] /\ queue'[v] = queue[v]
      /\ synced[n] \subseteq synced'[n]
  BY DEF Grows, PeerSame, SyncGrows
<1>3. /\ \A r \in Own(v, shares[n]) : r \in Own(v, shares'[n])
      /\ \A r \in Own(v, shares'[n]) : r.origin = v /\ (r \in Own(v, shares[n]) \/ r \in shares[v])
  BY <1>1 DEF Own, Grows, SharesGrow
<1>4. /\ \A b \in Own(v, synced[n]) : b \in Own(v, synced'[n])
      /\ \A b \in Own(v, synced'[n]) : b.origin = v /\ (b \in Own(v, synced[n]) \/ b \in synced[v])
  BY <1>1 DEF Own, Grows, SyncGrows, Numbered
<1>5. Locked(v)'
  BY <1>2 DEF Behind, Locked
<1>6. OwnPrefix(v)'
  <2>1. \A r \in Own(v, shares'[n]) : r.seq % 2 = v
    BY <1>1, <1>3 DEF Behind, OwnPrefix, Raised
  <2>2. \A r \in Own(v, shares'[n]) : \A l \in Own(v, shares[v]) : r.seq <= l.seq => r \in shares[v]
    BY <1>1, <1>3 DEF Behind, OwnPrefix
  <2>3. \A r \in Own(v, shares'[n]) : \A l \in shares[v] :
          r.seq = l.seq \/ r.header = l.header => r = l
    BY <1>1, <1>3 DEF Behind, OwnPrefix, OneCredit
  <2>4. recovery[v] = "insert" =>
          /\ batch[v].rows \subseteq Own(v, shares'[n])
          /\ \A r \in Own(v, shares'[n]), l \in batch[v].rows :
               r.seq <= l.seq => r \in shares[v] \cup batch[v].rows
    BY <1>1, <1>3 DEF Behind, OwnPrefix
  <2>5. recovery[v] \in {"block", "prepared", "raise"} => Own(v, shares'[n]) \subseteq shares[v]
    BY <1>1, <1>3 DEF Behind, OwnPrefix
  <2> QED BY <1>1, <1>2, <2>1, <2>2, <2>3, <2>4, <2>5 DEF OwnPrefix
<1>7. OwnLanded(v)'
  <2>1. \A b \in Own(v, synced'[n]) : \A c \in synced[v] :
          (c.origin = v /\ b.sync = c.sync) \/ (b.kind = c.kind /\ b.id = c.id) => b = c
    BY <1>1, <1>4 DEF Behind, OwnLanded, Numbered, OneName
  <2>5. \A b, c \in Own(v, synced'[n]) : b.sync = c.sync => b = c
    BY <1>1, <1>4 DEF Behind, OwnLanded, Numbered
  <2>2. /\ \A b \in synced[v] : b.origin = v => b.sync <= syncSeq[v] \/ b \in synced'[n]
        /\ \A b \in queue[v] : b \in Own(v, synced'[n]) /\ b.kind = recovery[v]
    BY <1>1, <1>2, <1>4 DEF Behind, OwnLanded
  <2>3. recovery[v] \in {"prepared", "raise"} =>
          \A b \in Own(v, synced'[n]) : b.kind = "block" => b \in synced[v]
    BY <1>1, <1>4 DEF Behind, OwnLanded
  <2>4. recovery[v] = "raise" => Own(v, synced'[n]) \subseteq synced[v]
    BY <1>1, <1>4 DEF Behind, OwnLanded
  <2> QED BY <1>1, <1>2, <2>1, <2>2, <2>3, <2>4, <2>5 DEF OwnLanded
<1> QED BY <1>5, <1>6, <1>7 DEF Behind

(* A copy stays good while both nodes go on. *)
LEMMA SinceOwn ==
    ASSUME NEW W, PeerInv(W), ShareTypes', NEW n \in Nodes, Grows(n), InOrder(n),
           NEW B \in Copies, Since(n, B)
    PROVE  Since(n, B)'
<1>1. /\ Peer(n) \in Nodes /\ ShareTypes /\ B.shareSeq \in Nat /\ B.shareMark \in Nat
  BY Pairs DEF PeerInv, ShareInv, Copies
<1>2. /\ shareSeq[n] \in Nat /\ shareSeq'[n] \in Nat /\ shareMark[n] \in Nat /\ shareMark'[n] \in Nat
      /\ \A r \in shares'[n] : r.seq \in Nat
  BY SMTT(30), <1>1 DEF ShareTypes, ShareRows
<1>3. /\ B.shares \subseteq shares'[n] /\ B.synced \subseteq synced'[n]
  BY DEF Since, Grows, SharesGrow, SyncGrows
<1>4. /\ B.shareSeq <= shareSeq'[n] /\ B.shareMark <= shareMark'[n]
  BY SMTT(30), <1>1, <1>2 DEF Since, Grows, SharesGrow
<1>5. \A r \in shares'[n] \ shares[n] :
        \/ r.origin = n /\ ~(r.seq <= B.shareSeq)
        \/ r.origin # n /\ ~(r.seq <= B.shareMark)
  <2>1. \A r \in shares'[n] \ shares[n] :
          \/ r.origin = n /\ shareSeq[n] < r.seq
          \/ r.origin # n /\ shareMark[n] < r.seq
    BY Pairs DEF Grows, SharesGrow, InOrder
  <2>2. B.shareSeq <= shareSeq[n] /\ B.shareMark <= shareMark[n]
    BY DEF Since
  <2> QED BY SMTT(30), <1>1, <1>2, <2>1, <2>2
<1>6. /\ \A r \in shares'[n] : r.origin = n /\ r.seq <= B.shareSeq => r \in B.shares
      /\ \A r \in shares'[n] : r.origin # n /\ r.seq <= B.shareMark => r \in B.shares
  BY <1>5 DEF Since
<1>7. /\ shares'[Peer(n)] = shares[Peer(n)] /\ shareSeq'[Peer(n)] = shareSeq[Peer(n)]
      /\ syncSeq'[Peer(n)] = syncSeq[Peer(n)] /\ open'[Peer(n)] = open[Peer(n)]
      /\ \A k \in Kinds : Theirs(n, k)' = Theirs(n, k)
  BY DEF Grows, PeerSame, Theirs
<1> QED BY <1>3, <1>4, <1>6, <1>7 DEF Since

LEMMA SincePeer ==
    ASSUME NEW W, PeerInv(W), ShareTypes', SyncTypes', NEW n \in Nodes, Grows(n),
           NEW B \in Copies, Since(Peer(n), B)
    PROVE  Since(Peer(n), B)'
<1> DEFINE v == Peer(n)
<1>1. /\ v \in Nodes /\ v # n /\ Peer(v) = n /\ ShareTypes /\ SyncTypes /\ Numbered(n, W)
      /\ B.shareMark \in Nat /\ \A k \in Kinds : B.syncMark[k] \in Nat
  BY Pairs DEF PeerInv, ShareInv, SyncInv, Copies
<1>2. /\ shareSeq[n] \in Nat /\ shareSeq'[n] \in Nat /\ syncSeq[n] \in Nat /\ syncSeq'[n] \in Nat
      /\ \A r \in shares'[n] : r.seq \in Nat
      /\ \A b \in open[n] \cup open'[n] \cup synced'[n] : b.sync \in Nat
  BY SMTT(30), <1>1 DEF ShareTypes, SyncTypes, ShareRows, SyncRecords
<1>3. /\ shares'[v] = shares[v] /\ synced'[v] = synced[v] /\ shareSeq'[v] = shareSeq[v]
      /\ shareMark'[v] = shareMark[v]
  BY DEF Grows, PeerSame
<1>4. /\ B.shareMark <= shareSeq[n]
      /\ \A k \in Kinds : /\ B.syncMark[k] <= syncSeq[n]
                          /\ \A b \in open[n] : B.syncMark[k] < b.sync
  BY <1>1 DEF Since
<1>5. B.shareMark <= shareSeq'[n] /\ \A k \in Kinds : B.syncMark[k] <= syncSeq'[n]
  BY SMTT(30), <1>1, <1>2, <1>4 DEF Grows, SharesGrow, SyncGrows
<1>6. \A r \in shares'[n] : r.origin = n /\ r.seq <= B.shareMark => r \in B.shares \cup B.quarantine
  <2>1. \A r \in shares'[n] \ shares[n] : r.origin = n => shareSeq[n] < r.seq
    BY <1>1 DEF Grows, SharesGrow
  <2>2. \A r \in shares'[n] \ shares[n] : r.origin = n => ~(r.seq <= B.shareMark)
    BY SMTT(30), <1>1, <1>2, <1>4, <2>1
  <2> QED BY <1>1, <2>2 DEF Since
<1>7. \A k \in Kinds : \A b \in open'[n] : B.syncMark[k] < b.sync
  <2>1. \A b \in open'[n] \ open[n] : syncSeq[n] < b.sync
    BY DEF Grows, SyncGrows
  <2> QED BY SMTT(30), <1>1, <1>2, <1>4, <2>1
<1>8. \A k \in Kinds : \A b \in Theirs(v, k)' :
        b.sync <= B.syncMark[k] => Named(B.synced, k, b.id) # {}
  <2> SUFFICES ASSUME NEW k \in Kinds, NEW b \in Theirs(v, k)', b.sync <= B.syncMark[k]
               PROVE  Named(B.synced, k, b.id) # {}
    OBVIOUS
  <2>1. b \in synced'[n] /\ b.origin = n /\ b.kind = k
    BY <1>1 DEF Theirs
  <2>2. b \in synced[n] \/ b \in open[n]
    BY <1>1, <2>1 DEF Grows, SyncGrows
  <2>3. b \notin open[n]
    BY SMTT(30), <1>1, <1>2, <1>4, <2>1
  <2>4. b \in Theirs(v, k)
    BY <1>1, <2>1, <2>2, <2>3 DEF Theirs
  <2> QED BY <2>4 DEF Since
<1> QED BY <1>1, <1>3, <1>5, <1>6, <1>7, <1>8 DEF Since

Pulls == {"raise", "check", "insert", "commit"}
LEMMA InOrderKept ==
    ASSUME NEW W, PeerInv(W), ShareTypes', NEW n \in Nodes, InOrder(n), Grows(n),
           Write(n) \/ EndLanding(n) \/ PassStep(n) \/ StreamFails(n) \/ PassFails(n)
    PROVE  InOrder(n)'
<1> USE DEF Pulls
<1>1. /\ Peer(n) \in Nodes /\ ShareTypes /\ PassTypes /\ shareMark[n] \in Nat /\ shareMark'[n] \in Nat
      /\ batch[n].rows \subseteq ShareRows /\ batch[n].through \in Nat
  BY Pairs DEF PeerInv, ShareInv, ShareTypes, PassTypes
<1>2. \A r \in shares'[n] : r.origin # n => r.seq <= shareMark'[n]
  <2>1. \A r \in shares'[n] : r.seq \in Nat
    BY SMTT(30) DEF ShareTypes, ShareRows
  <2>2. \A r \in shares'[n] \ shares[n] : r.origin # n =>
          r.seq <= batch[n].through /\ batch[n].through <= shareMark'[n]
    BY DEF Grows, SharesGrow, InOrder
  <2>3. \A r \in shares[n] : r.origin # n => r.seq <= shareMark[n]
    BY DEF InOrder
  <2>4. shareMark[n] <= shareMark'[n]
    BY DEF Grows, SharesGrow
  <2> QED BY SMTT(30), <1>1, <2>1, <2>2, <2>3, <2>4
<1>3. CASE stage'[n] \notin Pulls
  BY <1>2, <1>3 DEF InOrder
<1>4. CASE stage[n] \in Pulls /\ batch'[n] = batch[n] /\ shareMark' = shareMark
  BY <1>2, <1>4 DEF InOrder
<1>5. CASE UNCHANGED <<stage, batch, shareMark>>
  BY <1>2, <1>5 DEF InOrder
<1>6. CASE ReadShares(n)
  <2>1. CASE Goto(n, "barrier")
    BY <1>1, <1>3, <2>1 DEF Goto, PassTypes
  <2>2. ASSUME NEW through,
               batch' = [batch EXCEPT ![n] =
                  [through |-> through,
                   rows |-> {r \in shares[Peer(n)] : /\ r.origin = Peer(n)
                                                     /\ shareMark[n] < r.seq
                                                     /\ r.seq <= through}]]
        PROVE  InOrder(n)'
    <3>1. shareMark' = shareMark
      BY <1>6 DEF ReadShares, dbVars
    <3>2. /\ batch'[n].rows = {r \in shares[Peer(n)] : /\ r.origin = Peer(n)
                                                       /\ shareMark[n] < r.seq
                                                       /\ r.seq <= through}
          /\ batch'[n].through = through
      BY <1>1, <2>2 DEF PassTypes
    <3>3. \A r \in batch'[n].rows : shareMark'[n] < r.seq /\ r.seq <= batch'[n].through
      BY <3>1, <3>2
    <3> QED BY <1>2, <3>3 DEF InOrder
  <2> QED BY <1>6, <2>1, <2>2 DEF ReadShares
<1>7. CASE RaiseShareSequence(n) \/ CheckShares(n) \/ InsertShares(n)
  <2>1. stage[n] \in Pulls /\ shareMark' = shareMark
    BY <1>7 DEF RaiseShareSequence, CheckShares, InsertShares, dbVars
  <2>2. batch'[n] = batch[n] \/ stage'[n] \notin Pulls
    BY <1>1, <1>7 DEF RaiseShareSequence, CheckShares, InsertShares, Goto, PassTypes
  <2> QED BY <1>3, <1>4, <2>1, <2>2
<1>8. ASSUME \/ CommitShares(n) \/ SyncBarrier(n) \/ StreamFails(n) \/ PassFails(n)
             \/ \E k \in Kinds : ReadSync(n, k) \/ SettleSync(n, k)
      PROVE  InOrder(n)'
  <2>1. \E st \in {"barrier", "block", "block_apply", "prepared", "prepared_apply", "idle"} : Goto(n, st)
    BY <1>8 DEF CommitShares, SyncBarrier, StreamFails, PassFails, ReadSync, SettleSync, NextStage,
                ApplyStage
  <2>2. stage'[n] \notin Pulls
    BY <1>1, <2>1 DEF Goto, PassTypes
  <2> QED BY <1>3, <2>2
<1>9. CASE \E b \in queue[n] : ApplySync(n, b)
  BY <1>5, <1>9 DEF ApplySync
<1>10. CASE EndLanding(n) \/ Write(n)
  BY <1>5, <1>10 DEF EndLanding, LandEnd, Write, Append, AppendAborts, LandBegin, passVars
<1> QED BY <1>6, <1>7, <1>8, <1>9, <1>10 DEF PassStep

(* A step of a node whose log is whole, by what it does. *)
LEMMA GrowthKeeps ==
    ASSUME NEW W, LogInv(W), NEW n \in Nodes, n \in W, Grows(n), PeerInv(W)', LogTypes',
           Process(n, W)', OneName(n)', restores' = restores, backup' = backup,
           /\ recovery'[Peer(n)] = recovery[Peer(n)] /\ latch'[Peer(n)] = latch[Peer(n)]
           /\ evidence'[Peer(n)] = evidence[Peer(n)] /\ verified'[Peer(n)] = verified[Peer(n)]
           /\ reach'[Peer(n)] = reach[Peer(n)],
           restores = 0 => /\ InOrder(n)' /\ evidence'[n] = 1 /\ verified'[n] = 1
                           /\ latch'[n] \in {0, 1}
    PROVE  LogInv(W)'
<1> DEFINE p == Peer(n)
<1>1. /\ PeerInv(W) /\ p \in Nodes /\ p # n /\ Peer(p) = n /\ (\A m \in Nodes : m = n \/ m = p)
      /\ Process(p, W) /\ OneName(p) /\ OneName(n) /\ ShareTypes' /\ SyncTypes'
      /\ \A m \in Nodes : Numbered(m, W)
  BY Pairs DEF LogInv, PeerInv, ShareInv, SyncInv
<1>2. Process(p, W)' /\ OneName(p)'
  BY <1>1 DEF Process, OneName, Grows, PeerSame
<1>3. \A m \in Nodes \ W : Peer(m) \in W /\ Behind(m)'
  BY <1>1, BehindKept DEF LogInv
<1>4. ASSUME restores = 0 PROVE Unrolled(n)'
  <2>1. Unrolled(n)
    BY <1>4 DEF LogInv
  <2>2. OwnWindows(n)'
    BY <1>1, <2>1 DEF Unrolled, OwnWindows, Grows, SharesGrow, SyncGrows
  <2>3. backup[n] # <<>> => Sound(n, backup[n]) /\ Since(n, backup[n])'
    <3>1. backup[n] # <<>> => backup[n] \in Copies
      BY DEF LogInv, LogTypes
    <3> QED BY <1>1, <2>1, <3>1, SinceOwn DEF Unrolled
  <2>4. backup'[n] = backup[n]
    OBVIOUS
  <2> QED BY <1>4, <2>2, <2>3, <2>4 DEF Unrolled, Sound, Since
<1>5. ASSUME restores = 0 PROVE Unrolled(p)'
  <2>1. Unrolled(p)
    BY <1>1, <1>4, <1>5 DEF LogInv
  <2>2. InOrder(p)' /\ OwnWindows(p)'
    BY <2>1 DEF Unrolled, InOrder, OwnWindows, Grows, PeerSame
  <2>3. backup[p] # <<>> => Sound(p, backup[p]) /\ Since(p, backup[p])'
    <3>1. backup[p] # <<>> => backup[p] \in Copies
      BY <1>1 DEF LogInv, LogTypes
    <3> QED BY <1>1, <2>1, <3>1, SincePeer DEF Unrolled
  <2> QED BY <2>1, <2>2, <2>3 DEF Unrolled, Sound, Since
<1> QED BY <1>1, <1>2, <1>3, <1>4, <1>5 DEF LogInv

----------------------------------------------------------------------------
(* Nothing the own log depends on changes. *)
LEMMA LogSame ==
    ASSUME NEW W, LogInv(W), PeerInv(W)',
           UNCHANGED <<shares, shareSeq, shareMark, synced, syncSeq, open, stage, batch, queue, logVars>>
    PROVE  LogInv(W)'
<1>1. /\ LogTypes' /\ restores' = restores
  BY DEF LogInv, LogTypes, logVars
<1>2. \A n \in Nodes : Process(n, W)' /\ OneName(n)'
  BY DEF LogInv, Process, OneName, logVars
<1>3. \A n \in Nodes \ W : Peer(n) \in W /\ Behind(n)'
  <2> SUFFICES ASSUME NEW n \in Nodes \ W PROVE Peer(n) \in W /\ Behind(n)'
    OBVIOUS
  <2>1. Peer(n) \in W /\ Behind(n)
    BY DEF LogInv
  <2>2. Locked(n)' /\ OwnLanded(n)'
    BY <2>1 DEF Behind, Locked, OwnLanded, Own, logVars
  <2>3. OwnPrefix(n)'
    BY <2>1 DEF Behind, OwnPrefix, Own, logVars
  <2> QED BY <2>1, <2>2, <2>3 DEF Behind
<1>4. ASSUME restores = 0, NEW n \in Nodes PROVE Unrolled(n)'
  <2>1. Unrolled(n)
    BY <1>4 DEF LogInv
  <2>2. InOrder(n)' /\ OwnWindows(n)'
    BY <2>1 DEF Unrolled, InOrder, OwnWindows
  <2>3. backup[n] # <<>> => Since(n, backup[n])'
    BY <2>1 DEF Unrolled, Since, Theirs, logVars
  <2> QED BY <2>1, <2>2, <2>3 DEF Unrolled, Sound, logVars
<1> QED BY <1>1, <1>2, <1>3, <1>4 DEF LogInv

LEMMA Serves ==
    ASSUME NEW W, LogInv(W), ~AppendsFirst, NEW n \in Nodes, Serve(n)
    PROVE  LogInv(W)'
<1>1. /\ Write(n) \/ EndLanding(n) \/ PassStep(n) \/ StreamFails(n) \/ PassFails(n)
      /\ UNCHANGED <<evidence, verified, latch, lost, recovery, proving, reach, backup, restores>>
      /\ recovery[n] # "none" => EndLanding(n)
  BY DEF Serve, Pull, Serving, logVars, LogInv, Process
<1>2. n \in W
  <2> SUFFICES ASSUME n \notin W PROVE FALSE
    OBVIOUS
  <2>1. Locked(n)
    BY DEF LogInv, Behind
  <2> QED BY <2>1 DEF Locked, Serve, Serving, Pull, EndLanding
<1>3. PeerInv(W) /\ PeerInv(W)' /\ ShareTypes' /\ LogTypes' /\ OneName(n) /\ Process(n, W)
  <2>1. PeerInv(W)'
    BY <1>1, <1>2, PeerSteps DEF LogInv
  <2> QED BY <1>1, <2>1 DEF LogInv, LogTypes, PeerInv, ShareInv
<1>4. Grows(n) /\ OneName(n)'
  BY <1>1, <1>2, <1>3, StepGrows, NamesKept
<1>5. Process(n, W)'
  <2>1. recovery[n] # "none" => stage' = stage
    BY <1>1 DEF EndLanding, LandEnd, passVars
  <2> QED BY <1>1, <1>3, <2>1 DEF Process
<1>6. restores = 0 => /\ InOrder(n)' /\ evidence'[n] = 1 /\ verified'[n] = 1 /\ latch'[n] \in {0, 1}
  <2>1. restores = 0 => Unrolled(n)
    BY DEF LogInv
  <2> QED BY <1>1, <1>3, <1>4, <2>1, InOrderKept DEF Unrolled
<1> QED BY <1>1, <1>2, <1>3, <1>4, <1>5, <1>6, GrowthKeeps

LEMMA LogSweeps ==
    ASSUME NEW W, LogInv(W), NEW n \in Nodes, Sweep(n), UNCHANGED logVars
    PROVE  LogInv(W)'
<1>1. PeerInv(W)'
  BY PeerSteps DEF LogInv
<1>2. UNCHANGED <<shares, shareSeq, shareMark, synced, syncSeq, open, stage, batch, queue>>
  BY DEF Sweep, passVars
<1> QED BY <1>1, <1>2, LogSame

LEMMA LogStutters ==
    ASSUME NEW W, LogInv(W), UNCHANGED ownVars
    PROVE  LogInv(W)'
<1>1. PeerInv(W)'
  BY PeerStutters DEF LogInv, ownVars
<1>2. UNCHANGED <<shares, shareSeq, shareMark, synced, syncSeq, open, stage, batch, queue, logVars>>
  BY DEF ownVars, streamVars, dbVars, passVars
<1> QED BY <1>1, <1>2, LogSame

(* A step of a node that was rolled back, by what it leaves of that. *)
LEMMA BehindKeeps ==
    ASSUME NEW W, LogInv(W), NEW n \in Nodes, n \notin W, PeerInv(W)', LogTypes',
           Process(n, W)', OneName(n)', Behind(n)', restores' = restores,
           /\ recovery'[Peer(n)] = recovery[Peer(n)] /\ latch'[Peer(n)] = latch[Peer(n)]
           /\ stage'[Peer(n)] = stage[Peer(n)]
           /\ synced'[Peer(n)] = synced[Peer(n)] /\ open'[Peer(n)] = open[Peer(n)]
    PROVE  LogInv(W)'
<1>1. /\ Peer(n) \in W /\ (\A m \in Nodes : m = n \/ m = Peer(n)) /\ Peer(n) \in Nodes
      /\ Process(Peer(n), W) /\ OneName(Peer(n)) /\ restores # 0 /\ W \subseteq Nodes
  BY Pairs DEF LogInv
<1>2. Process(Peer(n), W)' /\ OneName(Peer(n))'
  BY <1>1 DEF Process, OneName
<1> QED BY <1>1, <1>2 DEF LogInv

----------------------------------------------------------------------------
(* The process, its latch and its memory. *)

LEMMA IdleQueue ==
    ASSUME NEW W, PeerInv(W), NEW n \in Nodes, n \in W, stage[n] = "idle"
    PROVE  queue[n] = {}
<1>1. queue[n] \subseteq SyncRecords /\ Queued(n, W)
  BY DEF PeerInv, ShareInv, SyncInv, PassTypes
<1>2. \A b \in SyncRecords : b.kind \in Kinds /\ ApplyStage(b.kind) # "idle"
  BY DEF SyncRecords, ApplyStage
<1> QED BY <1>1, <1>2 DEF Queued

(* Of the streams, at most what the process of n holds in memory changes,   *)
(* or its sequences go up.                                                  *)
MemoryOnly(n) ==
  /\ UNCHANGED <<shares, shareMark, synced>> /\ open'[n] \subseteq open[n]
  /\ \A m \in Nodes : shareSeq[m] <= shareSeq'[m] /\ syncSeq[m] <= syncSeq'[m]
  /\ stage'[n] = stage[n] \/ stage'[n] = "idle"
  /\ batch'[n] = batch[n] \/ stage'[n] = "idle"
  /\ shareSeq'[Peer(n)] = shareSeq[Peer(n)] /\ syncSeq'[Peer(n)] = syncSeq[Peer(n)]
  /\ open'[Peer(n)] = open[Peer(n)] /\ stage'[Peer(n)] = stage[Peer(n)]
  /\ batch'[Peer(n)] = batch[Peer(n)] /\ queue'[Peer(n)] = queue[Peer(n)]
  /\ restores' = restores /\ backup' = backup
  /\ recovery'[Peer(n)] = recovery[Peer(n)] /\ latch'[Peer(n)] = latch[Peer(n)]
  /\ evidence'[Peer(n)] = evidence[Peer(n)] /\ verified'[Peer(n)] = verified[Peer(n)]
  /\ reach'[Peer(n)] = reach[Peer(n)]

LEMMA MemoryKeeps ==
    ASSUME NEW W, LogInv(W), NEW n \in Nodes, PeerInv(W)', LogTypes', Process(n, W)', MemoryOnly(n),
           restores = 0 => evidence'[n] = 1 /\ verified'[n] = 1 /\ latch'[n] \in {0, 1},
           n \notin W => Behind(n)'
    PROVE  LogInv(W)'
<1>1. ShareTypes /\ SyncTypes /\ PassTypes /\ PeerInv(W) /\ OneName(n)
  BY DEF LogInv, PeerInv, ShareInv, SyncInv
<1>2. OneName(n)'
  BY <1>1 DEF OneName, MemoryOnly
<1>3. CASE n \notin W
  BY <1>2, <1>3, BehindKeeps DEF MemoryOnly
<1>4. CASE n \in W
  <2>1. Grows(n)
    BY <1>1, NothingGrows DEF MemoryOnly
  <2>2. restores = 0 => InOrder(n)'
    <3>1. restores = 0 => InOrder(n)
      BY DEF LogInv, Unrolled
    <3> QED BY <3>1 DEF InOrder, MemoryOnly
  <2> QED BY <1>2, <1>4, <2>1, <2>2, GrowthKeeps DEF MemoryOnly
<1> QED BY <1>3, <1>4

(* The latch is dropped, recovery begins, and it ends. *)
LEMMA LatchSteps ==
    ASSUME NEW W, LogInv(W), NEW n \in Nodes, StopFrontend(n) \/ RecoverBegin(n) \/ RecoverDone(n)
    PROVE  LogInv(W)'
<1>1. UNCHANGED <<streamVars, evidence, restores, backup>> /\ LogTypes /\ Process(n, W)
  BY DEF StopFrontend, RecoverBegin, RecoverDone, LogInv
<1>2. UNCHANGED <<shares, shareSeq, shareMark, synced, syncSeq, open, stage, batch, queue>>
  BY <1>1 DEF streamVars, dbVars, passVars
<1>3. PeerInv(W)'
  BY <1>1, PeerStutters DEF LogInv
<1>4. /\ Peer(n) \in Nodes /\ Peer(n) # n
      /\ \A m \in Nodes : shareSeq[m] <= shareSeq[m] /\ syncSeq[m] <= syncSeq[m]
  BY SMTT(30), Pairs DEF LogInv, PeerInv, ShareInv, SyncInv, ShareTypes, SyncTypes
<1>5. CASE StopFrontend(n)
  <2>1. /\ latch'[n] = 0 /\ latch[n] # 0 /\ latch'[Peer(n)] = latch[Peer(n)]
        /\ UNCHANGED <<verified, recovery, proving, reach>>
        /\ LogTypes'
    BY <1>1, <1>4, <1>5 DEF StopFrontend, LogTypes
  <2>2. Process(n, W)'
    BY <1>1, <1>2, <2>1 DEF Process
  <2>3. MemoryOnly(n)
    BY <1>1, <1>2, <1>4, <2>1 DEF MemoryOnly
  <2>4. restores = 0 => evidence'[n] = 1 /\ verified'[n] = 1 /\ latch'[n] \in {0, 1}
    BY <1>1, <2>1 DEF LogInv, Unrolled
  <2>5. n \notin W => Behind(n)'
    <3>1. n \notin W => Locked(n) /\ OwnPrefix(n) /\ OwnLanded(n)
      BY DEF LogInv, Behind
    <3> QED BY <1>1, <1>2, <2>1, <3>1 DEF Behind, Locked, OwnPrefix, OwnLanded, Own
  <2> QED BY <1>3, <2>1, <2>2, <2>3, <2>4, <2>5, MemoryKeeps
<1>6. CASE RecoverBegin(n)
  <2>1. /\ recovery'[n] = "shares" /\ recovery[n] = "none" /\ latch[n] = 0 /\ stage[n] = "idle"
        /\ recovery'[Peer(n)] = recovery[Peer(n)] /\ UNCHANGED <<verified, latch, reach>>
        /\ LogTypes'
    BY <1>1, <1>4, <1>6 DEF RecoverBegin, Recovering, RecoveryVars, LogTypes, RecoverySteps
  <2>2. Process(n, W)'
    BY <1>2, <2>1 DEF Process
  <2>3. MemoryOnly(n)
    BY <1>1, <1>2, <1>4, <2>1 DEF MemoryOnly
  <2>4. restores = 0 => evidence'[n] = 1 /\ verified'[n] = 1 /\ latch'[n] \in {0, 1}
    BY <1>1, <2>1 DEF LogInv, Unrolled
  <2>5. n \notin W => Behind(n)'
    <3>1. n \notin W => Locked(n) /\ OwnPrefix(n) /\ OwnLanded(n)
      BY DEF LogInv, Behind
    <3>2. n \notin W => queue[n] = {}
      <4>1. \A b \in queue[n] : b.kind \in {"block", "prepared"}
        BY SMTT(30) DEF LogInv, PeerInv, ShareInv, PassTypes, SyncRecords, Kinds
      <4> QED BY <2>1, <3>1, <4>1 DEF OwnLanded
    <3>3. n \notin W => Locked(n)' /\ OwnPrefix(n)'
      BY <1>1, <1>2, <2>1, <3>1 DEF Locked, OwnPrefix, Own
    <3>4. n \notin W => OwnLanded(n)'
      BY <1>1, <1>2, <2>1, <3>1, <3>2 DEF OwnLanded, Own
    <3> QED BY <3>3, <3>4 DEF Behind
  <2> QED BY <1>3, <2>1, <2>2, <2>3, <2>4, <2>5, MemoryKeeps
<1>7. CASE RecoverDone(n)
  <2>1. /\ recovery'[n] = "none" /\ recovery[n] = "record" /\ evidence[n] = proving[n]
        /\ verified'[n] = evidence[n] /\ latch'[n] = evidence[n]
        /\ recovery'[Peer(n)] = recovery[Peer(n)] /\ latch'[Peer(n)] = latch[Peer(n)]
        /\ verified'[Peer(n)] = verified[Peer(n)] /\ reach'[Peer(n)] = reach[Peer(n)]
    BY <1>1, <1>4, <1>7 DEF RecoverDone, Recovering, RecoveryVars, LogTypes
  <2>2. LogTypes'
    BY <1>1, <1>7 DEF RecoverDone, RecoveryVars, LogTypes, RecoverySteps
  <2>3. n \in W /\ Process(n, W)'
    BY <1>1, <2>1 DEF Process
  <2>4. MemoryOnly(n)
    BY <1>1, <1>2, <1>4, <2>1 DEF MemoryOnly
  <2>5. restores = 0 => evidence'[n] = 1 /\ verified'[n] = 1 /\ latch'[n] \in {0, 1}
    BY <1>1, <2>1 DEF LogInv, Unrolled
  <2> QED BY <1>3, <2>2, <2>3, <2>4, <2>5, MemoryKeeps
<1> QED BY <1>5, <1>6, <1>7

LEMMA Zero == 0 \in Nat
  BY SMTT(30)

LEMMA ExitsAndLatchesAlone ==
    ASSUME NEW W, LogInv(W), NEW n \in Nodes, LatchWithoutPeer(n) \/ Exit(n)
    PROVE  LogInv(W)'
<1> DEFINE p == Peer(n)
<1>1. /\ PeerInv(W) /\ LogTypes /\ PassTypes /\ SyncTypes /\ p \in Nodes /\ p # n
      /\ \A m \in Nodes \ {n} : m = p
  BY Pairs DEF LogInv, PeerInv, ShareInv, SyncInv
<1>2. /\ UNCHANGED <<shares, shareSeq, shareMark, refused, quarantine, watermark, rollup, synced,
                     syncSeq, syncMark>>
      /\ UNCHANGED <<evidence, verified, reach, backup, restores>>
  BY DEF LatchWithoutPeer, Exit, dbVars
<1>3. /\ batch' = [batch EXCEPT ![n] = NoBatch] /\ queue' = [queue EXCEPT ![n] = {}]
      /\ recovery' = [recovery EXCEPT ![n] = "none"]
      /\ stage' = stage \/ stage' = [stage EXCEPT ![n] = "idle"]
      /\ fresh' = fresh \/ fresh' = [fresh EXCEPT ![n] = {}]
      /\ whole' = whole \/ whole' = [whole EXCEPT ![n] = FALSE]
      /\ safe' = safe \/ safe' = [safe EXCEPT ![n] = 0]
      /\ open' = open \/ open' = [open EXCEPT ![n] = {}]
      /\ stage[n] = "idle" \/ stage' = [stage EXCEPT ![n] = "idle"]
      /\ lost' = lost \/ lost' = [lost EXCEPT ![n] = FALSE]
      /\ proving' = proving \/ proving' = [proving EXCEPT ![n] = 0]
  BY DEF LatchWithoutPeer, Exit, Restarted, RecoveryVars, dbVars
<1>4. /\ stage'[n] = "idle" /\ queue'[n] = {} /\ safe'[n] \in {safe[n], 0} /\ recovery'[n] = "none"
      /\ open'[n] \subseteq open[n] /\ open'[p] = open[p]
      /\ stage'[p] = stage[p] /\ batch'[p] = batch[p] /\ fresh'[p] = fresh[p]
      /\ queue'[p] = queue[p] /\ whole'[p] = whole[p] /\ safe'[p] = safe[p]
      /\ recovery'[p] = recovery[p]
  <2>1. stage'[n] = "idle" /\ queue'[n] = {} /\ safe'[n] \in {safe[n], 0} /\ recovery'[n] = "none"
    BY <1>1, <1>3 DEF PassTypes, LogTypes
  <2>2. /\ stage'[p] = stage[p] /\ batch'[p] = batch[p] /\ fresh'[p] = fresh[p]
        /\ queue'[p] = queue[p] /\ whole'[p] = whole[p] /\ safe'[p] = safe[p]
        /\ recovery'[p] = recovery[p]
    BY <1>1, <1>3 DEF PassTypes, LogTypes
  <2>3. open'[n] \subseteq open[n] /\ open'[p] = open[p]
    BY <1>1, <1>3 DEF SyncTypes
  <2> QED BY <2>1, <2>2, <2>3
<1>5. PassTypes'
  <2>1. NoBatch \in [through : Nat, rows : SUBSET ShareRows] /\ "idle" \in Stages
    BY BatchTypes DEF NoBatch, Stages
  <2>2. batch' \in [Nodes -> [through : Nat, rows : SUBSET ShareRows]]
    BY <1>1, <1>3, <2>1 DEF PassTypes
  <2>3. queue' \in [Nodes -> SUBSET SyncRecords] /\ fresh' \in [Nodes -> SUBSET ShareRows]
    BY <1>1, <1>3 DEF PassTypes
  <2>4. stage' \in [Nodes -> Stages]
    BY <1>1, <1>3, <2>1 DEF PassTypes
  <2>5. whole' \in [Nodes -> BOOLEAN]
    BY <1>1, <1>3 DEF PassTypes
  <2>6. safe' \in [Nodes -> Nat]
    BY <1>1, <1>3, Zero DEF PassTypes
  <2> QED BY <2>2, <2>3, <2>4, <2>5, <2>6 DEF PassTypes
<1>6. PeerInv(W)'
  <2>1. open' \in [Nodes -> SUBSET SyncRecords] /\ \A m \in Nodes : open'[m] \subseteq open[m]
    BY <1>1, <1>3, <1>4 DEF SyncTypes
  <2> QED BY <1>1, <1>2, <1>4, <1>5, <2>1, PassDrops
<1>7. latch'[p] = latch[p] /\ latch' \in [Nodes -> Nat]
  <2>1. \/ latch' = latch \/ latch' = [latch EXCEPT ![n] = evidence[n]]
        \/ latch' = [latch EXCEPT ![n] = 0]
    BY DEF LatchWithoutPeer, Exit, Restarted
  <2>2. evidence[n] \in Nat /\ latch \in [Nodes -> Nat]
    BY <1>1 DEF LogTypes
  <2> QED BY <1>1, <2>1, <2>2, Zero
<1>8. /\ \/ latch'[n] = latch[n] /\ latch[n] = 0
         \/ latch'[n] = 0
         \/ latch'[n] = evidence[n] /\ verified[n] = evidence[n] /\ ~reach[n]
  BY <1>1 DEF LatchWithoutPeer, Exit, Restarted, LogTypes, MayLatchAlone
<1>9. LogTypes'
  <2>1. "none" \in RecoverySteps
    BY DEF RecoverySteps
  <2>2. recovery' \in [Nodes -> RecoverySteps]
    BY <1>1, <1>3, <2>1 DEF LogTypes
  <2>4. proving' \in [Nodes -> Nat]
    BY <1>1, <1>3, Zero DEF LogTypes
  <2>3. lost' \in [Nodes -> BOOLEAN]
    BY <1>1, <1>3 DEF LogTypes
  <2> QED BY <1>1, <1>2, <1>7, <2>2, <2>3, <2>4 DEF LogTypes
<1>10. MemoryOnly(n) /\ Process(n, W)'
  <2>1. \A m \in Nodes : shareSeq[m] <= shareSeq[m] /\ syncSeq[m] <= syncSeq[m]
    BY SMTT(30) DEF LogInv, PeerInv, ShareInv, SyncInv, ShareTypes, SyncTypes
  <2> QED BY <1>2, <1>4, <1>7, <2>1 DEF MemoryOnly, Process
<1>11. restores = 0 => evidence'[n] = 1 /\ verified'[n] = 1 /\ latch'[n] \in {0, 1}
  BY <1>2, <1>8 DEF LogInv, Unrolled
<1>12. n \notin W => Behind(n)'
  <2>1. n \notin W => Locked(n) /\ OwnPrefix(n) /\ OwnLanded(n)
    BY DEF LogInv, Behind
  <2>2. n \notin W => Locked(n)'
    BY <1>2, <1>4, <1>8, <2>1 DEF Locked
  <2>3. n \notin W => OwnPrefix(n)'
    BY <1>2, <1>4, <2>1 DEF OwnPrefix, Own
  <2>4. n \notin W => OwnLanded(n)'
    BY <1>2, <1>4, <2>1 DEF OwnLanded, Own
  <2> QED BY <2>2, <2>3, <2>4 DEF Behind
<1> QED BY <1>6, <1>9, <1>10, <1>11, <1>12, MemoryKeeps

----------------------------------------------------------------------------
(* Own-log recovery.                                                        *)

(* The rows read are the first of those missing. *)
Earlier(S, s) == {t \in S : t.seq < s}
First(S) == {r \in S : Cardinality(Earlier(S, r.seq)) < BatchRows}
LEMMA FirstRows ==
    ASSUME NEW S, IsFiniteSet(S), \A r \in S : r.seq \in Nat
    PROVE  /\ First(S) \subseteq S /\ (First(S) = {} => S = {})
           /\ \A r \in S, l \in First(S) : r.seq <= l.seq => r \in First(S)
<1>1. \A s : IsFiniteSet(Earlier(S, s)) /\ Cardinality(Earlier(S, s)) \in Nat
  <2> TAKE s
  <2>1. Earlier(S, s) \subseteq S
    BY DEF Earlier
  <2>2. IsFiniteSet(Earlier(S, s))
    BY <2>1, FS_Subset
  <2> QED BY <2>2, FS_CardinalityType
<1>2. ASSUME NEW r \in S, NEW l \in First(S), r.seq <= l.seq
      PROVE  r \in First(S)
  <2>1. l \in S /\ Cardinality(Earlier(S, l.seq)) < BatchRows
    BY DEF First
  <2>2. Earlier(S, r.seq) \subseteq Earlier(S, l.seq)
    BY SMTT(30), <1>2, <2>1 DEF Earlier
  <2>3. Cardinality(Earlier(S, r.seq)) <= Cardinality(Earlier(S, l.seq))
    BY <1>1, <2>2, FS_Subset
  <2>4. Cardinality(Earlier(S, r.seq)) < BatchRows
    BY SMTT(30), <1>1, <2>1, <2>3, StreamsAssumption
  <2> QED BY <2>4 DEF First
<1>3. ASSUME S # {} PROVE First(S) # {}
  <2> DEFINE T == {r.seq : r \in S}
  <2>1. T \subseteq Nat /\ T # {}
    BY <1>3
  <2>2. PICK x \in T : \A y \in T : ~(<<y, x>> \in OpToRel(<, Nat))
    <3> HIDE DEF T
    <3> QED BY <2>1, NatLessThanWellFounded, WFMin
  <2>3. \A y \in T : ~(y < x)
    BY <2>1, <2>2 DEF OpToRel
  <2>4. PICK r \in S : r.seq = x
    BY <2>2
  <2>5. Earlier(S, r.seq) = {}
    BY <2>3, <2>4 DEF Earlier
  <2>6. Cardinality({}) < BatchRows
    BY SMTT(30), FS_EmptySet, StreamsAssumption
  <2> QED BY <2>5, <2>6 DEF First
<1> QED BY <1>2, <1>3 DEF First

LEMMA RowFields ==
    /\ \A r \in ShareRows : r.seq \in Nat /\ r.origin \in Nodes
    /\ \A b \in SyncRecords : b.sync \in Nat /\ b.kind \in Kinds /\ b.origin \in Nodes
  BY SMTT(30) DEF ShareRows, SyncRecords

LEMMA ReadsOwnShares ==
    ASSUME NEW W, LogInv(W), NEW n \in Nodes, RecoverReadShares(n)
    PROVE  LogInv(W)'
<1> DEFINE p == Peer(n)
           missing == MissingShares(n)
           rows == First(missing)
<1>1. /\ PeerInv(W) /\ LogTypes /\ PassTypes /\ SyncTypes /\ ShareTypes /\ p \in Nodes /\ p # n
      /\ \A m \in Nodes \ {n} : m = p
      /\ Process(n, W) /\ Peer(p) = n /\ Raised(p, W) /\ Folding(p)
      /\ n \notin W => Locked(n) /\ OwnPrefix(n) /\ OwnLanded(n)
  BY Pairs DEF LogInv, PeerInv, ShareInv, SyncInv, Behind
<1>2. /\ recovery[n] = "shares" /\ batch' = [batch EXCEPT ![n].rows = rows]
      /\ Forget(n, rows # {})
      /\ recovery' = [recovery EXCEPT ![n] = IF rows = {} THEN "block" ELSE "insert"]
      /\ UNCHANGED <<dbVars, stage, fresh, queue, whole, safe, evidence, latch, lost, proving, backup,
                     restores>>
  BY DEF RecoverReadShares, Recovering, RecoveryVars, First, Earlier
<1>3. /\ missing \subseteq Own(n, shares[p]) /\ missing \subseteq shares[p] /\ missing \subseteq ShareRows
      /\ \A r \in shares[p] : r.seq \in Nat
      /\ \A l \in shares[n] : l.seq \in Nat
  <2>1. shares[n] \subseteq ShareRows /\ shares[p] \subseteq ShareRows
    BY <1>1 DEF ShareTypes
  <2> QED BY <2>1, RowFields DEF MissingShares, Own
<1>4. IsFiniteSet(missing)
  BY <1>1, <1>3, FS_Subset DEF Folding
<1>5. /\ rows \subseteq missing /\ (rows = {} => missing = {})
      /\ \A r \in missing, l \in rows : r.seq <= l.seq => r \in rows
  BY <1>3, <1>4, FirstRows
<1>6. n \in W => missing = {}
  <2>1. n \in W => \A r \in Own(n, shares[p]) : r \in Own(n, shares[n])
    BY <1>1 DEF Raised, Own
  <2>2. \A r \in shares[n] : ~(r.seq < r.seq)
    BY SMTT(30), <1>3
  <2> QED BY <2>1, <2>2 DEF MissingShares, Own
<1> HIDE DEF missing, rows
<1>7. /\ batch'[p] = batch[p] /\ batch'[n].rows = rows /\ recovery'[p] = recovery[p]
      /\ recovery'[n] = IF rows = {} THEN "block" ELSE "insert"
      /\ UNCHANGED <<shares, shareSeq, shareMark, refused, quarantine, watermark, rollup, synced, syncSeq,
                     syncMark, open>>
      /\ PassTypes'
  <2>1. batch' \in [Nodes -> [through : Nat, rows : SUBSET ShareRows]]
    BY <1>1, <1>2, <1>3, <1>5 DEF PassTypes
  <2>2. batch'[p] = batch[p] /\ batch'[n].rows = rows
    BY <1>1, <1>2 DEF PassTypes
  <2>3. /\ recovery'[p] = recovery[p]
        /\ recovery'[n] = IF rows = {} THEN "block" ELSE "insert"
    BY <1>1, <1>2 DEF LogTypes
  <2> QED BY <1>1, <1>2, <2>1, <2>2, <2>3 DEF PassTypes, dbVars
<1>8. /\ stage[n] = "idle" /\ latch[n] = 0 /\ queue[n] = {}
  <2>1. stage[n] = "idle" /\ latch[n] = 0
    BY <1>1, <1>2 DEF Process
  <2>2. n \notin W => queue[n] = {}
    <3>1. \A b \in queue[n] : b.kind \in Kinds
      BY <1>1, RowFields DEF PassTypes
    <3>2. "shares" \notin Kinds
      BY DEF Kinds
    <3>3. n \notin W => \A b \in queue[n] : b.kind = "shares"
      BY <1>1, <1>2 DEF OwnLanded
    <3> QED BY <3>1, <3>2, <3>3
  <2> QED BY <1>1, <2>1, <2>2, IdleQueue
<1>9. PeerInv(W)'
  <2>1. open' \in [Nodes -> SUBSET SyncRecords] /\ \A m \in Nodes : open'[m] \subseteq open[m]
    BY <1>1, <1>7 DEF SyncTypes
  <2>2. stage'[n] = "idle" /\ queue'[n] = {} /\ safe'[n] = safe[n]
    BY <1>2, <1>8
  <2> QED BY <1>1, <1>2, <1>7, <2>1, <2>2, PassDrops
<1>10. /\ verified'[p] = verified[p] /\ reach'[p] = reach[p]
       /\ rows = {} => verified' = verified /\ reach' = reach
       /\ rows # {} => verified'[n] = 0
       /\ verified' \in [Nodes -> Nat] /\ reach' \in [Nodes -> BOOLEAN]
  BY <1>1, <1>2, Zero DEF Forget, LogTypes
<1>11. LogTypes'
  <2>1. recovery' \in [Nodes -> RecoverySteps]
    BY <1>1, <1>2 DEF LogTypes, RecoverySteps
  <2> QED BY <1>1, <1>2, <1>10, <2>1 DEF LogTypes
<1>12. MemoryOnly(n) /\ Process(n, W)'
  <2>1. \A m \in Nodes : shareSeq[m] <= shareSeq[m] /\ syncSeq[m] <= syncSeq[m]
    BY SMTT(30), <1>1 DEF ShareTypes, SyncTypes
  <2>2. Process(n, W)'
    <3>1. recovery'[n] # "record" /\ (n \in W => recovery'[n] # "insert")
      BY <1>5, <1>6, <1>7
    <3> QED BY <1>2, <1>8, <3>1 DEF Process
  <2> QED BY <1>2, <1>7, <1>8, <1>10, <2>1, <2>2 DEF MemoryOnly
<1>13. restores = 0 => evidence'[n] = 1 /\ verified'[n] = 1 /\ latch'[n] \in {0, 1}
  <2>1. restores = 0 => n \in W /\ evidence[n] = 1 /\ verified[n] = 1
    BY DEF LogInv, Unrolled
  <2> QED BY <1>2, <1>5, <1>6, <1>8, <1>10, <2>1
<1>14. n \notin W => Behind(n)'
  <2> SUFFICES ASSUME n \notin W PROVE Behind(n)'
    OBVIOUS
  <2>1. Locked(n)'
    BY <1>1, <1>2, <1>7, <1>10 DEF Locked
  <2>2. \A r \in Own(n, shares[p]) : r \in shares[n] \/ r \in missing
    <3>1. \A r \in Own(n, shares[p]), l \in Own(n, shares[n]) : l.seq < r.seq \/ r.seq <= l.seq
      BY SMTT(30), <1>3 DEF Own
    <3> QED BY <1>1, <3>1 DEF OwnPrefix, MissingShares, missing
  <2>3. OwnPrefix(n)'
    <3>1. rows # {} => /\ rows \subseteq Own(n, shares[p])
                       /\ \A r \in Own(n, shares[p]), l \in rows : r.seq <= l.seq => r \in shares[n] \cup rows
      BY <1>3, <1>5, <2>2
    <3>2. rows = {} => Own(n, shares[p]) \subseteq shares[n]
      BY <1>5, <2>2
    <3> QED BY <1>1, <1>7, <3>1, <3>2 DEF OwnPrefix, Own
  <2>4. OwnLanded(n)'
    <3>1. recovery'[n] \notin {"prepared", "raise"}
      BY <1>7
    <3>2. queue'[n] = {} /\ OwnLanded(n)
      BY <1>1, <1>2, <1>8
    <3> QED BY <1>7, <3>1, <3>2 DEF OwnLanded, Own
  <2> QED BY <2>1, <2>3, <2>4 DEF Behind
<1> QED BY <1>9, <1>11, <1>12, <1>13, <1>14, MemoryKeeps

LEMMA ReadsOwnSync ==
    ASSUME NEW W, LogInv(W), NEW n \in Nodes, NEW k \in Kinds, RecoverReadSync(n, k)
    PROVE  LogInv(W)'
<1> DEFINE p == Peer(n)
           missing == MissingSync(n, k)
           next == IF missing # {} THEN k ELSE IF k = "block" THEN "prepared" ELSE "raise"
<1>1. /\ PeerInv(W) /\ LogTypes /\ PassTypes /\ SyncTypes /\ ShareTypes /\ p \in Nodes /\ p # n
      /\ \A m \in Nodes \ {n} : m = p
      /\ Process(n, W) /\ Peer(p) = n /\ Numbered(p, W)
      /\ n \notin W => Locked(n) /\ OwnPrefix(n) /\ OwnLanded(n)
  BY Pairs DEF LogInv, PeerInv, ShareInv, SyncInv, Behind
<1>2. /\ recovery[n] = k /\ queue' = [queue EXCEPT ![n] = missing]
      /\ Forget(n, missing # {})
      /\ recovery' = [recovery EXCEPT ![n] = next]
      /\ UNCHANGED <<dbVars, stage, fresh, batch, whole, safe, evidence, latch, lost, proving, backup,
                     restores>>
  BY DEF RecoverReadSync, Recovering, RecoveryVars
<1>3. /\ missing \subseteq Own(n, synced[p]) /\ missing \subseteq SyncRecords
      /\ \A b \in missing : b.kind = k
  BY <1>1 DEF MissingSync, Own, SyncTypes
<1>4. n \in W => missing = {}
  BY <1>1 DEF Numbered, MissingSync, Own, Named
<1>5. missing = {} => \A b \in Own(n, synced[p]) : b.kind = k => \E c \in synced[n] : c.kind = k /\ c.id = b.id
  BY DEF MissingSync, Named
<1>6. next \in {"block", "prepared", "raise"} /\ (missing # {} => next = k)
  BY DEF Kinds
<1> HIDE DEF missing
<1>7. /\ queue'[p] = queue[p] /\ queue'[n] = missing /\ recovery'[p] = recovery[p]
      /\ recovery'[n] = next
      /\ UNCHANGED <<shares, shareSeq, shareMark, refused, quarantine, watermark, rollup, synced, syncSeq,
                     syncMark, open>>
      /\ PassTypes'
  <2>1. queue' \in [Nodes -> SUBSET SyncRecords]
    BY <1>1, <1>2, <1>3 DEF PassTypes
  <2>2. queue'[p] = queue[p] /\ queue'[n] = missing
    BY <1>1, <1>2 DEF PassTypes
  <2>3. recovery'[p] = recovery[p] /\ recovery'[n] = next
    <3> HIDE DEF next
    <3> QED BY <1>1, <1>2 DEF LogTypes
  <2> QED BY <1>1, <1>2, <2>1, <2>2, <2>3 DEF PassTypes, dbVars
<1>8. stage[n] = "idle" /\ latch[n] = 0
  BY <1>1, <1>2 DEF Process, Kinds
<1>9. PeerInv(W)'
  <2>1. open' \in [Nodes -> SUBSET SyncRecords] /\ \A m \in Nodes : open'[m] \subseteq open[m]
    BY <1>1, <1>7 DEF SyncTypes
  <2>2. stage'[n] = "idle" /\ (queue'[n] = {} \/ n \notin W) /\ safe'[n] = safe[n]
    BY <1>2, <1>4, <1>7, <1>8
  <2> QED BY <1>1, <1>2, <1>7, <2>1, <2>2, PassDrops
<1>10. /\ verified'[p] = verified[p] /\ reach'[p] = reach[p]
       /\ missing = {} => verified' = verified /\ reach' = reach
       /\ missing # {} => verified'[n] = 0
       /\ verified' \in [Nodes -> Nat] /\ reach' \in [Nodes -> BOOLEAN]
  BY <1>1, <1>2, Zero DEF Forget, LogTypes
<1>11. LogTypes'
  <2>1. next \in RecoverySteps
    BY <1>6 DEF RecoverySteps
  <2>2. recovery' \in [Nodes -> RecoverySteps]
    <3> HIDE DEF next
    <3> QED BY <1>1, <1>2, <2>1 DEF LogTypes
  <2> QED BY <1>1, <1>2, <1>10, <2>2 DEF LogTypes
<1>12. MemoryOnly(n) /\ Process(n, W)'
  <2>1. \A m \in Nodes : shareSeq[m] <= shareSeq[m] /\ syncSeq[m] <= syncSeq[m]
    BY SMTT(30), <1>1 DEF ShareTypes, SyncTypes
  <2>2. Process(n, W)'
    <3>1. recovery'[n] # "record" /\ recovery'[n] # "insert"
      BY <1>6, <1>7
    <3> QED BY <1>2, <1>8, <3>1 DEF Process
  <2> QED BY <1>2, <1>7, <1>8, <1>10, <2>1, <2>2 DEF MemoryOnly
<1>13. restores = 0 => evidence'[n] = 1 /\ verified'[n] = 1 /\ latch'[n] \in {0, 1}
  <2>1. restores = 0 => n \in W /\ evidence[n] = 1 /\ verified[n] = 1
    BY DEF LogInv, Unrolled
  <2> QED BY <1>2, <1>4, <1>8, <1>10, <2>1
<1>14. n \notin W => Behind(n)'
  <2> SUFFICES ASSUME n \notin W PROVE Behind(n)'
    OBVIOUS
  <2>1. Locked(n)'
    BY <1>1, <1>2, <1>7, <1>10 DEF Locked
  <2>2. recovery[n] \in {"block", "prepared"} /\ recovery'[n] \in {"block", "prepared", "raise"}
    BY <1>2, <1>6, <1>7 DEF Kinds
  <2>3. OwnPrefix(n)'
    <3>1. OwnPrefix(n) /\ Own(n, shares[p]) \subseteq shares[n]
      BY <1>1, <2>2 DEF OwnPrefix
    <3> QED BY <1>2, <1>7, <2>2, <3>1 DEF OwnPrefix, Own
  <2>4. OwnLanded(n)'
    <3>1. missing = {} => \A b \in Own(n, synced[p]) : b.kind = k => b \in synced[n]
      BY <1>1, <1>5 DEF OwnLanded
    <3>2. recovery'[n] \in {"prepared", "raise"} =>
            \A b \in Own(n, synced[p]) : b.kind = "block" => b \in synced[n]
      <4>1. CASE k = "block"
        BY <1>7, <3>1, <4>1
      <4>2. CASE k = "prepared"
        BY <1>1, <1>2, <4>2 DEF OwnLanded
      <4> QED BY <4>1, <4>2 DEF Kinds
    <3>3. recovery'[n] = "raise" => Own(n, synced[p]) \subseteq synced[n]
      <4> SUFFICES ASSUME recovery'[n] = "raise", NEW b \in Own(n, synced[p]) PROVE b \in synced[n]
        OBVIOUS
      <4>1. missing = {} /\ k = "prepared"
        BY <1>7 DEF Kinds
      <4>2. b.kind = "block" \/ b.kind = "prepared"
        BY <1>1, RowFields DEF Own, SyncTypes, Kinds
      <4> QED BY <3>1, <3>2, <4>1, <4>2
    <3>4. \A b \in queue'[n] : b \in Own(n, synced[p]) /\ b.kind = recovery'[n]
      <4>1. missing # {} => recovery'[n] = k
        BY <1>6, <1>7
      <4> QED BY <1>3, <1>7, <4>1
    <3>5. OwnLanded(n)
      BY <1>1
    <3> HIDE DEF next
    <3> QED BY <1>7, <3>2, <3>3, <3>4, <3>5 DEF OwnLanded, Own
  <2> QED BY <2>1, <2>3, <2>4 DEF Behind
<1> QED BY <1>9, <1>11, <1>12, <1>13, <1>14, MemoryKeeps

LEMMA InsertsOwnSync ==
    ASSUME NEW W, LogInv(W), NEW n \in Nodes, NEW b \in queue[n], RecoverInsertSync(n, b)
    PROVE  LogInv(W)'
<1> DEFINE p == Peer(n)
<1>1. /\ PeerInv(W) /\ ShareInv(W) /\ LogTypes /\ PassTypes /\ SyncTypes /\ ShareTypes
      /\ p \in Nodes /\ p # n /\ Peer(p) = n /\ (\A m \in Nodes : m = n \/ m = p)
      /\ Process(n, W) /\ OneName(n)
      /\ \A m \in Nodes : /\ Numbered(m, W) /\ Ended(m, W) /\ Covered(m) /\ Queued(m, W)
                          /\ WindowHeld(m)
  BY Pairs DEF LogInv, PeerInv, ShareInv, SyncInv
<1>2. /\ recovery[n] \in Kinds /\ synced' = [synced EXCEPT ![n] = @ \cup {b}]
      /\ queue' = [queue EXCEPT ![n] = @ \ {b}]
      /\ UNCHANGED <<shares, shareSeq, shareMark, refused, quarantine, syncSeq, open, syncMark,
                     watermark, rollup, stage, batch, fresh, whole, safe, evidence, verified, latch,
                     lost, recovery, proving, reach, backup, restores>>
  BY DEF RecoverInsertSync, logVars
<1>3. n \notin W
  <2>1. recovery[n] # "none"
    BY <1>2 DEF Kinds
  <2> QED BY <1>1, <2>1, IdleQueue DEF Process
<1>4. /\ Locked(n) /\ OwnPrefix(n) /\ OwnLanded(n) /\ open[n] = {}
      /\ b \in SyncRecords /\ b \in synced[p] /\ b.origin = n /\ b.kind = recovery[n]
  <2>1. Locked(n) /\ OwnPrefix(n) /\ OwnLanded(n)
    BY <1>3 DEF LogInv, Behind
  <2> QED BY <1>1, <2>1 DEF Locked, OwnLanded, PassTypes, Own
<1>5. /\ synced'[n] = synced[n] \cup {b} /\ synced'[p] = synced[p]
      /\ queue'[n] = queue[n] \ {b} /\ queue'[p] = queue[p]
  BY <1>1, <1>2 DEF SyncTypes, PassTypes
<1>6. PassTypes' /\ SyncTypes'
  <2>1. queue' \in [Nodes -> SUBSET SyncRecords]
    BY <1>1, <1>2 DEF PassTypes
  <2>2. synced' \in [Nodes -> SUBSET SyncRecords]
    BY <1>1, <1>2, <1>4 DEF SyncTypes
  <2> QED BY <1>1, <1>2, <2>1, <2>2 DEF PassTypes, SyncTypes
<1>7. ShareInv(W)'
  BY <1>1, <1>2, <1>6, OtherStages
<1>8. Numbered(n, W)' /\ Numbered(p, W)'
  <2>1. IsFiniteSet(synced[n] \cup {b})
    BY <1>1, FS_AddElement DEF Numbered
  <2>2. \A c \in synced[n] \cup {b} : c.origin = n => c.window \subseteq shares[n] \/ c \in synced[p]
    BY <1>1, <1>4 DEF Numbered
  <2>3. \A c, d \in synced[n] \cup {b} : c.origin = n /\ d.origin = n /\ c.sync = d.sync => c = d
    <3>1. \A c \in synced[n] : c.origin = n /\ b.sync = c.sync => b = c
      BY <1>4 DEF OwnLanded, Own
    <3>2. \A c, d \in synced[n] : c.origin = n /\ d.origin = n /\ c.sync = d.sync => c = d
      BY <1>1 DEF Numbered
    <3> QED BY <3>1, <3>2
  <2>4. p \in W => \A c \in synced[n] \cup {b} : c.origin # n => c \in synced[p]
    BY <1>1, <1>4 DEF Numbered
  <2>5. Numbered(n, W)'
    BY <1>2, <1>3, <1>4, <1>5, <2>1, <2>2, <2>3, <2>4 DEF Numbered
  <2>6. Numbered(p, W)'
    <3>1. /\ Numbered(p, W) /\ synced'[p] = synced[p] /\ Peer(p) = n /\ synced[n] \subseteq synced'[n]
          /\ shares' = shares /\ open' = open /\ syncSeq' = syncSeq
      BY <1>1, <1>2, <1>5
    <3> QED BY <3>1 DEF Numbered
  <2> QED BY <2>5, <2>6
<1>9. \A m \in Nodes : Ended(m, W)' /\ WindowHeld(m)'
  <2>1. WindowHeld(n)' /\ WindowHeld(p)'
    BY <1>1, <1>2, <1>4, <1>5 DEF WindowHeld
  <2>2. \A m \in Nodes : Ended(m, W)'
    BY <1>1, <1>2 DEF Ended
  <2> QED BY <1>1, <2>1, <2>2
<1>10. /\ \A k \in Kinds : Theirs(n, k)' = Theirs(n, k)
       /\ \A k \in Kinds : \A c \in Theirs(p, k)' : c \in Theirs(p, k) \/ c = b
       /\ \A k \in Kinds : \A c \in Theirs(p, k) : c \in Theirs(p, k)'
       /\ \A k \in Kinds : b \in Theirs(p, k)' => b.kind = k
  BY <1>1, <1>5 DEF Theirs
<1>11. \A k, i : /\ Named(synced[n], k, i) \subseteq Named(synced'[n], k, i)
                 /\ b \in Named(synced[p], b.kind, b.id)
  BY <1>4, <1>5 DEF Named
<1>12. Covered(n)' /\ Covered(p)'
  <2>1. Covered(n)'
    BY <1>1, <1>2, <1>10, <1>11 DEF Covered
  <2>2. Covered(p)'
    <3> SUFFICES ASSUME NEW k \in Kinds, NEW c \in Theirs(p, k)', c.sync <= syncMark[p][k]
                 PROVE  Named(synced[p], k, c.id) # {}
      BY <1>2, <1>5 DEF Covered
    <3>1. CASE c \in Theirs(p, k)
      BY <1>1, <3>1 DEF Covered
    <3>2. CASE c = b
      BY <1>10, <1>11, <3>2
    <3> QED BY <1>10, <3>1, <3>2
  <2> QED BY <2>1, <2>2
<1>13. Queued(n, W)' /\ Queued(p, W)'
  <2>1. \A c : (Pending(p, c) => Pending(p, c)') /\ Pending(p, b)'
    BY <1>5, <1>11 DEF Pending
  <2>2. Queued(p, W)'
    <3>1. /\ Queued(p, W) /\ UNCHANGED <<stage, safe, shareMark, syncMark, whole>>
          /\ queue'[p] = queue[p]
      BY <1>1, <1>2, <1>5
    <3> QED BY <1>10, <2>1, <3>1 DEF Queued
  <2> QED BY <1>3, <2>2 DEF Queued
<1>14. PeerInv(W)'
  BY <1>1, <1>6, <1>7, <1>8, <1>9, <1>12, <1>13 DEF PeerInv, SyncInv
<1>15. LogTypes' /\ Process(n, W)'
  BY <1>1, <1>2 DEF LogTypes, Process
<1>16. OneName(n)'
  <2>1. \A c \in synced[n] : b.kind = c.kind /\ b.id = c.id => b = c
    BY <1>4 DEF OwnLanded, Own
  <2>2. \A c, d \in synced[n] : c.kind = d.kind /\ c.id = d.id => c = d
    BY <1>1 DEF OneName
  <2>3. synced'[n] \cup open'[n] = synced[n] \cup {b}
    BY <1>2, <1>4, <1>5
  <2> QED BY <2>1, <2>2, <2>3 DEF OneName
<1>17. Behind(n)'
  <2>1. Locked(n)' /\ OwnPrefix(n)'
    BY <1>2, <1>4 DEF Locked, OwnPrefix, Own
  <2>2. \A c \in Own(n, synced[p]) : b.sync = c.sync \/ (b.kind = c.kind /\ b.id = c.id) => b = c
    <3>1. OneName(p)
      BY <1>1 DEF LogInv
    <3>2. \A c \in Own(n, synced[p]) : b.kind = c.kind /\ b.id = c.id => b = c
      BY <1>4, <3>1 DEF OneName, Own
    <3> QED BY <1>4, <3>2 DEF OwnLanded, Own
  <2>3. \A d \in Own(n, synced[p]) : \A c \in synced[n] \cup {b} :
          (c.origin = n /\ d.sync = c.sync) \/ (d.kind = c.kind /\ d.id = c.id) => d = c
    <3>1. \A d \in Own(n, synced[p]) : \A c \in synced[n] :
            (c.origin = n /\ d.sync = c.sync) \/ (d.kind = c.kind /\ d.id = c.id) => d = c
      BY <1>4 DEF OwnLanded
    <3> QED BY <2>2, <3>1
  <2>4. \A c \in synced[n] \cup {b} : c.origin = n => c.sync <= syncSeq[n] \/ c \in synced[p]
    BY <1>4 DEF OwnLanded
  <2>5. OwnLanded(n)'
    BY <1>2, <1>4, <1>5, <2>3, <2>4 DEF OwnLanded, Own
  <2> QED BY <2>1, <2>5 DEF Behind
<1> QED BY <1>2, <1>3, <1>5, <1>14, <1>15, <1>16, <1>17, BehindKeeps

LEMMA FiniteTop ==
    ASSUME NEW S, IsFiniteSet(S), S \subseteq Nat, S # {}
    PROVE  \E s \in S : IsTop(s, S)
<1> DEFINE Bad == {U \in SUBSET S : U # {} /\ ~\E s \in U : IsTop(s, U)}
           T == {Cardinality(U) : U \in Bad}
<1> SUFFICES ASSUME Bad # {} PROVE FALSE
  OBVIOUS
<1>1. \A U \in SUBSET S : IsFiniteSet(U) /\ Cardinality(U) \in Nat
  BY FS_Subset, FS_CardinalityType
<1>2. T \subseteq Nat /\ T # {}
  BY <1>1
<1>3. PICK x \in T : \A y \in T : ~(<<y, x>> \in OpToRel(<, Nat))
  <2> HIDE DEF T
  <2> QED BY <1>2, NatLessThanWellFounded, WFMin
<1>4. \A y \in T : ~(y < x)
  BY <1>2, <1>3 DEF OpToRel
<1>5. PICK U \in Bad : Cardinality(U) = x
  BY <1>3
<1>6. PICK u \in U : TRUE
  BY <1>5
<1> DEFINE V == U \ {u}
<1>7. /\ V \in SUBSET S /\ U \subseteq S /\ U = V \cup {u} /\ u \in Nat /\ V \subseteq Nat
      /\ ~\E s \in U : IsTop(s, U)
  BY <1>5, <1>6
<1>8. Cardinality(V) < x
  <2>1. Cardinality(V) = Cardinality(U) - 1
    BY <1>1, <1>6, <1>7, FS_RemoveElement
  <2> QED BY SMTT(30), <1>1, <1>5, <1>7, <2>1
<1>9. V = {} \/ \E s \in V : IsTop(s, V)
  <2>1. V \notin Bad
    BY <1>4, <1>8
  <2> QED BY <1>7, <2>1
<1> HIDE DEF V, Bad
<1>10. CASE V = {}
  <2>1. u <= u
    BY SMTT(30), <1>7
  <2> QED BY <1>7, <1>10, <2>1 DEF IsTop
<1>11. ASSUME NEW s \in V, IsTop(s, V) PROVE FALSE
  <2>1. CASE s <= u
    <3>1. \A t \in U : t <= u
      BY SMTT(30), <1>7, <1>11, <2>1 DEF IsTop
    <3> QED BY <1>6, <1>7, <3>1 DEF IsTop
  <2>2. CASE ~(s <= u)
    <3>1. u <= s
      BY SMTT(30), <1>7, <2>2
    <3> QED BY <1>7, <1>11, <3>1 DEF IsTop
  <2> QED BY <2>1, <2>2
<1> QED BY <1>9, <1>10, <1>11

LEMMA Above ==
    ASSUME NEW S, IsFiniteSet(S), S \subseteq Nat, NEW x \in Nat
    PROVE  /\ AboveAll(S, x) \in S \cup {x} /\ AboveAll(S, x) \in Nat /\ x <= AboveAll(S, x)
           /\ \A s \in S : s <= AboveAll(S, x)
<1>1. IsFiniteSet(S \cup {x}) /\ S \cup {x} \subseteq Nat /\ S \cup {x} # {}
  BY FS_AddElement
<1>2. \E s \in S \cup {x} : IsTop(s, S \cup {x})
  BY <1>1, FiniteTop
<1>3. AboveAll(S, x) \in S \cup {x} /\ IsTop(AboveAll(S, x), S \cup {x})
  BY <1>2 DEF AboveAll
<1> QED BY <1>3 DEF IsTop

LEMMA Numbers ==
    /\ \A rows \in SUBSET ShareRows : IsFiniteSet(rows) => IsFiniteSet(Seqs(rows)) /\ Seqs(rows) \subseteq Nat
    /\ \A rows \in SUBSET SyncRecords : IsFiniteSet(rows) =>
         IsFiniteSet({b.sync : b \in rows}) /\ {b.sync : b \in rows} \subseteq Nat
<1>1. ASSUME NEW rows \in SUBSET ShareRows, IsFiniteSet(rows)
      PROVE  IsFiniteSet(Seqs(rows)) /\ Seqs(rows) \subseteq Nat
  <2>1. [r \in rows |-> r.seq] \in Surjection(rows, Seqs(rows))
    BY DEF Surjection, Seqs
  <2>2. IsFiniteSet(Seqs(rows))
    BY <1>1, <2>1, FS_Surjection
  <2> QED BY <2>2, RowFields DEF Seqs
<1>2. ASSUME NEW rows \in SUBSET SyncRecords, IsFiniteSet(rows)
      PROVE  IsFiniteSet({b.sync : b \in rows}) /\ {b.sync : b \in rows} \subseteq Nat
  <2>1. [b \in rows |-> b.sync] \in Surjection(rows, {b.sync : b \in rows})
    BY DEF Surjection
  <2>2. IsFiniteSet({b.sync : b \in rows})
    BY <1>2, <2>1, FS_Surjection
  <2> QED BY <2>2, RowFields
<1> QED BY <1>1, <1>2

LEMMA InsertsOwnShares ==
    ASSUME NEW W, LogInv(W), NEW n \in Nodes, RecoverInsertShares(n)
    PROVE  LogInv(W)'
<1> DEFINE p == Peer(n)
           rows == batch[n].rows
           kept == {r \in rows : \A l \in shares[n] : l.seq = r.seq \/ l.header = r.header => l = r}
           new == rows \ shares[n]
           s == AtOrAbove(n, AboveAll(Seqs(rows), shareSeq[n]))
<1>1. /\ PeerInv(W) /\ ShareInv(W) /\ LogTypes /\ PassTypes /\ SyncTypes /\ ShareTypes
      /\ p \in Nodes /\ p # n /\ Peer(p) = n /\ (\A m \in Nodes : m = n \/ m = p)
      /\ Process(n, W) /\ OneName(n)
      /\ \A m \in Nodes : /\ Raised(m, W) /\ OneCredit(m) /\ Scanned(m, W) /\ Pulling(m) /\ Folding(m)
  BY Pairs DEF LogInv, PeerInv, ShareInv, SyncInv
<1>2. recovery[n] = "insert"
  BY DEF RecoverInsertShares, Recovering
<1>3. n \notin W /\ Locked(n) /\ OwnPrefix(n) /\ OwnLanded(n) /\ p \in W
  BY <1>1, <1>2 DEF Process, LogInv, Behind
<1>4. /\ rows \subseteq Own(n, shares[p]) /\ rows \subseteq shares[p] /\ rows \subseteq ShareRows
      /\ \A r \in rows : r.origin = n /\ r.seq % 2 = n
      /\ \A r \in Own(n, shares[p]), l \in rows : r.seq <= l.seq => r \in shares[n] \cup rows
      /\ \A r \in rows, l \in shares[n] : r.seq = l.seq \/ r.header = l.header => r = l
  <2>1. rows \subseteq Own(n, shares[p])
    BY <1>2, <1>3 DEF OwnPrefix
  <2>2. shares[p] \subseteq ShareRows
    BY <1>1 DEF ShareTypes
  <2> QED BY <1>2, <1>3, <2>1, <2>2 DEF OwnPrefix, Own
<1>5. kept = rows
  BY <1>4
<1>6. /\ shareSeq' = [shareSeq EXCEPT ![n] = s] /\ batch' = [batch EXCEPT ![n] = NoBatch]
      /\ shares' = [shares EXCEPT ![n] = @ \cup rows]
      /\ rollup' = [rollup EXCEPT ![n] = @ + Folded(n, new)]
      /\ recovery' = [recovery EXCEPT ![n] = "shares"]
      /\ UNCHANGED <<shareMark, refused, quarantine, synced, syncSeq, open, syncMark, watermark, stage,
                     fresh, queue, whole, safe, evidence, verified, latch, lost, proving, reach, backup,
                     restores>>
  <2> HIDE DEF kept
  <2> QED BY <1>5 DEF RecoverInsertShares, RecoveryVars, kept
<1> HIDE DEF kept
<1>7. IsFiniteSet(rows) /\ IsFiniteSet(new) /\ Folded(n, new) \in Nat
  <2>1. IsFiniteSet(rows)
    BY <1>1, <1>4, FS_Subset DEF Folding
  <2>2. IsFiniteSet(new)
    BY <2>1, FS_Subset
  <2>3. IsFiniteSet({r \in new : r.seq <= watermark[n]})
    BY <2>2, FS_Subset
  <2> QED BY <2>1, <2>2, <2>3, FS_CardinalityType DEF Folded
<1>8. /\ s \in Nat /\ shareSeq[n] <= s /\ s % 2 = n /\ (\A r \in rows : r.seq <= s)
      /\ shareSeq[n] \in Nat /\ shareSeq[p] \in Nat /\ watermark[n] \in Nat
  <2> DEFINE a == AboveAll(Seqs(rows), shareSeq[n])
  <2>1. shareSeq[n] \in Nat /\ shareSeq[p] \in Nat /\ watermark[n] \in Nat
    BY <1>1 DEF ShareTypes
  <2>2. IsFiniteSet(Seqs(rows)) /\ Seqs(rows) \subseteq Nat
    BY <1>4, <1>7, Numbers
  <2>3. a \in Nat /\ shareSeq[n] <= a /\ \A r \in rows : r.seq <= a /\ r.seq \in Nat
    BY <2>1, <2>2, Above DEF Seqs
  <2> HIDE DEF a
  <2>4. AtOrAbove(n, a) \in Nat /\ a <= AtOrAbove(n, a) /\ AtOrAbove(n, a) % 2 = n
    BY <2>3, Keys
  <2>5. shareSeq[n] <= AtOrAbove(n, a) /\ \A r \in rows : r.seq <= AtOrAbove(n, a)
    BY SMTT(30), <2>1, <2>3, <2>4
  <2> QED BY <2>1, <2>4, <2>5 DEF a
<1> HIDE DEF s
<1>9. /\ shares'[n] = shares[n] \cup rows /\ shares'[p] = shares[p]
      /\ shareSeq'[n] = s /\ shareSeq'[p] = shareSeq[p]
      /\ batch'[n] = NoBatch /\ batch'[p] = batch[p]
      /\ rollup'[n] = rollup[n] + Folded(n, new) /\ rollup'[p] = rollup[p]
      /\ recovery'[n] = "shares" /\ recovery'[p] = recovery[p]
  <2>1. /\ shares'[n] = shares[n] \cup rows /\ shares'[p] = shares[p]
        /\ shareSeq'[n] = s /\ shareSeq'[p] = shareSeq[p]
    BY <1>1, <1>6 DEF ShareTypes
  <2>2. /\ rollup'[n] = rollup[n] + Folded(n, new) /\ rollup'[p] = rollup[p]
    BY <1>1, <1>6 DEF ShareTypes
  <2>3. /\ batch'[n] = NoBatch /\ batch'[p] = batch[p]
        /\ recovery'[n] = "shares" /\ recovery'[p] = recovery[p]
    BY <1>1, <1>6 DEF PassTypes, LogTypes
  <2> QED BY <2>1, <2>2, <2>3
<1>10. ShareTypes' /\ PassTypes'
  <2>1. shares' \in [Nodes -> SUBSET ShareRows] /\ shareSeq' \in [Nodes -> Nat]
    BY <1>1, <1>4, <1>6, <1>8 DEF ShareTypes
  <2>2. rollup' \in [Nodes -> Nat]
    BY SMTT(30), <1>1, <1>6, <1>7 DEF ShareTypes
  <2>3. batch' \in [Nodes -> [through : Nat, rows : SUBSET ShareRows]]
    <3>1. NoBatch \in [through : Nat, rows : SUBSET ShareRows]
      BY Zero, BatchTypes
    <3> QED BY <1>1, <1>6, <3>1 DEF PassTypes
  <2> QED BY <1>1, <1>6, <2>1, <2>2, <2>3 DEF ShareTypes, PassTypes
<1>11. Raised(n, W)' /\ Raised(p, W)'
  <2>1. \A r \in shares[n] : r.seq <= s
    <3>1. \A r \in shares[n] : r.seq \in Nat /\ r.seq <= shareSeq[n]
      BY <1>1, RowFields DEF Raised, ShareTypes
    <3> QED BY SMTT(30), <1>8, <3>1
  <2>2. Raised(n, W)'
    <3>1. \A r \in shares[n] \cup rows : r.seq <= s /\ (r.origin = n => r.seq % 2 = n)
      BY <1>1, <1>4, <1>8, <2>1 DEF Raised
    <3>2. \A r \in shares[n] \cup rows : r.origin # n => r \in shares[p]
      BY <1>1, <1>3, <1>4 DEF Raised
    <3> QED BY <1>8, <1>9, <3>1, <3>2 DEF Raised
  <2>3. Raised(p, W)'
    BY <1>1, <1>3, <1>9 DEF Raised
  <2> QED BY <2>2, <2>3
<1>12. OneCredit(n)' /\ OneCredit(p)'
  <2>1. \A r, l \in rows : r.header = l.header \/ r.seq = l.seq => r = l
    BY <1>1, <1>4 DEF OneCredit
  <2>2. \A r, l \in shares[n] : r.header = l.header \/ r.seq = l.seq => r = l
    BY <1>1 DEF OneCredit
  <2>3. \A r, l \in shares[n] \cup rows : r.header = l.header \/ r.seq = l.seq => r = l
    BY SMTT(30), <1>4, <2>1, <2>2
  <2> QED BY <1>1, <1>9, <2>3 DEF OneCredit
<1>13. Scanned(n, W)' /\ Scanned(p, W)'
  <2>1. Scanned(n, W)'
    BY <1>1, <1>6, <1>9 DEF Scanned
  <2>2. Scanned(p, W)'
    BY <1>1, <1>3, <1>4, <1>6, <1>9 DEF Scanned
  <2> QED BY <2>1, <2>2
<1>14. Pulling(n)' /\ Pulling(p)'
  <2>1. Pulling(n)'
    <3>1. stage'[n] = "idle"
      BY <1>3, <1>6 DEF Locked
    <3> QED BY <3>1 DEF Pulling
  <2>2. Pulling(p)'
    <3>1. /\ stage'[p] = stage[p] /\ batch'[p] = batch[p] /\ fresh'[p] = fresh[p]
          /\ shareMark'[p] = shareMark[p] /\ shares'[p] = shares[p]
          /\ shares[n] \subseteq shares'[n] /\ shareSeq[n] <= shareSeq'[n]
          /\ \A r \in shares'[n] \ shares[n] : r \in shares[p]
      BY <1>4, <1>6, <1>8, <1>9
    <3>2. shareSeq[p] <= shareSeq'[p]
      BY SMTT(30), <1>8, <1>9
    <3> QED BY <1>1, <1>10, <3>1, <3>2, PullingKept
  <2> QED BY <2>1, <2>2
<1>15. Folding(n)' /\ Folding(p)'
  <2>1. /\ IsFiniteSet(shares[n]) /\ (\A r \in new : r \notin shares[n]) /\ IsFiniteSet(new)
        /\ watermark[n] <= shareSeq[n]
        /\ rollup[n] = Cardinality({r \in shares[n] : r.seq <= watermark[n]})
        /\ shares'[n] = shares[n] \cup new
    BY <1>1, <1>7, <1>9 DEF Folding
  <2> HIDE DEF new
  <2>2. /\ IsFiniteSet(shares[n] \cup new)
        /\ Cardinality({r \in shares[n] \cup new : r.seq <= watermark[n]}) =
             rollup[n] + Folded(n, new)
    <3>0. /\ IsFiniteSet(shares[n]) /\ IsFiniteSet(new)
          /\ \A r \in new : r \notin shares[n]
      BY <2>1
    <3>1. /\ IsFiniteSet(shares[n] \cup new)
          /\ Cardinality(Below(shares[n] \cup new, watermark[n])) =
               Cardinality(Below(shares[n], watermark[n])) + Cardinality(Below(new, watermark[n]))
      BY SMTT(30), <3>0, FoldsRows
    <3> QED BY <2>1, <3>1 DEF Folded, Below
  <2>3. watermark[n] <= s
    BY SMTT(30), <1>8, <2>1
  <2>4. Folding(n)'
    <3>1. /\ watermark' = watermark /\ shareSeq'[n] = s /\ shares'[n] = shares[n] \cup new
          /\ rollup'[n] = rollup[n] + Folded(n, new)
      BY <1>6, <1>9, <2>1
    <3> QED BY <2>2, <2>3, <3>1 DEF Folding
  <2>5. Folding(p)'
    BY <1>1, <1>6, <1>9 DEF Folding
  <2> QED BY <2>4, <2>5
<1>16. ShareInv(W)'
  BY <1>1, <1>10, <1>11, <1>12, <1>13, <1>14, <1>15 DEF ShareInv
<1>17. SyncInv(W)'
  <2>1. \A m \in Nodes : shares[m] \subseteq shares'[m] /\ quarantine[m] \subseteq quarantine'[m]
    BY <1>1, <1>6, <1>9
  <2>2. \A m \in Nodes : shareMark[m] <= shareMark'[m]
    BY SMTT(30), <1>1, <1>6 DEF ShareTypes
  <2>3. open' \in [Nodes -> SUBSET SyncRecords] /\ \A m \in Nodes : open'[m] \subseteq open[m]
    BY <1>1, <1>6 DEF SyncTypes
  <2>4. UNCHANGED <<synced, syncSeq, syncMark, safe, stage, whole, queue>>
    BY <1>6
  <2> QED BY <1>1, <1>10, <2>1, <2>2, <2>3, <2>4, SyncKept
<1>18. PeerInv(W)'
  BY <1>16, <1>17 DEF PeerInv
<1>19. LogTypes' /\ Process(n, W)' /\ OneName(n)'
  <2>1. recovery' \in [Nodes -> RecoverySteps]
    BY <1>1, <1>6 DEF LogTypes, RecoverySteps
  <2>2. LogTypes'
    BY <1>1, <1>6, <2>1 DEF LogTypes
  <2>3. Process(n, W)'
    BY <1>1, <1>2, <1>6, <1>9 DEF Process
  <2> QED BY <1>1, <1>6, <2>2, <2>3 DEF OneName
<1>20. Behind(n)'
  <2>1. Locked(n)'
    BY <1>3, <1>6 DEF Locked
  <2>2. \A r \in Own(n, shares[p]) : \A l \in Own(n, shares[n] \cup rows) :
          r.seq <= l.seq => r \in shares[n] \cup rows
    BY <1>3, <1>4 DEF OwnPrefix, Own
  <2>3. \A r \in Own(n, shares[p]) : \A l \in shares[n] \cup rows :
          r.seq = l.seq \/ r.header = l.header => r = l
    <3>1. \A r \in Own(n, shares[p]), l \in rows : r.seq = l.seq \/ r.header = l.header => r = l
      BY <1>1, <1>4 DEF OneCredit, Own
    <3>2. \A r \in Own(n, shares[p]), l \in shares[n] : r.seq = l.seq \/ r.header = l.header => r = l
      BY <1>3 DEF OwnPrefix
    <3> QED BY <3>1, <3>2
  <2>4. \A r \in Own(n, shares[p]) : r.seq % 2 = n
    BY <1>3 DEF OwnPrefix
  <2>5. OwnPrefix(n)'
    BY <1>9, <2>2, <2>3, <2>4 DEF OwnPrefix
  <2>6. OwnLanded(n)'
    <3>1. queue[n] = {}
      <4>1. \A b \in queue[n] : b.kind \in Kinds /\ b.kind = "insert"
        BY <1>1, <1>2, <1>3, RowFields DEF PassTypes, OwnLanded
      <4>2. "insert" \notin Kinds
        BY DEF Kinds
      <4> QED BY <4>1, <4>2
    <3> QED BY <1>3, <1>6, <1>9, <3>1 DEF OwnLanded, Own
  <2> QED BY <2>1, <2>5, <2>6 DEF Behind
<1> QED BY <1>3, <1>6, <1>9, <1>18, <1>19, <1>20, BehindKeeps

(* The sequences go above all the peer has seen: the log is whole again. *)
LEMMA RaisesOwn ==
    ASSUME NEW W, LogInv(W), NEW n \in Nodes, RaiseOwnSequences(n)
    PROVE  LogInv(W \cup {n})'
<1> DEFINE p == Peer(n)
           V == W \cup {n}
           s == AtOrAbove(n, Greatest(shareSeq[n], AboveAll(Seqs(shares[n]), ShareFloor(n))))
           t == Greatest(syncSeq[n], SyncFloor(n))
<1>1. /\ PeerInv(W) /\ ShareInv(W) /\ LogTypes /\ PassTypes /\ SyncTypes /\ ShareTypes
      /\ p \in Nodes /\ p # n /\ Peer(p) = n /\ (\A m \in Nodes : m = n \/ m = p)
      /\ Process(n, W) /\ W \subseteq Nodes /\ (\A m \in Nodes : OneName(m) /\ Process(m, W))
      /\ \A m \in Nodes : /\ Raised(m, W) /\ Scanned(m, W) /\ Pulling(m) /\ Folding(m)
                          /\ Numbered(m, W) /\ Ended(m, W) /\ Covered(m) /\ Queued(m, W) /\ WindowHeld(m)
  BY Pairs DEF LogInv, PeerInv, ShareInv, SyncInv
<1>2. /\ recovery[n] = "raise" /\ shareSeq' = [shareSeq EXCEPT ![n] = s]
      /\ syncSeq' = [syncSeq EXCEPT ![n] = t] /\ recovery' = [recovery EXCEPT ![n] = "record"]
      /\ UNCHANGED <<shares, shareMark, refused, quarantine, synced, open, syncMark, watermark,
                     rollup, stage, batch, fresh, queue, whole, safe, evidence, verified, latch, lost,
                     proving, reach, backup, restores>>
  BY DEF RaiseOwnSequences, Recovering, RecoveryVars, passVars
<1>3. /\ stage[n] = "idle" /\ latch[n] = 0
      /\ n \notin W => p \in W /\ Behind(n) /\ restores # 0
      /\ queue[n] = {}
  <2>1. stage[n] = "idle" /\ latch[n] = 0
    BY <1>1, <1>2 DEF Process
  <2>2. n \notin W => p \in W /\ Behind(n) /\ restores # 0
    BY DEF LogInv
  <2>3. n \notin W => queue[n] = {}
    <3>1. n \notin W => \A b \in queue[n] : b.kind \in Kinds /\ b.kind = "raise"
      BY <1>1, <1>2, <2>2, RowFields DEF PassTypes, Behind, OwnLanded
    <3>2. "raise" \notin Kinds
      BY DEF Kinds
    <3> QED BY <3>1, <3>2
  <2> QED BY <1>1, <2>1, <2>2, <2>3, IdleQueue
<1>4. /\ Own(n, shares[p]) \subseteq shares[n] /\ Own(n, synced[p]) \subseteq synced[n]
  <2>1. CASE n \in W
    <3>1. Raised(p, W) /\ Numbered(p, W) /\ Peer(p) = n /\ p # n
      BY <1>1
    <3> QED BY <2>1, <3>1 DEF Raised, Numbered, Own
  <2>2. CASE n \notin W
    BY <1>2, <1>3, <2>2 DEF Behind, OwnPrefix, OwnLanded
  <2> QED BY <2>1, <2>2
<1>5. /\ shareSeq[n] \in Nat /\ shareSeq[p] \in Nat /\ syncSeq[n] \in Nat /\ syncSeq[p] \in Nat
      /\ shareMark[p] \in Nat
      /\ \A k \in Kinds : syncMark[p][k] \in Nat
  BY <1>1 DEF ShareTypes, SyncTypes
<1>6. s \in Nat /\ shareSeq[n] <= s /\ shareMark[p] <= s /\ s % 2 = n
  <2> DEFINE f == ShareFloor(n)
             a == AboveAll(Seqs(shares[n]), f)
             g == Greatest(shareSeq[n], a)
  <2>1. f \in Nat /\ shareMark[p] <= f
    <3>1. Own(n, shares[p]) \subseteq shares[p] /\ shares[p] \subseteq ShareRows /\ IsFiniteSet(shares[p])
      BY <1>1 DEF Own, ShareTypes, Folding
    <3>2. IsFiniteSet(Own(n, shares[p])) /\ Own(n, shares[p]) \in SUBSET ShareRows
      BY <3>1, FS_Subset
    <3>3. IsFiniteSet(Seqs(Own(n, shares[p]))) /\ Seqs(Own(n, shares[p])) \subseteq Nat
      BY <3>2, Numbers
    <3> QED BY <1>5, <3>3, Above DEF ShareFloor
  <2> HIDE DEF f
  <2>2. a \in Nat /\ f <= a
    <3>1. IsFiniteSet(Seqs(shares[n])) /\ Seqs(shares[n]) \subseteq Nat
      BY <1>1, Numbers DEF ShareTypes, Folding
    <3> QED BY <2>1, <3>1, Above
  <2> HIDE DEF a
  <2>3. g \in Nat /\ shareSeq[n] <= g /\ a <= g
    BY <1>5, <2>2, GreatestOf
  <2> HIDE DEF g
  <2>4. AtOrAbove(n, g) \in Nat /\ g <= AtOrAbove(n, g) /\ AtOrAbove(n, g) % 2 = n
    BY <2>3, Keys
  <2>5. shareSeq[n] <= AtOrAbove(n, g) /\ shareMark[p] <= AtOrAbove(n, g)
    BY SMTT(30), <1>5, <2>1, <2>2, <2>3, <2>4
  <2> QED BY <2>4, <2>5 DEF g, a, f
<1>7. /\ t \in Nat /\ syncSeq[n] <= t /\ (\A k \in Kinds : syncMark[p][k] <= t)
      /\ \A b \in Own(n, synced[p]) : b.sync <= t
  <2> DEFINE f == SyncFloor(n)
             m == Greatest(syncMark[p]["block"], syncMark[p]["prepared"])
  <2>1. m \in Nat /\ \A k \in Kinds : syncMark[p][k] <= m
    BY <1>5, GreatestOf DEF Kinds
  <2>2. f \in Nat /\ m <= f /\ \A b \in Own(n, synced[p]) : b.sync <= f
    <3>1. Own(n, synced[p]) \subseteq synced[p] /\ synced[p] \subseteq SyncRecords /\ IsFiniteSet(synced[p])
      BY <1>1 DEF Own, SyncTypes, Numbered
    <3>2. IsFiniteSet(Own(n, synced[p])) /\ Own(n, synced[p]) \in SUBSET SyncRecords
      BY <3>1, FS_Subset
    <3> DEFINE S == {b.sync : b \in Own(n, synced[p])}
    <3>3. IsFiniteSet(S) /\ S \subseteq Nat /\ \A b \in Own(n, synced[p]) : b.sync \in S
      BY <3>2, Numbers
    <3> HIDE DEF S, m
    <3>4. AboveAll(S, m) \in Nat /\ m <= AboveAll(S, m) /\ \A c \in S : c <= AboveAll(S, m)
      BY <2>1, <3>3, Above
    <3>5. f = AboveAll(S, m)
      BY DEF SyncFloor, S, m
    <3> HIDE DEF f
    <3> QED BY <3>3, <3>4, <3>5
  <2> HIDE DEF f, m
  <2>3. Greatest(syncSeq[n], f) \in Nat /\ syncSeq[n] <= Greatest(syncSeq[n], f) /\ f <= Greatest(syncSeq[n], f)
    BY <1>5, <2>2, GreatestOf
  <2>4. /\ \A k \in Kinds : syncMark[p][k] <= Greatest(syncSeq[n], f)
        /\ \A b \in Own(n, synced[p]) : b.sync \in Nat => b.sync <= Greatest(syncSeq[n], f)
    BY SMTT(30), <1>5, <2>1, <2>2, <2>3
  <2>5. \A b \in Own(n, synced[p]) : b.sync \in Nat
    BY <1>1, RowFields DEF Own, SyncTypes
  <2> QED BY <2>3, <2>4, <2>5 DEF f
<1> HIDE DEF s, t
<1>8. /\ shareSeq'[n] = s /\ shareSeq'[p] = shareSeq[p] /\ syncSeq'[n] = t /\ syncSeq'[p] = syncSeq[p]
      /\ recovery'[n] = "record" /\ recovery'[p] = recovery[p]
      /\ syncSeq' \in [Nodes -> Nat]
  BY <1>1, <1>2, <1>7 DEF ShareTypes, SyncTypes, LogTypes
<1>9. ShareInv(V)'
  <2>1. Pulling(n)'
    BY <1>2, <1>3 DEF Pulling
  <2>2. ShareInv(W)'
    BY <1>1, <1>2, <1>6, <2>1, SequenceRaises DEF PassTypes
  <2>3. Raised(n, V)' /\ Raised(p, V)'
    <3>1. Raised(n, W)' /\ Raised(p, W)'
      BY <1>1, <2>2 DEF ShareInv
    <3>2. p \in V => p \in W
      BY <1>1
    <3>3. \A r \in shares[p] : r.origin # p => r \in shares[n]
      <4>1. \A r \in shares[p] : r.origin \in Nodes
        BY <1>1, RowFields DEF ShareTypes
      <4> QED BY <1>1, <1>4, <4>1 DEF Own
    <3> QED BY <1>1, <1>2, <3>1, <3>2, <3>3 DEF Raised
  <2>4. Scanned(n, V)' /\ Scanned(p, V)'
    <3>1. Scanned(n, W)' /\ Scanned(p, W)'
      BY <1>1, <2>2 DEF ShareInv
    <3>2. p \in V => p \in W
      BY <1>1
    <3>3. shareMark'[p] <= shareSeq'[n]
      BY <1>2, <1>6, <1>8
    <3> QED BY <1>1, <3>1, <3>2, <3>3 DEF Scanned
  <2> QED BY <1>1, <2>2, <2>3, <2>4 DEF ShareInv
<1>10. \A m \in Nodes : Covered(m)' /\ WindowHeld(m)'
  <2>1. UNCHANGED <<shares, quarantine, synced, syncMark>> /\ \A m \in Nodes : Covered(m) /\ WindowHeld(m)
    BY <1>1, <1>2
  <2>2. \A m \in Nodes : \A k \in Kinds : Theirs(m, k)' = Theirs(m, k)
    BY <2>1 DEF Theirs
  <2>3. \A m \in Nodes : Covered(m)'
    BY <2>1, <2>2 DEF Covered
  <2>4. \A m \in Nodes : WindowHeld(m)'
    BY <2>1 DEF WindowHeld
  <2> QED BY <2>3, <2>4
<1>11. Numbered(n, V)' /\ Numbered(p, V)'
  <2>1. \A b \in synced[n] \cup open[n] : b.origin = n => b.sync <= t
    <3> SUFFICES ASSUME NEW b \in synced[n] \cup open[n], b.origin = n PROVE b.sync <= t
      OBVIOUS
    <3>1. b.sync <= syncSeq[n] \/ b \in synced[p]
      BY <1>1, <1>3 DEF Numbered, Behind, Locked, OwnLanded
    <3>2. b.sync \in Nat
      BY <1>1, RowFields DEF SyncTypes
    <3>3. b \in synced[p] => b.sync <= t
      BY <1>7 DEF Own
    <3> QED BY SMTT(30), <1>5, <1>7, <3>1, <3>2, <3>3
  <2>2. Numbered(n, V)'
    <3>1. Numbered(n, W) /\ (p \in V => p \in W) /\ n \in V /\ UNCHANGED <<synced, open, shares>>
      BY <1>1, <1>2
    <3> QED BY <1>8, <2>1, <3>1 DEF Numbered
  <2>3. \A b \in synced[p] : b.origin # p => b \in synced[n]
    <3>1. \A b \in synced[p] : b.origin \in Nodes
      BY <1>1, RowFields DEF SyncTypes
    <3> QED BY <1>1, <1>4, <3>1 DEF Own
  <2>4. Numbered(p, V)'
    <3>1. Numbered(p, W) /\ (p \in V => p \in W) /\ UNCHANGED <<synced, open, shares>>
          /\ Peer(p) = n /\ syncSeq'[p] = syncSeq[p]
      BY <1>1, <1>2, <1>8
    <3> QED BY <2>3, <3>1 DEF Numbered
  <2> QED BY <2>2, <2>4
<1>12. Ended(n, V)' /\ Ended(p, V)'
  <2>1. Ended(n, V)'
    <3>1. Ended(n, W) /\ (p \in V => p \in W) /\ UNCHANGED <<open, safe, syncMark>>
          /\ syncSeq'[p] = syncSeq[p]
      BY <1>1, <1>2, <1>8
    <3> QED BY <3>1 DEF Ended
  <2>2. safe[p] <= t
    <3>1. safe[p] \in Nat /\ safe[p] <= syncSeq[n]
      BY <1>1 DEF PassTypes, Ended
    <3> QED BY SMTT(30), <1>5, <1>7, <3>1
  <2>3. Ended(p, V)'
    <3>1. Ended(p, W) /\ UNCHANGED <<open, safe, syncMark>> /\ syncSeq'[n] = t /\ Peer(p) = n
          /\ \A k \in Kinds : syncMark[p][k] <= t
      BY <1>1, <1>2, <1>7, <1>8
    <3> QED BY <2>2, <3>1 DEF Ended
  <2> QED BY <2>1, <2>3
<1>13. Queued(n, V)' /\ Queued(p, V)'
  <2>1. Queued(n, V)'
    <3>1. \A k \in Kinds : stage'[n] # ApplyStage(k)
      BY <1>2, <1>3 DEF ApplyStage
    <3>2. queue'[n] = {}
      BY <1>2, <1>3
    <3> QED BY <3>1, <3>2 DEF Queued
  <2>2. Queued(p, W)'
    <3>1. \A j \in Kinds : Theirs(p, j)' = Theirs(p, j)
      BY <1>2 DEF Theirs
    <3> QED BY <1>1, <1>2, <3>1, QueuedKept
  <2>3. p \in V => p \in W
    BY <1>1
  <2> QED BY <2>1, <2>2, <2>3 DEF Queued
<1>14. PeerInv(V)'
  <2>1. SyncTypes'
    BY <1>1, <1>2, <1>8 DEF SyncTypes
  <2> QED BY <1>1, <1>9, <1>10, <1>11, <1>12, <1>13, <2>1 DEF PeerInv, SyncInv
<1>15. LogTypes' /\ Process(n, V)'
  <2>1. recovery' \in [Nodes -> RecoverySteps]
    BY <1>1, <1>2 DEF LogTypes, RecoverySteps
  <2>2. LogTypes'
    BY <1>1, <1>2, <2>1 DEF LogTypes
  <2>3. Process(n, V)'
    BY <1>2, <1>3, <1>8 DEF Process
  <2> QED BY <2>2, <2>3
<1>16. CASE n \in W
  <2>1. V = W
    BY <1>16
  <2>2. MemoryOnly(n)
    <3>1. \A m \in Nodes : shareSeq[m] <= shareSeq'[m] /\ syncSeq[m] <= syncSeq'[m]
      BY SMTT(30), <1>1, <1>5, <1>6, <1>7, <1>8
    <3> QED BY <1>1, <1>2, <1>3, <1>8, <3>1 DEF MemoryOnly
  <2>3. restores = 0 => evidence'[n] = 1 /\ verified'[n] = 1 /\ latch'[n] \in {0, 1}
    BY <1>2 DEF LogInv, Unrolled
  <2> QED BY <1>14, <1>15, <1>16, <2>1, <2>2, <2>3, MemoryKeeps
<1>17. CASE n \notin W
  <2>1. V = Nodes /\ restores' # 0
    BY <1>1, <1>2, <1>3, <1>17
  <2>2. Process(p, V)' /\ OneName(n)' /\ OneName(p)'
    <3>1. Process(p, V)'
      BY <1>1, <1>2, <1>3, <1>8, <1>17 DEF Process
    <3>2. OneName(n)' /\ OneName(p)'
      <4>1. OneName(n) /\ OneName(p) /\ UNCHANGED <<synced, open>>
        BY <1>1, <1>2
      <4> QED BY <4>1 DEF OneName
    <3> QED BY <3>1, <3>2
  <2> QED BY <1>1, <1>14, <1>15, <2>1, <2>2 DEF LogInv
<1> QED BY <1>16, <1>17
=============================================================================
