----------------------------- MODULE PeerProofs -----------------------------
(***************************************************************************)
(* The streams of a pair whose databases keep what they committed, for     *)
(* every set of headers and hashes, every batch size and every number of   *)
(* failures.  To the invariant of the share stream this adds the one of    *)
(* the streams in sync_seq order: the barrier's mark is below the number   *)
(* of every landing still open (Ended), and what a pass has in hand is the *)
(* stream from its cursor on, with no row left out (Queued).               *)
(***************************************************************************)
EXTENDS ShareStreamProofs, WellFoundedInduction

USE ZenonT(60)

(* A landing has a number of its own, drawn from its node's sequence, and   *)
(* the shares of its window unless it came back from the peer; what a node  *)
(* holds of the other's, the other holds.                                   *)
Numbered(n, W) ==
  /\ IsFiniteSet(synced[n]) /\ \A b \in open[n] : b.origin = n
  /\ n \in W => \A b \in synced[n] \cup open[n] : b.origin = n => b.sync <= syncSeq[n]
  /\ \A b \in synced[n] \cup open[n] :
       b.origin = n => b.window \subseteq shares[n] \/ b \in synced[Peer(n)]
  /\ \A b, c \in synced[n] \cup open[n] :
       b.origin = n /\ c.origin = n /\ b.sync = c.sync => b = c
  /\ Peer(n) \in W => \A b \in synced[n] : b.origin # n => b \in synced[Peer(n)]

(* Landings still open are above the mark and the cursors.                  *)
Ended(n, W) ==
  /\ safe[n] <= syncSeq[Peer(n)]
  /\ Peer(n) \in W => \A k \in Kinds : syncMark[n][k] <= syncSeq[Peer(n)]
  /\ \A b \in open[Peer(n)] : safe[n] < b.sync /\ \A k \in Kinds : syncMark[n][k] < b.sync

(* The rows of a stream at or below its cursor are held; those still to be  *)
(* applied have none before them that is not in hand or held.               *)
Theirs(n, k) == {b \in synced[Peer(n)] : b.origin = Peer(n) /\ b.kind = k}
Covered(n) ==
  \A k \in Kinds : \A b \in Theirs(n, k) :
    b.sync <= syncMark[n][k] => Named(synced[n], k, b.id) # {}
Pending(n, c) == c \in queue[n] \/ Named(synced[n], c.kind, c.id) # {}
Queued(n, W) ==
  n \in W => \A k \in Kinds :
    /\ \A b \in queue[n] : b.kind = k =>
         /\ b \in Theirs(n, k) /\ stage[n] = ApplyStage(k) /\ b.sync <= safe[n]
         /\ WindowCovered(b, shareMark[n])
         /\ \A c \in Theirs(n, k) : syncMark[n][k] < c.sync /\ c.sync <= b.sync => Pending(n, c)
    /\ stage[n] = ApplyStage(k) /\ whole[n] =>
         \A c \in Theirs(n, k) : syncMark[n][k] < c.sync /\ c.sync <= safe[n] => Pending(n, c)
WindowHeld(n) ==
  \A b \in synced[n] : b.origin # n => b.window \subseteq shares[n] \cup quarantine[n]

SyncInv(W) ==
  /\ SyncTypes
  /\ \A n \in Nodes : Numbered(n, W) /\ Ended(n, W) /\ Covered(n) /\ Queued(n, W) /\ WindowHeld(n)

PeerInv(W) == ShareInv(W) /\ SyncInv(W)

----------------------------------------------------------------------------
LEMMA PeerInitInv ==
    ASSUME NEW W, Init
    PROVE  PeerInv(W)
<1>1. ShareTypes /\ SyncTypes /\ PassTypes
  BY SMTT(30) DEF Init, ShareTypes, SyncTypes, PassTypes, Nodes, Peer, Stages, NoBatch
<1>2. \A n \in Nodes : shareSeq[n] % 2 = n
  BY SMTT(30) DEF Init, Nodes
<1> SUFFICES ASSUME NEW n \in Nodes
             PROVE  /\ Raised(n, W) /\ OneCredit(n) /\ Scanned(n, W) /\ Pulling(n) /\ Folding(n)
                    /\ Numbered(n, W) /\ Ended(n, W) /\ Covered(n) /\ Queued(n, W) /\ WindowHeld(n)
  BY <1>1 DEF PeerInv, ShareInv, SyncInv
<1>3. /\ shares[n] = {} /\ shares[Peer(n)] = {} /\ quarantine[n] = {} /\ synced[n] = {}
      /\ synced[Peer(n)] = {} /\ open[n] = {} /\ open[Peer(n)] = {} /\ queue[n] = {}
      /\ stage[n] = "idle" /\ whole[n] = FALSE /\ watermark[n] = 0 /\ rollup[n] = 0
      /\ shareMark[n] = shareSeq[Peer(n)] /\ safe[n] = 0 /\ syncSeq[Peer(n)] = 0
      /\ syncMark[n] = [k \in Kinds |-> 0] /\ shareSeq[n] \in Nat /\ shareSeq[Peer(n)] \in Nat
  BY Pairs, <1>1 DEF Init, ShareTypes
<1>4. Raised(n, W) /\ OneCredit(n) /\ Scanned(n, W)
  BY SMTT(30), <1>2, <1>3 DEF Raised, OneCredit, Scanned
<1>5. Pulling(n) /\ Queued(n, W)
  BY <1>3 DEF Pulling, Queued
<1>6. Folding(n)
  <2>1. {r \in shares[n] : r.seq <= watermark[n]} = {}
    BY <1>3
  <2> QED BY SMTT(30), <1>3, <2>1, FS_EmptySet DEF Folding
<1>7. Numbered(n, W) /\ Ended(n, W) /\ Covered(n) /\ WindowHeld(n)
  BY SMTT(30), <1>3, FS_EmptySet DEF Numbered, Ended, Covered, WindowHeld, Theirs
<1> QED BY <1>4, <1>5, <1>6, <1>7

----------------------------------------------------------------------------
(* The streams in sync_seq order. *)

Applying == {"block_apply", "prepared_apply"}

LEMMA SyncNumbers ==
    ASSUME SyncTypes, NEW n \in Nodes, NEW k \in Kinds
    PROVE  syncMark[n][k] \in Nat /\ \A c \in Theirs(n, k) : c.sync \in Nat
<1>1. syncMark[n][k] \in Nat /\ Theirs(n, k) \subseteq SyncRecords
  BY Pairs DEF SyncTypes, Theirs
<1> QED BY <1>1 DEF SyncRecords

LEMMA RowsKept ==
    ASSUME NEW W, SyncInv(W), UNCHANGED <<shares, quarantine, synced, syncSeq, open>>, NEW m \in Nodes
    PROVE  Numbered(m, W)' /\ WindowHeld(m)'
<1>1. Numbered(m, W) /\ WindowHeld(m)
  BY DEF SyncInv
<1>2. Numbered(m, W)'
  BY <1>1 DEF Numbered
<1>3. WindowHeld(m)'
  BY <1>1 DEF WindowHeld
<1> QED BY <1>2, <1>3

LEMMA QueuedKept ==
    ASSUME NEW W, NEW m \in Nodes, Queued(m, W), stage'[m] = stage[m], whole'[m] = whole[m],
           queue'[m] = queue[m], safe'[m] = safe[m], syncMark'[m] = syncMark[m],
           \A b \in queue[m] : WindowCovered(b, shareMark[m]) => WindowCovered(b, shareMark'[m]),
           synced[m] \subseteq synced'[m], \A j \in Kinds : Theirs(m, j)' = Theirs(m, j)
    PROVE  Queued(m, W)'
<1>1. \A c : Pending(m, c) => Pending(m, c)'
  BY DEF Pending, Named
<1>2. ASSUME m \in W, NEW k \in Kinds, NEW b \in queue[m], b.kind = k
      PROVE  /\ b \in Theirs(m, k) /\ stage[m] = ApplyStage(k) /\ b.sync <= safe[m]
             /\ WindowCovered(b, shareMark'[m])
             /\ \A c \in Theirs(m, k) : syncMark[m][k] < c.sync /\ c.sync <= b.sync => Pending(m, c)'
  BY <1>1, <1>2 DEF Queued
<1>3. ASSUME m \in W, NEW k \in Kinds, stage[m] = ApplyStage(k), whole[m]
      PROVE  \A c \in Theirs(m, k) : syncMark[m][k] < c.sync /\ c.sync <= safe[m] => Pending(m, c)'
  BY <1>1, <1>3 DEF Queued
<1> QED BY SMTT(30), <1>2, <1>3 DEF Queued

(* A step that writes no row of them and moves no cursor of theirs. *)
LEMMA SyncKept ==
    ASSUME NEW W, PeerInv(W), ShareTypes', UNCHANGED <<synced, syncSeq, syncMark>>,
           open' \in [Nodes -> SUBSET SyncRecords], \A m \in Nodes : open'[m] \subseteq open[m],
           \A m \in Nodes : /\ shares[m] \subseteq shares'[m] /\ quarantine[m] \subseteq quarantine'[m]
                            /\ shareMark[m] <= shareMark'[m],
           \A m \in Nodes : \/ safe'[m] \in {safe[m], 0}
                            \/ open[Peer(m)] = {} /\ safe'[m] = syncSeq[Peer(m)],
           \A m \in Nodes : \/ /\ stage'[m] = stage[m] /\ whole'[m] = whole[m]
                               /\ queue'[m] = queue[m] /\ safe'[m] = safe[m]
                            \/ stage'[m] \notin Applying /\ (queue'[m] = {} \/ m \notin W)
    PROVE  SyncInv(W)'
<1>1. SyncTypes'
  BY DEF PeerInv, SyncInv, SyncTypes
<1> SUFFICES ASSUME NEW n \in Nodes
             PROVE  Numbered(n, W)' /\ Ended(n, W)' /\ Covered(n)' /\ Queued(n, W)' /\ WindowHeld(n)'
  BY <1>1 DEF SyncInv
<1>2. /\ Numbered(n, W) /\ Ended(n, W) /\ Covered(n) /\ Queued(n, W) /\ WindowHeld(n)
      /\ Peer(n) \in Nodes /\ syncSeq[Peer(n)] \in Nat
      /\ \A b \in open[Peer(n)] : b.sync \in Nat \ {0}
      /\ shareMark[n] \in Nat /\ shareMark'[n] \in Nat
      /\ \A b \in queue[n] : \A r \in b.window : r.seq \in Nat
  <2>1. /\ Peer(n) \in Nodes /\ syncSeq[Peer(n)] \in Nat /\ open[Peer(n)] \subseteq SyncRecords
        /\ shareMark[n] \in Nat /\ shareMark'[n] \in Nat /\ queue[n] \subseteq SyncRecords
    <3>1. SyncTypes /\ ShareTypes /\ PassTypes /\ Peer(n) \in Nodes
      BY Pairs DEF PeerInv, SyncInv, ShareInv
    <3> QED BY SMTT(30), <3>1 DEF SyncTypes, ShareTypes, PassTypes
  <2>2. \A b \in SyncRecords : b.sync \in Nat \ {0} /\ \A r \in b.window : r.seq \in Nat
    BY DEF SyncRecords, ShareRows
  <2>3. SyncInv(W)
    BY DEF PeerInv
  <2> QED BY <2>1, <2>2, <2>3 DEF SyncInv
<1>3. Numbered(n, W)'
  BY <1>2 DEF Numbered
<1>4. Ended(n, W)'
  BY SMTT(30), <1>2 DEF Ended
<1>5. Covered(n)'
  BY SMTT(30), <1>2 DEF Covered, Theirs
<1>6. WindowHeld(n)'
  BY <1>2 DEF WindowHeld
<1>7. Queued(n, W)'
  <2>1. \A k \in Kinds : ApplyStage(k) \in Applying /\ Theirs(n, k)' = Theirs(n, k)
    BY DEF ApplyStage, Applying, Theirs
  <2>2. CASE stage'[n] \notin Applying /\ (queue'[n] = {} \/ n \notin W)
    BY SMTT(30), <2>1, <2>2 DEF Queued
  <2>3. CASE /\ stage'[n] = stage[n] /\ whole'[n] = whole[n] /\ queue'[n] = queue[n]
             /\ safe'[n] = safe[n]
    <3>1. \A b \in queue[n] : WindowCovered(b, shareMark[n]) => WindowCovered(b, shareMark'[n])
      BY SMTT(30), <1>2 DEF WindowCovered
    <3> QED BY <1>2, <2>1, <2>3, <3>1, QueuedKept
  <2> QED BY <2>2, <2>3
<1> QED BY <1>3, <1>4, <1>5, <1>6, <1>7

(* The share stream, the writers of shares, the barrier and failures. *)
LEMMA ShareSteps ==
    ASSUME NEW W, PeerInv(W), ShareInv(W)', NEW n \in Nodes, n \in W \/ Sweep(n),
           \/ \E h \in Headers : Append(n, h)
           \/ AppendAborts(n) \/ Sweep(n) \/ ReadShares(n) \/ RaiseShareSequence(n)
           \/ CheckShares(n) \/ InsertShares(n) \/ CommitShares(n) \/ SyncBarrier(n)
           \/ StreamFails(n) \/ PassFails(n)
    PROVE  SyncInv(W)'
<1>1. ShareTypes' /\ ShareTypes /\ PassTypes /\ Queued(n, W) /\ Ended(n, W) /\ Peer(n) \in Nodes
  BY Pairs DEF ShareInv, PeerInv, SyncInv
<1>2. UNCHANGED <<synced, syncSeq, open, syncMark>> /\ open \in [Nodes -> SUBSET SyncRecords]
  BY DEF PeerInv, SyncInv, SyncTypes, Append, AppendAborts, Sweep, ReadShares, RaiseShareSequence, CheckShares, InsertShares,
         CommitShares, SyncBarrier, StreamFails, PassFails, dbVars
<1>3. /\ \A m \in Nodes : shares[m] \subseteq shares'[m] /\ quarantine[m] \subseteq quarantine'[m]
      /\ \A m \in Nodes : shareMark[m] <= shareMark'[m]
  <2>1. CASE CommitShares(n)
    <3>1. \A m \in Nodes : shares[m] \subseteq shares'[m] /\ quarantine[m] \subseteq quarantine'[m]
      BY <1>1, <2>1 DEF CommitShares, ShareTypes
    <3>2. /\ \A m \in Nodes : shareMark[m] \in Nat /\ Through(m) \in Nat
          /\ shareMark' = [shareMark EXCEPT ![n] = Greatest(@, Through(n))]
      BY <1>1, <2>1 DEF CommitShares, ShareTypes, PassTypes, Through
    <3>3. \A m \in Nodes : shareMark'[m] \in {shareMark[m], Greatest(shareMark[m], Through(m))}
      BY <1>1, <3>2 DEF ShareTypes
    <3>4. \A m \in Nodes : shareMark[m] <= shareMark'[m]
      BY SMTT(30), <3>2, <3>3 DEF Greatest
    <3> QED BY <3>1, <3>4
  <2>2. CASE UNCHANGED <<shareMark, quarantine>> /\ \A m \in Nodes : shares[m] \subseteq shares'[m]
    BY SMTT(30), <1>1, <2>2 DEF ShareTypes
  <2>3. CASE \E h \in Headers : Append(n, h)
    <3>1. UNCHANGED <<shareMark, quarantine>> /\ \A m \in Nodes : shares[m] \subseteq shares'[m]
      BY SMTT(30), <1>1, <2>3 DEF Append, ShareTypes
    <3> QED BY <2>2, <3>1
  <2>4. CASE UNCHANGED <<shareMark, quarantine, shares>>
    BY <2>2, <2>4
  <2> QED
    BY <2>1, <2>3, <2>4 DEF AppendAborts, Sweep, ReadShares, RaiseShareSequence, CheckShares,
       InsertShares, SyncBarrier, StreamFails, PassFails, dbVars
<1>4. CASE UNCHANGED passVars
  BY <1>1, <1>2, <1>3, <1>4, SyncKept DEF passVars
<1>5. ASSUME n \in W, NEW s \in Stages \ Applying, Goto(n, s),
             \/ safe' = safe \/ safe' = [safe EXCEPT ![n] = 0]
             \/ open[Peer(n)] = {} /\ safe' = [safe EXCEPT ![n] = syncSeq[Peer(n)]],
             \/ UNCHANGED <<queue, whole>> /\ stage[n] \notin Applying
             \/ queue' = [queue EXCEPT ![n] = {}] /\ whole' = [whole EXCEPT ![n] = FALSE]
      PROVE  SyncInv(W)'
  <2>1. stage'[n] = s /\ \A m \in Nodes \ {n} : stage'[m] = stage[m]
    BY <1>1, <1>5, PassTypesKept
  <2>2. /\ \A m \in Nodes \ {n} : safe'[m] = safe[m]
        /\ \/ safe'[n] \in {safe[n], 0}
           \/ open[Peer(n)] = {} /\ safe'[n] = syncSeq[Peer(n)]
    BY <1>1, <1>5 DEF PassTypes
  <2>3. stage[n] \notin Applying => queue[n] = {}
    <3>1. ASSUME NEW b \in queue[n] PROVE stage[n] \in Applying
      <4>1. b.kind \in Kinds
        BY SMTT(30), <1>1 DEF PassTypes, SyncRecords
      <4> QED BY <1>1, <1>5, <4>1 DEF Queued, ApplyStage, Applying
    <3> QED BY <3>1
  <2>4. /\ \A m \in Nodes \ {n} : queue'[m] = queue[m] /\ whole'[m] = whole[m]
        /\ queue'[n] = {}
    BY <1>1, <1>5, <2>3 DEF PassTypes
  <2> QED BY <1>1, <1>2, <1>3, <2>1, <2>2, <2>4, SyncKept
<1>6. CASE n \in W /\ SyncBarrier(n)
  <2>1. \/ BarrierMark(n) = safe[n]
        \/ open[Peer(n)] = {} /\ BarrierMark(n) = syncSeq[Peer(n)]
    BY DEF BarrierMark, Greatest
  <2>2. \/ safe' = safe
        \/ open[Peer(n)] = {} /\ safe' = [safe EXCEPT ![n] = syncSeq[Peer(n)]]
    BY <1>1, <1>6, <2>1 DEF SyncBarrier, PassTypes
  <2>3. {"idle", "block"} \subseteq Stages \ Applying /\ "barrier" \notin Applying
    BY DEF Stages, Applying
  <2> QED BY <1>5, <1>6, <2>2, <2>3 DEF SyncBarrier
<1>7. CASE n \in W /\ (StreamFails(n) \/ PassFails(n))
  <2>1. \E s \in {"idle", "barrier", "prepared"} : Goto(n, s)
    BY <1>7 DEF StreamFails, PassFails, NextStage
  <2>2. {"idle", "barrier", "prepared"} \subseteq Stages \ Applying
    BY DEF Stages, Applying
  <2> QED BY <1>5, <1>7, <2>1, <2>2 DEF StreamFails, PassFails, EndPass
<1>8. CASE /\ n \in W
           /\ \/ ReadShares(n) \/ RaiseShareSequence(n) \/ CheckShares(n) \/ InsertShares(n)
              \/ CommitShares(n)
  <2>1. /\ \E s \in {"raise", "check", "insert", "commit", "barrier"} : Goto(n, s)
        /\ stage[n] \in {"idle", "raise", "check", "insert", "commit"}
    BY <1>8 DEF ReadShares, RaiseShareSequence, CheckShares, InsertShares, CommitShares
  <2>2. /\ {"raise", "check", "insert", "commit", "barrier"} \subseteq Stages \ Applying
        /\ stage[n] \notin Applying
    BY <2>1 DEF Stages, Applying
  <2>3. UNCHANGED <<queue, whole, safe>>
    BY <1>8 DEF ReadShares, RaiseShareSequence, CheckShares, InsertShares, CommitShares
  <2> QED BY <1>5, <1>8, <2>1, <2>2, <2>3
<1> QED BY <1>4, <1>6, <1>7, <1>8 DEF Append, AppendAborts, Sweep

LEMMA LandsBegin ==
    ASSUME NEW W, PeerInv(W), NEW n \in Nodes, n \in W, NEW k \in Kinds, NEW i \in Ids, NEW w, LandBegin(n, k, i, w)
    PROVE  SyncInv(W)'
<1> DEFINE row == [sync |-> syncSeq[n] + 1, origin |-> n, kind |-> k, id |-> i, window |-> w]
           p == Peer(n)
<1>1. /\ syncSeq' = [syncSeq EXCEPT ![n] = @ + 1] /\ open' = [open EXCEPT ![n] = @ \cup {row}]
      /\ w \subseteq shares[n]
      /\ UNCHANGED <<shares, shareMark, quarantine, synced, syncMark, stage, queue, whole, safe>>
  BY DEF LandBegin, passVars
<1>2. /\ SyncTypes /\ shares[n] \subseteq ShareRows
      /\ p \in Nodes /\ p # n /\ Peer(p) = n /\ (\A m \in Nodes : m = n \/ m = p)
      /\ syncSeq[n] \in Nat /\ safe[p] \in Nat /\ syncSeq[p] \in Nat
      /\ \A j \in Kinds : syncMark[p][j] \in Nat
      /\ Numbered(n, W) /\ Numbered(p, W) /\ Ended(n, W) /\ Ended(p, W) /\ Queued(n, W) /\ Queued(p, W)
      /\ Covered(n) /\ Covered(p) /\ WindowHeld(n) /\ WindowHeld(p)
  BY Pairs DEF PeerInv, SyncInv, ShareInv, ShareTypes, SyncTypes, PassTypes
<1>3. /\ row \in SyncRecords /\ row.sync = syncSeq[n] + 1 /\ row.origin = n /\ row.window = w
  BY SMTT(30), <1>1, <1>2 DEF SyncRecords
<1> HIDE DEF row
<1>4. /\ open'[n] = open[n] \cup {row} /\ open'[p] = open[p]
      /\ syncSeq'[n] = syncSeq[n] + 1 /\ syncSeq'[p] = syncSeq[p]
  BY <1>1, <1>2 DEF SyncTypes
<1>5. SyncTypes'
  <2>1. open' \in [Nodes -> SUBSET SyncRecords]
    BY <1>1, <1>2, <1>3 DEF SyncTypes
  <2>2. syncSeq' \in [Nodes -> Nat]
    BY SMTT(30), <1>1, <1>2 DEF SyncTypes
  <2> QED BY <1>1, <1>2, <2>1, <2>2 DEF SyncTypes
<1>6. Numbered(n, W)'
  <2>1. \A b \in synced[n] \cup open[n] : b.sync \in Nat
    BY SMTT(30), <1>2 DEF SyncTypes, SyncRecords
  <2>2. \A b \in synced[n] \cup open[n] : b.origin = n => b.sync # row.sync /\ b.sync <= syncSeq'[n]
    BY SMTT(30), <1>2, <1>3, <1>4, <2>1 DEF Numbered
  <2>3. row.sync <= syncSeq'[n] /\ row.window \subseteq shares[n]
    BY SMTT(30), <1>1, <1>2, <1>3, <1>4
  <2>4. \A b \in synced'[n] \cup open'[n] : b \in synced[n] \cup open[n] \/ b = row
    BY <1>1, <1>4
  <2>5. /\ \A b \in open'[n] : b.origin = n
        /\ \A b \in synced'[n] \cup open'[n] :
             b.origin = n => /\ b.sync <= syncSeq'[n]
                             /\ b.window \subseteq shares'[n] \/ b \in synced'[p]
    BY <1>1, <1>2, <1>3, <1>4, <2>2, <2>3, <2>4 DEF Numbered
  <2>6. \A b, c \in synced'[n] \cup open'[n] :
          b.origin = n /\ c.origin = n /\ b.sync = c.sync => b = c
    BY <1>2, <2>2, <2>4 DEF Numbered
  <2> QED BY <1>1, <1>2, <2>5, <2>6 DEF Numbered
<1>7. Numbered(p, W)'
  BY <1>1, <1>2, <1>4 DEF Numbered
<1>8. Ended(n, W)'
  BY <1>1, <1>2, <1>4 DEF Ended
<1>9. Ended(p, W)'
  <2>1. /\ safe[p] <= syncSeq'[n] /\ safe[p] < row.sync
        /\ \A j \in Kinds : syncMark[p][j] <= syncSeq'[n] /\ syncMark[p][j] < row.sync
    BY SMTT(30), <1>2, <1>3, <1>4 DEF Ended
  <2> QED BY <1>1, <1>2, <1>4, <2>1 DEF Ended
<1>10. \A m \in Nodes : Covered(m)' /\ Queued(m, W)' /\ WindowHeld(m)'
  <2>1. \A m \in Nodes : WindowHeld(m)' /\ \A j \in Kinds : Theirs(m, j)' = Theirs(m, j)
    BY <1>1, <1>2 DEF WindowHeld, Theirs
  <2>2. \A m \in Nodes : Covered(m)'
    BY <1>1, <1>2, <2>1 DEF Covered
  <2>3. \A m \in Nodes : Queued(m, W)'
    BY <1>1, <1>2, <2>1, QueuedKept
  <2> QED BY <2>1, <2>2, <2>3
<1> QED BY <1>2, <1>5, <1>6, <1>7, <1>8, <1>9, <1>10 DEF SyncInv

LEMMA LandsEnd ==
    ASSUME NEW W, PeerInv(W), NEW n \in Nodes, n \in W, NEW b \in open[n], NEW committed \in BOOLEAN,
           LandEnd(n, b, committed)
    PROVE  SyncInv(W)'
<1> DEFINE p == Peer(n)
<1>1. /\ open' = [open EXCEPT ![n] = @ \ {b}]
      /\ synced' = [synced EXCEPT ![n] = IF committed THEN @ \cup {b} ELSE @]
      /\ UNCHANGED <<shares, shareMark, quarantine, syncSeq, syncMark, stage, queue, whole, safe>>
  BY DEF LandEnd, passVars
<1>2. /\ SyncTypes /\ p \in Nodes /\ p # n /\ Peer(p) = n /\ (\A m \in Nodes : m = n \/ m = p)
      /\ Numbered(n, W) /\ Numbered(p, W) /\ Ended(n, W) /\ Ended(p, W) /\ Queued(n, W) /\ Queued(p, W)
      /\ Covered(n) /\ Covered(p) /\ WindowHeld(n) /\ WindowHeld(p)
      /\ safe[p] \in Nat /\ \A j \in Kinds : syncMark[p][j] \in Nat
  BY Pairs DEF PeerInv, SyncInv, ShareInv, SyncTypes, PassTypes
<1>3. /\ b \in SyncRecords /\ b.origin = n /\ b.sync \in Nat /\ safe[p] < b.sync
      /\ \A j \in Kinds : syncMark[p][j] < b.sync
  <2>1. b \in SyncRecords /\ b.origin = n
    BY <1>2 DEF SyncTypes, Numbered
  <2>2. safe[p] < b.sync /\ \A j \in Kinds : syncMark[p][j] < b.sync
    BY <1>2 DEF Ended
  <2> QED BY <2>1, <2>2 DEF SyncRecords
<1>4. /\ open'[n] = open[n] \ {b} /\ open'[p] = open[p] /\ synced'[p] = synced[p]
      /\ synced'[n] = synced[n] \/ synced'[n] = synced[n] \cup {b}
  BY <1>1, <1>2 DEF SyncTypes
<1>5. SyncTypes'
  <2>1. synced' \in [Nodes -> SUBSET SyncRecords]
    BY <1>1, <1>2, <1>3 DEF SyncTypes
  <2>2. open' \in [Nodes -> SUBSET SyncRecords]
    BY <1>1, <1>2 DEF SyncTypes
  <2> QED BY <1>1, <1>2, <2>1, <2>2 DEF SyncTypes
<1>6. Numbered(n, W)'
  <2>1. IsFiniteSet(synced'[n])
    <3>1. IsFiniteSet(synced[n])
      BY <1>2 DEF Numbered
    <3>2. IsFiniteSet(synced[n] \cup {b})
      BY <3>1, FS_AddElement
    <3> QED BY <1>4, <3>1, <3>2
  <2>2. synced'[n] \cup open'[n] \subseteq synced[n] \cup open[n]
    BY <1>4
  <2>3. \A c \in synced'[n] : c.origin # n => c \in synced[n]
    BY <1>3, <1>4
  <2> QED BY <1>1, <1>2, <1>4, <2>1, <2>2, <2>3 DEF Numbered
<1>7. Numbered(p, W)'
  BY <1>1, <1>2, <1>4 DEF Numbered
<1>8. Ended(n, W)' /\ Ended(p, W)'
  BY <1>1, <1>2, <1>4 DEF Ended
<1>9. /\ \A j \in Kinds : Theirs(n, j)' = Theirs(n, j)
      /\ \A j \in Kinds : \A c \in Theirs(p, j)' : c \in Theirs(p, j) \/ c = b
  BY <1>2, <1>4 DEF Theirs
<1>10. Covered(n)' /\ Queued(n, W)'
  <2>1. Covered(n)'
    BY SMTT(30), <1>1, <1>2, <1>4, <1>9 DEF Covered, Named
  <2>2. Queued(n, W)'
    BY <1>1, <1>2, <1>4, <1>9, QueuedKept
  <2> QED BY <2>1, <2>2
<1>11. Covered(p)'
  <2>1. \A j \in Kinds : ~(b.sync <= syncMark[p][j])
    BY SMTT(30), <1>2, <1>3
  <2> QED BY <1>1, <1>2, <1>4, <1>9, <2>1 DEF Covered
<1>12. Queued(p, W)'
  <2>1. ~(b.sync <= safe[p])
    BY SMTT(30), <1>2, <1>3
  <2>2. \A c \in queue[p] : c.sync \in Nat
    <3>1. queue[p] \subseteq SyncRecords
      BY <1>2 DEF PeerInv, ShareInv, PassTypes
    <3> QED BY <3>1 DEF SyncRecords
  <2>3. \A c \in queue[p] : c.sync <= safe[p] => ~(b.sync <= c.sync)
    BY SMTT(30), <1>2, <1>3, <2>2
  <2>4. \A j \in Kinds : Theirs(p, j) \subseteq Theirs(p, j)'
    BY <1>2, <1>4 DEF Theirs
  <2>5. \A c : Pending(p, c)' = Pending(p, c)
    BY <1>1, <1>4 DEF Pending
  <2> QED BY <1>1, <1>2, <1>9, <2>1, <2>3, <2>4, <2>5 DEF Queued
<1>13. WindowHeld(n)' /\ WindowHeld(p)'
  BY <1>1, <1>2, <1>3, <1>4 DEF WindowHeld
<1> QED BY <1>2, <1>5, <1>6, <1>7, <1>8, <1>10, <1>11, <1>12, <1>13 DEF SyncInv

LEMMA LeastRow ==
    ASSUME NEW S, S # {}, \A b \in S : b.sync \in Nat
    PROVE  \E b \in S : \A c \in S : b.sync <= c.sync
<1> DEFINE T == {b.sync : b \in S}
<1>1. T \subseteq Nat /\ T # {}
  OBVIOUS
<1>2. PICK x \in T : \A y \in T : ~(<<y, x>> \in OpToRel(<, Nat))
  <2> HIDE DEF T
  <2> QED BY <1>1, NatLessThanWellFounded, WFMin
<1>3. \A y \in T : ~(y < x)
  BY <1>1, <1>2 DEF OpToRel
<1>4. PICK b \in S : b.sync = x
  BY <1>2
<1>5. \A c \in S : c.sync \in T
  OBVIOUS
<1> HIDE DEF T
<1> QED BY SMTT(30), <1>3, <1>4, <1>5

(* The rows read are the first ones, and all of them when they are few. *)
Before(due, s) == {c \in due : c.sync < s}
Read(due) == {b \in due : Cardinality(Before(due, b.sync)) < SyncLimit}
LEMMA ReadsFirst ==
    ASSUME NEW due, IsFiniteSet(due), \A b \in due : b.sync \in Nat
    PROVE  /\ \A b \in Read(due), c \in due : c.sync <= b.sync => c \in Read(due)
           /\ Cardinality(Read(due)) < SyncLimit => Read(due) = due
<1>1. SyncLimit \in Nat
  BY StreamsAssumption
<1>2. \A s : IsFiniteSet(Before(due, s)) /\ Cardinality(Before(due, s)) \in Nat
  <2> TAKE s
  <2>1. Before(due, s) \subseteq due
    BY DEF Before
  <2>2. IsFiniteSet(Before(due, s))
    BY <2>1, FS_Subset
  <2> QED BY <2>2, FS_CardinalityType
<1>3. IsFiniteSet(Read(due)) /\ Cardinality(Read(due)) \in Nat
  <2>1. Read(due) \subseteq due
    BY DEF Read
  <2>2. IsFiniteSet(Read(due))
    BY <2>1, FS_Subset
  <2> QED BY <2>2, FS_CardinalityType
<1>4. ASSUME NEW b \in Read(due), NEW c \in due, c.sync <= b.sync
      PROVE  c \in Read(due)
  <2>1. b \in due /\ Cardinality(Before(due, b.sync)) < SyncLimit
    BY DEF Read
  <2>2. Before(due, c.sync) \subseteq Before(due, b.sync)
    BY SMTT(30), <1>4, <2>1 DEF Before
  <2>3. Cardinality(Before(due, c.sync)) <= Cardinality(Before(due, b.sync))
    BY <1>2, <2>2, FS_Subset
  <2>4. Cardinality(Before(due, c.sync)) < SyncLimit
    BY SMTT(30), <1>1, <1>2, <2>1, <2>3
  <2> QED BY <2>4 DEF Read
<1>5. ASSUME Cardinality(Read(due)) < SyncLimit, due \ Read(due) # {}
      PROVE  FALSE
  <2>1. PICK d \in due \ Read(due) : \A c \in due \ Read(due) : d.sync <= c.sync
    BY <1>5, LeastRow
  <2>2. Before(due, d.sync) \subseteq Read(due)
    BY SMTT(30), <2>1 DEF Before
  <2>3. Cardinality(Before(due, d.sync)) <= Cardinality(Read(due))
    BY <1>3, <2>2, FS_Subset
  <2>4. Cardinality(Before(due, d.sync)) < SyncLimit
    BY SMTT(30), <1>1, <1>2, <1>3, <1>5, <2>3
  <2> QED BY <2>1, <2>4 DEF Read
<1>6. Read(due) \subseteq due
  BY DEF Read
<1> QED BY <1>4, <1>5, <1>6

LEMMA ApplyStages ==
    ASSUME NEW k \in Kinds, NEW j \in Kinds, ApplyStage(k) = ApplyStage(j)
    PROVE  k = j
  BY SMTT(30) DEF Kinds, ApplyStage

LEMMA ReadsSync ==
    ASSUME NEW W, PeerInv(W), NEW n \in Nodes, n \in W, NEW k \in Kinds, ReadSync(n, k)
    PROVE  SyncInv(W)'
<1> DEFINE p == Peer(n)
           due == {b \in synced[p] : /\ b.origin = p /\ b.kind = k
                                     /\ syncMark[n][k] < b.sync /\ b.sync <= safe[n]}
           covered == {b \in Read(due) : \A c \in Read(due) :
                                   c.sync <= b.sync => WindowCovered(c, shareMark[n])}
<1>1. /\ queue' = [queue EXCEPT ![n] = covered] /\ Goto(n, ApplyStage(k))
      /\ whole' = [whole EXCEPT ![n] = covered = Read(due) /\ Cardinality(Read(due)) < SyncLimit]
      /\ UNCHANGED <<shares, shareMark, quarantine, synced, syncSeq, open, syncMark, safe>>
  BY DEF ReadSync, dbVars, Read, Before
<1>2. /\ SyncTypes /\ PassTypes /\ p \in Nodes /\ p # n /\ (\A m \in Nodes : m = n \/ m = p)
      /\ Numbered(n, W) /\ Numbered(p, W) /\ Queued(p, W) /\ ApplyStage(k) \in Stages
  BY Pairs DEF PeerInv, SyncInv, ShareInv, ApplyStage, Stages
<1>3. IsFiniteSet(due) /\ (\A b \in due : b.sync \in Nat)
  <2>1. IsFiniteSet(synced[p]) /\ due \subseteq synced[p]
    BY <1>2 DEF Numbered
  <2>2. synced[p] \subseteq SyncRecords
    BY <1>2 DEF SyncTypes
  <2>3. IsFiniteSet(due)
    <3> HIDE DEF due
    <3> QED BY <2>1, FS_Subset
  <2> QED BY <2>2, <2>3 DEF SyncRecords
<1>4. /\ \A b \in due : /\ b \in Theirs(n, k) /\ b.kind = k /\ b.sync <= safe[n]
      /\ \A c \in Theirs(n, k) : syncMark[n][k] < c.sync /\ c.sync <= safe[n] => c \in due
      /\ safe[n] \in Nat
  BY <1>2 DEF Theirs, PassTypes
<1> HIDE DEF due
<1>5. /\ \A b \in Read(due), c \in due : c.sync <= b.sync => c \in Read(due)
      /\ Cardinality(Read(due)) < SyncLimit => Read(due) = due
  BY <1>3, ReadsFirst
<1>6. /\ queue'[n] = covered /\ queue'[p] = queue[p]
      /\ whole'[p] = whole[p] /\ stage'[n] = ApplyStage(k) /\ stage'[p] = stage[p]
  BY <1>1, <1>2, PassTypesKept DEF PassTypes
<1>7. whole'[n] => covered = due
  <2>1. whole'[n] = (covered = Read(due) /\ Cardinality(Read(due)) < SyncLimit)
    BY <1>1, <1>2 DEF PassTypes
  <2> HIDE DEF covered
  <2> QED BY <1>5, <2>1
<1>8. \A b \in covered : b \in due /\ WindowCovered(b, shareMark[n])
  BY SMTT(30), <1>3 DEF Read
<1>9. ASSUME NEW b \in covered, NEW c \in due, c.sync <= b.sync
      PROVE  c \in covered
  <2>1. b \in Read(due) /\ c \in Read(due) /\ b \in due
    BY <1>5, <1>9 DEF Read
  <2>2. \A d \in Read(due) : d.sync <= c.sync => d.sync <= b.sync
    BY SMTT(30), <1>3, <1>9, <2>1 DEF Read
  <2> QED BY <1>9, <2>1, <2>2
<1>10. \A m \in Nodes, j \in Kinds : Theirs(m, j)' = Theirs(m, j)
  BY <1>1 DEF Theirs
<1> HIDE DEF covered
<1>11. Queued(n, W)'
  <2> SUFFICES ASSUME NEW j \in Kinds
      PROVE
        /\ \A b \in covered : b.kind = j =>
             /\ b \in Theirs(n, j) /\ ApplyStage(k) = ApplyStage(j) /\ b.sync <= safe[n]
             /\ WindowCovered(b, shareMark[n])
             /\ \A c \in Theirs(n, j) : syncMark[n][j] < c.sync /\ c.sync <= b.sync => c \in covered
        /\ ApplyStage(k) = ApplyStage(j) /\ whole'[n] =>
             \A c \in Theirs(n, j) : syncMark[n][j] < c.sync /\ c.sync <= safe[n] => c \in covered
    <3>1. \A c \in covered : Pending(n, c)'
      BY <1>6 DEF Pending
    <3> QED BY <1>1, <1>6, <1>10, <3>1 DEF Queued
  <2>1. ASSUME NEW b \in covered, b.kind = j
        PROVE  /\ b \in Theirs(n, j) /\ ApplyStage(k) = ApplyStage(j) /\ b.sync <= safe[n]
               /\ WindowCovered(b, shareMark[n])
               /\ \A c \in Theirs(n, j) : syncMark[n][j] < c.sync /\ c.sync <= b.sync => c \in covered
    <3>1. b \in due /\ j = k
      BY <1>4, <1>8, <2>1
    <3>2. ASSUME NEW c \in Theirs(n, k), syncMark[n][k] < c.sync, c.sync <= b.sync
          PROVE  c \in due
      <4>1. c.sync \in Nat
        BY SMTT(30), <1>2 DEF Theirs, SyncTypes, SyncRecords
      <4>2. c.sync <= safe[n]
        BY SMTT(30), <1>3, <1>4, <3>1, <3>2, <4>1
      <4> QED BY <1>4, <3>2, <4>2
    <3> QED BY <1>4, <1>8, <1>9, <3>1, <3>2
  <2>2. ASSUME ApplyStage(k) = ApplyStage(j), whole'[n]
        PROVE  \A c \in Theirs(n, j) : syncMark[n][j] < c.sync /\ c.sync <= safe[n] => c \in covered
    BY <1>4, <1>7, <2>2, ApplyStages
  <2> QED BY <2>1, <2>2
<1>12. Queued(p, W)'
  BY <1>1, <1>2, <1>6, <1>10, QueuedKept
<1>13. SyncTypes' /\ \A m \in Nodes : Numbered(m, W)' /\ Ended(m, W)' /\ Covered(m)' /\ WindowHeld(m)'
  <2>1. \A m \in Nodes : Numbered(m, W)' /\ Ended(m, W)' /\ WindowHeld(m)'
    BY <1>1, RowsKept DEF PeerInv, SyncInv, Ended
  <2>2. \A m \in Nodes : Covered(m)'
    BY <1>1, <1>10 DEF PeerInv, SyncInv, Covered
  <2> QED BY <1>1, <1>2, <2>1, <2>2 DEF SyncTypes
<1> QED BY <1>2, <1>11, <1>12, <1>13 DEF SyncInv

(* The least row in hand is the next one of its stream. *)
LEMMA AppliesSync ==
    ASSUME NEW W, PeerInv(W), NEW n \in Nodes, n \in W, NEW b \in queue[n], ApplySync(n, b)
    PROVE  SyncInv(W)'
<1> DEFINE p == Peer(n)
           k == b.kind
<1>1. /\ \A c \in queue[n] : b.sync <= c.sync
      /\ synced' = [synced EXCEPT ![n] = IF Named(@, k, b.id) = {} THEN @ \cup {b} ELSE @]
      /\ syncMark' = [syncMark EXCEPT ![n][k] = Greatest(@, b.sync)]
      /\ queue' = [queue EXCEPT ![n] = @ \ {b}]
      /\ UNCHANGED <<shares, shareMark, quarantine, syncSeq, open, stage, whole, safe>>
  BY DEF ApplySync
<1>2. /\ SyncTypes /\ PassTypes /\ p \in Nodes /\ p # n /\ Peer(p) = n
      /\ (\A m \in Nodes : m = n \/ m = p)
      /\ Numbered(n, W) /\ Numbered(p, W) /\ Ended(n, W) /\ Ended(p, W) /\ Queued(n, W) /\ Queued(p, W)
      /\ Covered(n) /\ Covered(p) /\ WindowHeld(n) /\ WindowHeld(p)
      /\ Raised(p, W) /\ Scanned(n, W)
  BY Pairs DEF PeerInv, SyncInv, ShareInv
<1>3. /\ b \in SyncRecords /\ k \in Kinds /\ b.sync \in Nat
      /\ b \in Theirs(n, k) /\ stage[n] = ApplyStage(k) /\ b.sync <= safe[n]
      /\ WindowCovered(b, shareMark[n])
  <2>1. b \in SyncRecords /\ k \in Kinds /\ b.sync \in Nat
    BY SMTT(30), <1>2 DEF PassTypes, SyncRecords
  <2> QED BY <1>2, <2>1 DEF Queued
<1>4. b \in synced[p] /\ b.origin = p
  BY <1>3 DEF Theirs
<1>5. /\ synced'[p] = synced[p] /\ queue'[n] = queue[n] \ {b} /\ queue'[p] = queue[p]
      /\ synced[n] \subseteq synced'[n] /\ (\A c \in synced'[n] : c \in synced[n] \/ c = b)
      /\ Named(synced'[n], k, b.id) # {}
  <2>1. /\ synced'[p] = synced[p] /\ queue'[n] = queue[n] \ {b} /\ queue'[p] = queue[p]
        /\ synced'[n] = IF Named(synced[n], k, b.id) = {} THEN synced[n] \cup {b} ELSE synced[n]
    BY <1>1, <1>2 DEF SyncTypes, PassTypes
  <2> QED BY <2>1 DEF Named
<1>6. /\ syncMark'[p] = syncMark[p] /\ syncMark'[n][k] = Greatest(syncMark[n][k], b.sync)
      /\ \A j \in Kinds \ {k} : syncMark'[n][j] = syncMark[n][j]
  BY <1>1, <1>2, <1>3 DEF SyncTypes
<1>7. /\ \A j \in Kinds : syncMark[n][j] \in Nat
      /\ syncMark'[n][k] \in Nat /\ syncMark[n][k] <= syncMark'[n][k] /\ b.sync <= syncMark'[n][k]
      /\ syncMark'[n][k] \in {syncMark[n][k], b.sync}
  <2>1. \A j \in Kinds : syncMark[n][j] \in Nat
    BY <1>2, SyncNumbers
  <2> QED BY <1>3, <1>6, <2>1, GreatestOf
<1>8. SyncTypes'
  <2>1. synced' \in [Nodes -> SUBSET SyncRecords]
    BY <1>1, <1>2, <1>3 DEF SyncTypes
  <2>2. syncMark' \in [Nodes -> [Kinds -> Nat]]
    <3>1. Greatest(syncMark[n][k], b.sync) \in Nat
      BY <1>6, <1>7
    <3> QED BY <1>1, <1>2, <1>3, <3>1 DEF SyncTypes
  <2> QED BY <1>1, <1>2, <2>1, <2>2 DEF SyncTypes
<1>9. Numbered(n, W)'
  <2>1. IsFiniteSet(synced'[n])
    <3>1. IsFiniteSet(synced[n])
      BY <1>2 DEF Numbered
    <3>2. IsFiniteSet(synced[n] \cup {b})
      BY <3>1, FS_AddElement
    <3>3. synced'[n] \subseteq synced[n] \cup {b}
      BY <1>5
    <3> QED BY <3>2, <3>3, FS_Subset
  <2>2. \A c \in synced'[n] : c \in synced[n] \/ c \in synced'[p]
    BY <1>4, <1>5
  <2>3. \A c \in synced'[n] \cup open'[n] : c.origin = n => c \in synced[n] \cup open[n]
    BY <1>1, <1>2, <1>4, <1>5
  <2>4. \A c \in synced'[n] \cup open'[n] :
          c.origin = n => c.sync <= syncSeq'[n] /\ (c.window \subseteq shares'[n] \/ c \in synced'[p])
    BY <1>1, <1>2, <1>5, <2>3 DEF Numbered
  <2>5. \A c, d \in synced'[n] \cup open'[n] :
          c.origin = n /\ d.origin = n /\ c.sync = d.sync => c = d
    BY <1>2, <2>3 DEF Numbered
  <2>6. p \in W => \A c \in synced'[n] : c.origin # n => c \in synced'[p]
    BY <1>2, <1>5, <2>2 DEF Numbered
  <2>7. \A c \in open'[n] : c.origin = n
    BY <1>1, <1>2 DEF Numbered
  <2> QED BY <2>1, <2>4, <2>5, <2>6, <2>7 DEF Numbered
<1>10. Numbered(p, W)'
  BY <1>1, <1>2, <1>5 DEF Numbered
<1>11. Ended(n, W)' /\ Ended(p, W)'
  <2>1. /\ safe[n] \in Nat /\ syncSeq[p] \in Nat /\ \A c \in open[p] : c.sync \in Nat
    BY SMTT(30), <1>2 DEF SyncTypes, PassTypes, SyncRecords
  <2>2. /\ p \in W => syncMark'[n][k] <= syncSeq[p]
        /\ \A c \in open[p] : syncMark'[n][k] < c.sync
    <3>1. safe[n] <= syncSeq[p] /\ (p \in W => syncMark[n][k] <= syncSeq[p])
      BY <1>2, <1>3 DEF Ended
    <3>2. \A c \in open[p] : safe[n] < c.sync /\ syncMark[n][k] < c.sync
      BY <1>2, <1>3 DEF Ended
    <3> QED BY SMTT(30), <1>3, <1>7, <2>1, <3>1, <3>2
  <2>3. Ended(n, W)'
    BY <1>1, <1>2, <1>3, <1>6, <2>2 DEF Ended
  <2> QED BY <1>1, <1>2, <1>6, <2>3 DEF Ended
<1>12. \A j \in Kinds : Theirs(n, j)' = Theirs(n, j) /\ Theirs(p, j)' = Theirs(p, j)
  BY <1>2, <1>4, <1>5 DEF Theirs
<1>13. ASSUME NEW c \in Theirs(n, k), syncMark[n][k] < c.sync, c.sync <= b.sync
       PROVE  c = b \/ Named(synced[n], k, c.id) # {}
  <2> SUFFICES ASSUME Named(synced[n], k, c.id) = {} PROVE c = b
    OBVIOUS
  <2>1. c \in queue[n]
    <3>1. c.kind = k
      BY DEF Theirs
    <3>2. Pending(n, c)
      BY <1>2, <1>3, <1>13 DEF Queued
    <3> QED BY <3>1, <3>2 DEF Pending
  <2>2. c.sync \in Nat /\ b.sync <= c.sync /\ c \in synced[p] /\ c.origin = p
    BY <1>1, <1>2, <1>3, <1>13, <2>1, SyncNumbers DEF Theirs
  <2>3. c.sync = b.sync
    BY SMTT(30), <1>3, <1>13, <2>2
  <2> QED BY <1>2, <1>4, <2>2, <2>3 DEF Numbered
<1>14. Covered(n)'
  <2> SUFFICES ASSUME NEW j \in Kinds, NEW c \in Theirs(n, j), c.sync <= syncMark'[n][j]
               PROVE  Named(synced'[n], j, c.id) # {}
    BY <1>12 DEF Covered
  <2>1. CASE c.sync <= syncMark[n][j]
    BY <1>2, <1>5, <2>1 DEF Covered, Named
  <2>2. CASE ~(c.sync <= syncMark[n][j])
    <3>1. c.sync \in Nat /\ j = k
      BY <1>2, <1>6, <2>2, SyncNumbers
    <3>2. syncMark[n][k] < c.sync /\ c.sync <= b.sync
      BY SMTT(30), <1>3, <1>7, <2>2, <3>1
    <3>3. c = b \/ Named(synced[n], k, c.id) # {}
      BY <1>13, <3>1, <3>2
    <3> QED BY <1>5, <3>1, <3>3 DEF Named
  <2> QED BY <2>1, <2>2
<1>15. Covered(p)' /\ Queued(p, W)'
  <2>1. Covered(p)'
    BY <1>2, <1>5, <1>6, <1>12 DEF Covered
  <2>2. Queued(p, W)'
    BY <1>1, <1>2, <1>5, <1>6, <1>12, QueuedKept
  <2> QED BY <2>1, <2>2
<1>16. Queued(n, W)'
  <2>1. \A c \in Theirs(n, k) :
          c.sync \in Nat /\ (syncMark'[n][k] < c.sync => c # b /\ syncMark[n][k] < c.sync)
    <3>1. \A c \in Theirs(n, k) : c.sync \in Nat
      BY <1>2, <1>3, SyncNumbers
    <3> QED BY SMTT(30), <1>3, <1>7, <3>1
  <2> SUFFICES ASSUME NEW j \in Kinds
      PROVE
        /\ \A e \in queue[n] \ {b} : e.kind = j =>
             /\ e \in Theirs(n, j) /\ stage[n] = ApplyStage(j) /\ e.sync <= safe[n]
             /\ WindowCovered(e, shareMark[n])
             /\ \A c \in Theirs(n, j) :
                  syncMark'[n][j] < c.sync /\ c.sync <= e.sync => Pending(n, c)'
        /\ stage[n] = ApplyStage(j) /\ whole[n] =>
             \A c \in Theirs(n, j) :
               syncMark'[n][j] < c.sync /\ c.sync <= safe[n] => Pending(n, c)'
    BY SMTT(30), <1>1, <1>5, <1>12 DEF Queued
  <2>4. \A c : c # b /\ Pending(n, c) => Pending(n, c)'
    BY <1>5 DEF Pending, Named
  <2>2. CASE j = k
    BY <1>2, <2>1, <2>2, <2>4 DEF Queued
  <2>3. CASE j # k
    <3>1. stage[n] # ApplyStage(j)
      BY <1>3, <2>3, ApplyStages
    <3> QED BY <1>2, <3>1 DEF Queued
  <2> QED BY <2>2, <2>3
<1>17. WindowHeld(n)'
  <2>1. \/ b \in synced[n]
        \/ b.window \subseteq shares[p] /\ \A r \in b.window : r.seq <= shareMark[n]
    BY <1>2, <1>3, <1>4 DEF Numbered, WindowCovered
  <2>2. b.window \subseteq shares[n] \cup quarantine[n]
    <3> SUFFICES ASSUME b \notin synced[n] PROVE b.window \subseteq shares[n] \cup quarantine[n]
      BY <1>2, <1>4 DEF WindowHeld
    <3>1. \A r \in b.window : r.origin \in Nodes
      BY <1>3 DEF SyncRecords, ShareRows
    <3>2. \A r \in b.window : r.origin # p => r \in shares[n]
      BY <1>2, <2>1 DEF Raised
    <3> QED BY <1>2, <2>1, <3>2 DEF Scanned
  <2> QED BY <1>1, <1>2, <1>5, <2>2 DEF WindowHeld
<1>18. WindowHeld(p)'
  BY <1>1, <1>2, <1>5 DEF WindowHeld
<1> QED BY <1>2, <1>8, <1>9, <1>10, <1>11, <1>14, <1>15, <1>16, <1>17, <1>18 DEF SyncInv

LEMMA SettlesSync ==
    ASSUME NEW W, PeerInv(W), NEW n \in Nodes, n \in W, NEW k \in Kinds, SettleSync(n, k)
    PROVE  SyncInv(W)'
<1> DEFINE p == Peer(n)
<1>1. /\ stage[n] = ApplyStage(k) /\ queue[n] = {}
      /\ syncMark' = IF whole[n] THEN [syncMark EXCEPT ![n][k] = Greatest(@, safe[n])] ELSE syncMark
      /\ whole' = [whole EXCEPT ![n] = FALSE] /\ Goto(n, NextStage(stage[n]))
      /\ UNCHANGED <<shares, shareMark, quarantine, synced, syncSeq, open, queue, safe>>
  BY DEF SettleSync
<1>2. /\ SyncTypes /\ PassTypes /\ p \in Nodes /\ p # n /\ (\A m \in Nodes : m = n \/ m = p)
      /\ Ended(n, W) /\ Ended(p, W) /\ Queued(n, W) /\ Queued(p, W) /\ Covered(n) /\ Covered(p)
      /\ \A m \in Nodes, j \in Kinds : syncMark[m][j] \in Nat
      /\ safe[n] \in Nat /\ syncSeq[p] \in Nat
  BY Pairs DEF PeerInv, SyncInv, ShareInv, SyncTypes, PassTypes
<1>3. /\ NextStage(stage[n]) \in Stages
      /\ \A j \in Kinds : NextStage(stage[n]) # ApplyStage(j)
  BY DEF NextStage, ApplyStage, Stages
<1>4. /\ whole'[p] = whole[p] /\ stage'[p] = stage[p] /\ queue'[n] = {}
      /\ \A j \in Kinds : stage'[n] # ApplyStage(j)
  BY <1>1, <1>2, <1>3, PassTypesKept DEF PassTypes
<1>5. Greatest(syncMark[n][k], safe[n]) \in Nat
  BY <1>2, GreatestOf
<1>6. /\ SyncTypes'
      /\ syncMark'[p] = syncMark[p] /\ \A j \in Kinds \ {k} : syncMark'[n][j] = syncMark[n][j]
      /\ \/ syncMark'[n][k] = syncMark[n][k]
         \/ whole[n] /\ syncMark'[n][k] = Greatest(syncMark[n][k], safe[n])
  <2>1. CASE whole[n] /\ syncMark' = [syncMark EXCEPT ![n][k] = Greatest(@, safe[n])]
    <3>1. syncMark' \in [Nodes -> [Kinds -> Nat]]
      BY <1>2, <1>5, <2>1 DEF SyncTypes
    <3>2. /\ syncMark'[p] = syncMark[p] /\ \A j \in Kinds \ {k} : syncMark'[n][j] = syncMark[n][j]
          /\ syncMark'[n][k] = Greatest(syncMark[n][k], safe[n])
      BY <1>2, <2>1 DEF SyncTypes
    <3> QED BY <1>1, <1>2, <2>1, <3>1, <3>2 DEF SyncTypes
  <2>2. CASE syncMark' = syncMark
    BY <1>1, <1>2, <2>2 DEF SyncTypes
  <2> QED BY <1>1, <2>1, <2>2
<1>7. \/ syncMark'[n][k] = syncMark[n][k]
      \/ whole[n] /\ syncMark'[n][k] = safe[n]
  BY <1>6 DEF Greatest
<1>8. Ended(n, W)' /\ Ended(p, W)'
  <2>1. Ended(n, W)'
    BY <1>1, <1>2, <1>6, <1>7 DEF Ended
  <2> QED BY <1>1, <1>2, <1>6, <2>1 DEF Ended
<1>9. \A m \in Nodes, j \in Kinds : Theirs(m, j)' = Theirs(m, j)
  BY <1>1 DEF Theirs
<1>10. Covered(n)'
  <2> SUFFICES ASSUME NEW j \in Kinds, NEW c \in Theirs(n, j), c.sync <= syncMark'[n][j]
               PROVE  Named(synced[n], j, c.id) # {}
    BY <1>1, <1>9 DEF Covered
  <2>1. CASE c.sync <= syncMark[n][j]
    BY <1>2, <2>1 DEF Covered
  <2>2. CASE ~(c.sync <= syncMark[n][j])
    <3>1. c.sync \in Nat /\ syncMark[n][j] < c.sync
      <4>1. c.sync \in Nat /\ syncMark[n][j] \in Nat
        BY <1>2, SyncNumbers
      <4> QED BY SMTT(30), <2>2, <4>1
    <3>2. j = k /\ whole[n] /\ c.sync <= safe[n]
      BY <1>6, <1>7, <2>2
    <3>3. Pending(n, c)
      BY <1>1, <1>2, <3>1, <3>2 DEF Queued
    <3>4. c.kind = j /\ queue[n] = {}
      BY <1>1 DEF Theirs
    <3> QED BY <3>3, <3>4 DEF Pending
  <2> QED BY <2>1, <2>2
<1>11. Covered(p)'
  BY <1>1, <1>2, <1>6, <1>9 DEF Covered
<1>12. Queued(n, W)' /\ Queued(p, W)'
  <2>1. Queued(n, W)'
    BY <1>4 DEF Queued
  <2> QED BY <1>1, <1>2, <1>4, <1>6, <1>9, <2>1, QueuedKept
<1>13. \A m \in Nodes : Numbered(m, W)' /\ WindowHeld(m)'
  BY <1>1, RowsKept DEF PeerInv
<1> QED BY <1>2, <1>6, <1>8, <1>10, <1>11, <1>12, <1>13 DEF SyncInv

----------------------------------------------------------------------------
LEMMA PeerStutters ==
    ASSUME NEW W, PeerInv(W), UNCHANGED streamVars
    PROVE  PeerInv(W)'
<1> USE DEF PeerInv
<1>1. UNCHANGED <<shares, shareSeq, shareMark, refused, quarantine, synced, syncSeq, open, syncMark,
                  watermark, rollup, stage, batch, fresh, queue, whole, safe>>
  BY DEF streamVars, dbVars, passVars
<1>2. PassTypes'
  BY <1>1 DEF ShareInv, PassTypes
<1>3. ShareInv(W)'
  <2>1. 0 \in Nodes
    BY DEF Nodes
  <2> QED BY <1>1, <1>2, <2>1, OtherStages
<1>4. \A m \in Nodes : shareMark[m] \in Nat /\ shareMark[m] <= shareMark'[m]
  BY SMTT(30), <1>1 DEF ShareInv, ShareTypes
<1>5. SyncInv(W)'
  BY <1>1, <1>3, <1>4, SyncKept DEF ShareInv, SyncInv, SyncTypes
<1> QED BY <1>3, <1>5

(* A node whose log is whole writes and pulls; any node is swept. *)
LEMMA PeerSteps ==
    ASSUME NEW W, PeerInv(W), NEW n \in Nodes,
           \/ Sweep(n)
           \/ /\ n \in W
              /\ Write(n) \/ EndLanding(n) \/ PassStep(n) \/ StreamFails(n) \/ PassFails(n)
    PROVE  PeerInv(W)'
<1> USE DEF PeerInv
<1>1. ASSUME n \in W \/ Sweep(n),
             \/ \E h \in Headers : Append(n, h)
             \/ AppendAborts(n) \/ Sweep(n) \/ ReadShares(n) \/ RaiseShareSequence(n)
             \/ CheckShares(n) \/ InsertShares(n) \/ CommitShares(n)
      PROVE  PeerInv(W)'
  <2>1. CASE Sweep(n)
    BY <2>1, Sweeps, ShareSteps
  <2>2. CASE n \in W
    <3>1. ShareInv(W)'
      BY <1>1, <2>2, Appends, AppendsNothing, Sweeps, ReadsShares, RaisesSequence, ChecksShares,
         CommitsShares
    <3> QED BY <1>1, <3>1, ShareSteps
  <2> QED BY <1>1, <2>1, <2>2
<1>2. ASSUME n \in W, SyncBarrier(n) \/ StreamFails(n) \/ PassFails(n)
      PROVE  PeerInv(W)'
  <2>1. ShareInv(W)'
    BY <1>2, OtherSteps DEF SyncInv
  <2> QED BY <1>2, <2>1, ShareSteps
<1>3. ASSUME n \in W, NEW k \in Kinds, NEW i \in Ids,
             NEW w \in {{}, shares[n]} \cup {b.window : b \in synced[Peer(n)] \cup open[Peer(n)]},
             LandBegin(n, k, i, w)
      PROVE  PeerInv(W)'
  <2>1. w \in SUBSET ShareRows
    <3>1. /\ shares[n] \subseteq ShareRows /\ synced[Peer(n)] \subseteq SyncRecords
          /\ open[Peer(n)] \subseteq SyncRecords
      BY Pairs DEF ShareInv, ShareTypes, SyncInv, SyncTypes
    <3>2. \A b \in SyncRecords : b.window \subseteq ShareRows
      BY DEF SyncRecords
    <3> QED BY <3>1, <3>2
  <2> QED BY <1>3, <2>1, OtherSteps, LandsBegin DEF SyncInv
<1>4. ASSUME n \in W, EndLanding(n)
      PROVE  PeerInv(W)'
  <2>1. SyncInv(W)'
    BY <1>4, LandsEnd DEF EndLanding
  <2> QED BY <1>4, <2>1, OtherSteps DEF SyncInv
<1>5. ASSUME n \in W, NEW k \in Kinds, ReadSync(n, k) \/ SettleSync(n, k)
      PROVE  PeerInv(W)'
  <2>1. SyncInv(W)'
    BY <1>5, ReadsSync, SettlesSync
  <2> QED BY <1>5, <2>1, OtherSteps DEF SyncInv
<1>6. ASSUME n \in W, NEW b \in queue[n], ApplySync(n, b)
      PROVE  PeerInv(W)'
  <2>1. SyncInv(W)'
    BY <1>6, AppliesSync
  <2> QED BY <1>6, <2>1, OtherSteps DEF SyncInv
<1>7. CASE n \in W /\ Write(n)
  BY <1>1, <1>3, <1>7 DEF Write
<1>8. CASE n \in W /\ PassStep(n)
  BY <1>1, <1>2, <1>5, <1>6, <1>8 DEF PassStep
<1> QED BY <1>1, <1>2, <1>4, <1>7, <1>8

(* What the invariant means for a reader of the two databases, whether or   *)
(* not both logs are whole.                                                 *)
LEMMA PeerMeans ==
    ASSUME NEW W, PeerInv(W)
    PROVE  CursorsCover /\ HeaderCreditedOnce /\ WindowsHeld /\ ConfirmedMeansHeld /\ FoldedOnce
<1>1. CursorsCover
  <2> SUFFICES ASSUME NEW n \in Nodes
               PROVE  /\ \A r \in shares[Peer(n)] :
                           r.origin = Peer(n) /\ r.seq <= shareMark[n] =>
                             r \in shares[n] \cup quarantine[n]
                      /\ \A b \in synced[Peer(n)] :
                           b.origin = Peer(n) /\ b.sync <= syncMark[n][b.kind] =>
                             Named(synced[n], b.kind, b.id) # {}
    BY DEF CursorsCover
  <2>1. Scanned(n, W) /\ Covered(n) /\ Peer(n) \in Nodes /\ synced[Peer(n)] \subseteq SyncRecords
    BY Pairs DEF PeerInv, ShareInv, SyncInv, SyncTypes
  <2>2. \A b \in synced[Peer(n)] : b.kind \in Kinds
    BY <2>1 DEF SyncRecords
  <2> QED BY <2>1, <2>2 DEF Scanned, Covered, Theirs
<1>2. HeaderCreditedOnce
  BY DEF PeerInv, ShareInv, OneCredit, HeaderCreditedOnce
<1>3. WindowsHeld
  BY DEF PeerInv, SyncInv, WindowHeld, WindowsHeld
<1>4. FoldedOnce
  BY DEF PeerInv, ShareInv, Folding, FoldedOnce
<1>5. ConfirmedMeansHeld
  <2> SUFFICES ASSUME NEW n \in Nodes, NEW first \in Seqs(shares[n]),
                      NEW last \in Seqs(shares[n]), MetBy(n, first, last),
                      NEW r \in shares[n], r.origin = n, first <= r.seq, r.seq <= last
               PROVE  r \in shares[Peer(n)]
    BY DEF ConfirmedMeansHeld
  <2>1. Peer(n) \in Nodes /\ Peer(Peer(n)) = n /\ Scanned(Peer(n), W)
    BY Pairs DEF PeerInv, ShareInv
  <2>2. /\ shares[n] \subseteq ShareRows /\ shareMark[Peer(n)] \in Nat /\ refused[Peer(n)] \in Nat
    BY <2>1 DEF PeerInv, ShareInv, ShareTypes
  <2>3. r.seq \in Nat \ {0} /\ first \in Nat /\ last \in Nat
    BY <2>2 DEF ShareRows, Seqs
  <2>4. r.seq <= shareMark[Peer(n)]
    BY SMTT(30), <2>2, <2>3 DEF MetBy
  <2>5. r \in shares[Peer(n)] \cup quarantine[Peer(n)]
    BY <2>1, <2>4 DEF Scanned
  <2>6. ~(r.seq <= refused[Peer(n)])
    BY SMTT(30), <2>2, <2>3 DEF MetBy
  <2> QED BY <2>1, <2>5, <2>6 DEF Scanned
<1> QED BY <1>1, <1>2, <1>3, <1>4, <1>5

LEMMA PeerInvariant == Spec => []PeerInv(Nodes)
<1>1. Init => PeerInv(Nodes)
  BY PeerInitInv
<1>2. PeerInv(Nodes) /\ [Next]_streamVars => PeerInv(Nodes)'
  BY PeerStutters, PeerSteps DEF Next
<1> QED BY <1>1, <1>2, PTL DEF Spec

(* The cursors can be trusted: whatever the two nodes' appends, landings    *)
(* and passes interleave to, a share cursor that raise_share_sequence and   *)
(* the pull's own transaction moved (peer_sync/engine.rs) has no share of   *)
(* the peer's below it that is neither held nor quarantined, and a blocks   *)
(* or prepared cursor settled at safe_sync_mark has no row below it that    *)
(* is not held.                                                             *)
THEOREM CursorsAreSafe == Spec => []CursorsCover
<1>1. PeerInv(Nodes) => CursorsCover
  BY PeerMeans
<1> QED BY <1>1, PeerInvariant, PTL

(* The header mapping's key and the check of every pull keep one credit per *)
(* header in each ledger, though a header is sent to both nodes and an      *)
(* append commits between the pull's check and its insert.                  *)
THEOREM HeadersAreCreditedOnce == Spec => []HeaderCreditedOnce
<1>1. PeerInv(Nodes) => HeaderCreditedOnce
  BY PeerMeans
<1> QED BY <1>1, PeerInvariant, PTL

(* The sequences' parities, the raise before a pull and the sync_seq rows   *)
(* copied whole leave one row per key across the two databases.             *)
THEOREM KeysNameOneRow == Spec => []OneRowPerKey
<1>1. PeerInv(Nodes) => OneRowPerKey
  <2> SUFFICES ASSUME PeerInv(Nodes) PROVE OneRowPerKey
    OBVIOUS
  <2>0. 0 \in Nodes /\ 1 \in Nodes
    BY DEF Nodes
  <2>1. /\ Raised(0, Nodes) /\ Raised(1, Nodes) /\ OneCredit(0) /\ OneCredit(1) /\ Numbered(0, Nodes) /\ Numbered(1, Nodes)
        /\ Peer(0) = 1 /\ Peer(1) = 0
    BY SMTT(30) DEF PeerInv, ShareInv, SyncInv, Nodes, Peer
  <2>2. /\ \A r \in shares[0] \cup shares[1] : r.origin \in {0, 1}
        /\ \A b \in synced[0] \cup synced[1] : b.origin \in {0, 1}
    <3>1. /\ shares[0] \cup shares[1] \subseteq ShareRows
          /\ synced[0] \cup synced[1] \subseteq SyncRecords
      BY DEF PeerInv, ShareInv, SyncInv, ShareTypes, SyncTypes, Nodes
    <3> QED BY <3>1 DEF ShareRows, SyncRecords, Nodes
  <2>3. ASSUME NEW r \in shares[0], NEW l \in shares[1], r.seq = l.seq
        PROVE  r = l
    <3>1. CASE r.origin = 1
      BY <2>0, <2>1, <2>3, <3>1 DEF Raised, OneCredit
    <3>2. CASE l.origin = 0
      BY <2>0, <2>1, <2>3, <3>2 DEF Raised, OneCredit
    <3>3. CASE r.origin = 0 /\ l.origin = 1
      BY SMTT(30), <2>1, <2>3, <3>3 DEF Raised
    <3> QED BY <2>2, <3>1, <3>2, <3>3
  <2>4. ASSUME NEW b \in synced[0], NEW c \in synced[1], b.origin = c.origin, b.sync = c.sync
        PROVE  b = c
    <3>1. CASE b.origin = 0
      BY <2>0, <2>1, <2>4, <3>1 DEF Numbered
    <3>2. CASE b.origin = 1
      BY <2>0, <2>1, <2>4, <3>2 DEF Numbered
    <3> QED BY <2>2, <3>1, <3>2
  <2> QED BY <2>3, <2>4 DEF OneRowPerKey
<1> QED BY <1>1, PeerInvariant, PTL

(* The wait of D-5: apply_block runs once the share cursor covers the       *)
(* block's window, so the block never arrives before its shares.            *)
THEOREM BlocksComeWithWindows == Spec => []WindowsHeld
<1>1. PeerInv(Nodes) => WindowsHeld
  BY PeerMeans
<1> QED BY <1>1, PeerInvariant, PTL

(* AdoptionNeeds::met_by reads two columns of the peer's cursor row and     *)
(* nothing else of the peer's database; they are enough to know that it     *)
(* holds the finder's shares of the window.                                 *)
THEOREM AdoptionIsSafe == Spec => []ConfirmedMeansHeld
<1>1. PeerInv(Nodes) => ConfirmedMeansHeld
  BY PeerMeans
<1> QED BY <1>1, PeerInvariant, PTL

(* fold_late_peer_shares and the sweep divide the shares between them at    *)
(* the watermark: none at or below it is left out of the rollups or counted *)
(* twice, though pulls insert rows behind the sweep.                        *)
THEOREM SharesFoldOnce == Spec => []FoldedOnce
<1>1. PeerInv(Nodes) => FoldedOnce
  BY PeerMeans
<1> QED BY <1>1, PeerInvariant, PTL
=============================================================================
