--------------------------- MODULE RollbackProofs ---------------------------
(***************************************************************************)
(* A database comes back from a copy of itself or is built from a copy of  *)
(* the peer's, and the pair's invariant goes on with one node Behind; then *)
(* the theorems about OwnSpec.                                             *)
(***************************************************************************)
EXTENDS OwnLogProofs

USE ZenonT(60)

(* A copy of a database is what it was and what it will stay. *)
LEMMA CopiesAreGood ==
    ASSUME LogInv(Nodes), restores = 0, NEW n \in Nodes
    PROVE  Database(n) \in Copies /\ Sound(n, Database(n)) /\ Since(n, Database(n))
<1> DEFINE B == Database(n)
           p == Peer(n)
<1>1. /\ LogTypes /\ ShareTypes /\ SyncTypes /\ Unrolled(n) /\ p \in Nodes
      /\ Raised(n, Nodes) /\ Scanned(n, Nodes) /\ Folding(n) /\ Numbered(n, Nodes) /\ Ended(n, Nodes)
      /\ Covered(n) /\ WindowHeld(n)
  BY Pairs DEF LogInv, PeerInv, ShareInv, SyncInv
<1>2. /\ B.shares = shares[n] /\ B.shareSeq = shareSeq[n] /\ B.shareMark = shareMark[n]
      /\ B.refused = refused[n] /\ B.quarantine = quarantine[n] /\ B.synced = synced[n]
      /\ B.syncSeq = syncSeq[n] /\ B.syncMark = syncMark[n] /\ B.watermark = watermark[n]
      /\ B.rollup = rollup[n] /\ B.verified = verified[n] /\ B.evidence = evidence[n]
  BY DEF Database
<1>3. B \in Copies
  BY <1>1 DEF Database, Copies, LogTypes, ShareTypes, SyncTypes
<1> HIDE DEF B
<1>4. Sound(n, B)
  <2>1. /\ B.evidence = 1 /\ B.verified = 1 /\ B.shareSeq % 2 = n /\ B.watermark <= B.shareSeq
        /\ B.rollup = Cardinality({r \in B.shares : r.seq <= B.watermark})
    BY <1>1, <1>2 DEF Unrolled, Raised, Folding
  <2>2. /\ \A r \in B.shares : r.seq <= B.shareSeq /\ (r.origin # n => r.seq <= B.shareMark)
        /\ \A r \in B.quarantine : r.seq <= B.refused
    BY <1>1, <1>2 DEF Unrolled, InOrder, Raised, Scanned
  <2>3. \A b \in synced[n] : /\ b.origin = n => b.sync <= syncSeq[n] /\ b.window \subseteq shares[n]
                             /\ b.origin # n => b.window \subseteq shares[n] \cup quarantine[n]
    BY <1>1 DEF Unrolled, OwnWindows, Numbered, WindowHeld
  <2> QED BY <1>2, <2>1, <2>2, <2>3 DEF Sound
<1>5. Since(n, B)
  <2>1. shareSeq[n] <= shareSeq[n] /\ shareMark[n] <= shareMark[n]
    BY SMTT(30), <1>1 DEF ShareTypes
  <2>2. /\ shareMark[n] <= shareSeq[p]
        /\ \A r \in shares[p] : r.origin = p /\ r.seq <= shareMark[n] => r \in shares[n] \cup quarantine[n]
    BY <1>1 DEF Scanned
  <2>3. \A k \in Kinds : /\ syncMark[n][k] <= syncSeq[p]
                         /\ \A b \in open[p] : syncMark[n][k] < b.sync
                         /\ \A b \in Theirs(n, k) : b.sync <= syncMark[n][k] => Named(synced[n], k, b.id) # {}
    BY <1>1 DEF Ended, Covered
  <2> QED BY <1>2, <2>1, <2>2, <2>3 DEF Since
<1> QED BY <1>3, <1>4, <1>5 DEF B

LEMMA BacksUp ==
    ASSUME NEW W, LogInv(W), NEW n \in Nodes, Backup(n)
    PROVE  LogInv(W)'
<1>1. /\ PeerInv(W) /\ LogTypes /\ backup[n] = <<>> /\ backup' = [backup EXCEPT ![n] = Database(n)]
      /\ UNCHANGED <<streamVars, evidence, verified, latch, lost, recovery, proving, reach, restores>>
  BY DEF LogInv, Backup
<1>2. UNCHANGED <<shares, shareSeq, shareMark, synced, syncSeq, open, stage, batch, queue>>
  BY <1>1 DEF streamVars, dbVars, passVars
<1>3. PeerInv(W)'
  BY <1>1, PeerStutters
<1>4. /\ backup'[n] = Database(n) /\ (\A m \in Nodes : m # n => backup'[m] = backup[m])
  BY <1>1 DEF LogTypes
<1>5. LogTypes'
  <2>1. Database(n) \in Copies
    <3>1. ShareTypes /\ SyncTypes
      BY <1>1 DEF PeerInv, ShareInv, SyncInv
    <3> QED BY <1>1, <3>1 DEF Database, Copies, LogTypes, ShareTypes, SyncTypes
  <2>2. backup' \in [Nodes -> {<<>>} \cup Copies]
    BY <1>1, <2>1 DEF LogTypes
  <2> QED BY <1>1, <2>2 DEF LogTypes
<1>6. \A m \in Nodes : Process(m, W)' /\ OneName(m)'
  BY <1>1, <1>2 DEF LogInv, Process, OneName
<1>7. \A m \in Nodes \ W : Peer(m) \in W /\ Behind(m)'
  <2> SUFFICES ASSUME NEW m \in Nodes \ W PROVE Peer(m) \in W /\ Behind(m)'
    OBVIOUS
  <2>1. Peer(m) \in W /\ Behind(m)
    BY DEF LogInv
  <2>2. Locked(m)' /\ OwnLanded(m)'
    BY <1>1, <1>2, <2>1 DEF Behind, Locked, OwnLanded, Own
  <2>3. OwnPrefix(m)'
    BY <1>1, <1>2, <2>1 DEF Behind, OwnPrefix, Own
  <2> QED BY <2>1, <2>2, <2>3 DEF Behind
<1>8. ASSUME restores = 0, NEW m \in Nodes PROVE Unrolled(m)'
  <2>1. Unrolled(m) /\ LogInv(Nodes)
    BY <1>8 DEF LogInv
  <2>2. InOrder(m)' /\ OwnWindows(m)'
    BY <1>2, <2>1 DEF Unrolled, InOrder, OwnWindows
  <2>3. \A B : Since(m, B) => Since(m, B)'
    BY <1>2 DEF Since, Theirs
  <2>4. backup'[m] # <<>> => Sound(m, backup'[m]) /\ Since(m, backup'[m])
    <3>1. CASE m = n
      BY <1>4, <1>8, <2>1, <3>1, CopiesAreGood
    <3>2. CASE m # n
      BY <1>4, <2>1, <3>2 DEF Unrolled
    <3> QED BY <3>1, <3>2
  <2>5. backup'[m] # <<>> => Sound(m, backup[m])' /\ Since(m, backup[m])'
    <3>1. Sound(m, backup'[m]) => Sound(m, backup[m])'
      BY DEF Sound
    <3>2. Since(m, backup'[m]) => Since(m, backup[m])'
      BY <1>2 DEF Since, Theirs
    <3> QED BY <2>4, <3>1, <3>2
  <2> QED BY <1>1, <2>1, <2>2, <2>5 DEF Unrolled
<1> QED BY <1>1, <1>3, <1>5, <1>6, <1>7, <1>8 DEF LogInv

----------------------------------------------------------------------------
(* What a database loaded for n must be, beside its peer's: of the shares, *)
FitShares(n, d) ==
  /\ IsFiniteSet(d.shares) /\ d.shareSeq % 2 = n /\ d.watermark <= d.shareSeq
  /\ d.rollup = Cardinality({r \in d.shares : r.seq <= d.watermark})
  /\ \A r \in d.shares : /\ r.seq <= d.shareSeq
                         /\ r.origin = n => r \in shares[n]
                         /\ r.origin # n => r \in shares[Peer(n)]
  /\ \A r, l \in d.shares : r.header = l.header \/ r.seq = l.seq => r = l
  /\ d.shareMark <= shareSeq[Peer(n)] /\ \A r \in d.quarantine : r.seq <= d.refused
  /\ \A r \in shares[Peer(n)] :
       r.origin = Peer(n) /\ r.seq <= d.shareMark => r \in d.shares \cup d.quarantine
  /\ \A r \in Own(n, shares[Peer(n)]) :
       /\ \A l \in Own(n, d.shares) : r.seq <= l.seq => r \in d.shares
       /\ \A l \in d.shares : r.seq = l.seq \/ r.header = l.header => r = l

(* and of the landed rows.                                                  *)
FitSync(n, d) ==
  /\ IsFiniteSet(d.synced)
  /\ \A b \in d.synced :
       /\ b.origin = n => /\ b \in synced[n] /\ (b.sync <= d.syncSeq \/ b \in synced[Peer(n)])
                          /\ b.window \subseteq d.shares \/ b \in synced[Peer(n)]
       /\ b.origin # n => b \in synced[Peer(n)] /\ b.window \subseteq d.shares \cup d.quarantine
  /\ \A b, c \in d.synced : b.kind = c.kind /\ b.id = c.id => b = c
  /\ \A b \in Own(n, synced[Peer(n)]), c \in d.synced : b.kind = c.kind /\ b.id = c.id => b = c
  /\ \A k \in Kinds :
       /\ \A b \in open[Peer(n)] : d.syncMark[k] < b.sync
       /\ d.syncMark[k] <= syncSeq[Peer(n)]
       /\ \A b \in Theirs(n, k) : b.sync <= d.syncMark[k] => Named(d.synced, k, b.id) # {}

(* The process of n is a new one, or is between passes, and its peer's too. *)
Stopped(n) ==
  /\ stage[Peer(n)] = "idle" /\ recovery[Peer(n)] = "none"
  /\ stage'[n] = "idle" /\ queue'[n] = {} /\ recovery'[n] = "none"
  /\ stage'[Peer(n)] = stage[Peer(n)] /\ queue'[Peer(n)] = queue[Peer(n)]
  /\ recovery'[Peer(n)] = recovery[Peer(n)]

LEMMA LoadsShares ==
    ASSUME LogInv(Nodes), restores = 0, NEW n \in Nodes, NEW d \in Copies, FitShares(n, d), Load(n, d),
           Stopped(n), PassTypes'
    PROVE  ShareInv(Nodes \ {n})'
<1> DEFINE p == Peer(n)
           V == Nodes \ {n}
<1>1. /\ ShareTypes /\ p \in Nodes /\ p # n /\ Peer(p) = n /\ (\A m \in Nodes : m = n \/ m = p)
      /\ \A m \in Nodes : /\ Raised(m, Nodes) /\ OneCredit(m) /\ Scanned(m, Nodes) /\ Folding(m)
  BY Pairs DEF LogInv, PeerInv, ShareInv
<1>2. /\ d.shares \in SUBSET ShareRows /\ d.quarantine \in SUBSET ShareRows /\ d.shareSeq \in Nat
      /\ d.shareMark \in Nat /\ d.refused \in Nat /\ d.watermark \in Nat /\ d.rollup \in Nat
  BY DEF Copies
<1>3. /\ shares'[n] = d.shares /\ shareSeq'[n] = d.shareSeq /\ shareMark'[n] = d.shareMark
      /\ refused'[n] = d.refused /\ quarantine'[n] = d.quarantine /\ watermark'[n] = d.watermark
      /\ rollup'[n] = d.rollup
  BY <1>1 DEF Load, ShareTypes
<1>4. /\ shares'[p] = shares[p] /\ shareSeq'[p] = shareSeq[p] /\ shareMark'[p] = shareMark[p]
      /\ refused'[p] = refused[p] /\ quarantine'[p] = quarantine[p] /\ watermark'[p] = watermark[p]
      /\ rollup'[p] = rollup[p]
  BY <1>1 DEF Load, ShareTypes
<1>5. ShareTypes'
  BY <1>1, <1>2 DEF Load, ShareTypes
<1>6. Raised(n, V)' /\ Raised(p, V)'
  <2>1. \A r \in d.shares : r.origin = n => r.seq % 2 = n
    <3>1. \A r \in d.shares : r.origin = n => r \in shares[n]
      BY DEF FitShares
    <3>2. \A r \in shares[n] : r.origin = n => r.seq % 2 = n
      BY <1>1 DEF Raised
    <3> QED BY <3>1, <3>2
  <2>2. Raised(n, V)'
    BY <1>1, <1>3, <1>4, <2>1 DEF FitShares, Raised
  <2>3. Raised(p, V)'
    BY <1>1, <1>4 DEF Raised
  <2> QED BY <2>2, <2>3
<1>7. OneCredit(n)' /\ OneCredit(p)'
  <2>1. OneCredit(n)'
    BY <1>3 DEF FitShares, OneCredit
  <2>2. OneCredit(p)'
    BY <1>1, <1>4 DEF OneCredit
  <2> QED BY <2>1, <2>2
<1>8. Scanned(n, V)' /\ Scanned(p, V)'
  <2>1. Scanned(n, V)'
    BY <1>1, <1>3, <1>4 DEF FitShares, Scanned
  <2>2. \A r \in d.shares : r.origin = n /\ r.seq <= shareMark[p] => r \in shares[p] \cup quarantine[p]
    BY <1>1 DEF FitShares, Scanned
  <2>3. \A r \in quarantine[p] : r.seq <= refused[p]
    BY <1>1 DEF Scanned
  <2>4. Scanned(p, V)'
    BY <1>1, <1>3, <1>4, <2>2, <2>3 DEF Scanned
  <2> QED BY <2>1, <2>4
<1>9. Pulling(n)' /\ Pulling(p)'
  BY DEF Stopped, Pulling
<1>10. Folding(n)' /\ Folding(p)'
  <2>1. Folding(n)'
    BY <1>3 DEF FitShares, Folding
  <2>2. Folding(p)'
    BY <1>1, <1>4 DEF Folding
  <2> QED BY <2>1, <2>2
<1> QED BY <1>1, <1>5, <1>6, <1>7, <1>8, <1>9, <1>10 DEF ShareInv

LEMMA LoadsSync ==
    ASSUME LogInv(Nodes), restores = 0, NEW n \in Nodes, NEW d \in Copies, FitSync(n, d), Load(n, d),
           Stopped(n), ShareTypes'
    PROVE  SyncInv(Nodes \ {n})'
<1> DEFINE p == Peer(n)
           V == Nodes \ {n}
<1>1. /\ SyncTypes /\ ShareTypes /\ PassTypes /\ p \in Nodes /\ p # n /\ Peer(p) = n
      /\ (\A m \in Nodes : m = n \/ m = p) /\ PeerInv(Nodes) /\ Unrolled(p)
      /\ \A m \in Nodes : /\ Numbered(m, Nodes) /\ Ended(m, Nodes) /\ Covered(m) /\ WindowHeld(m)
  BY Pairs DEF LogInv, PeerInv, SyncInv, ShareInv
<1>2. /\ d.synced \in SUBSET SyncRecords /\ d.syncSeq \in Nat /\ d.syncMark \in [Kinds -> Nat]
  BY DEF Copies
<1>3. /\ shares'[n] = d.shares /\ quarantine'[n] = d.quarantine /\ synced'[n] = d.synced
      /\ syncSeq'[n] = d.syncSeq /\ syncMark'[n] = d.syncMark /\ open'[n] = {} /\ safe'[n] = 0
      /\ safe'[p] = 0
  BY <1>1 DEF Load, ShareTypes, SyncTypes
<1>4. /\ shares'[p] = shares[p] /\ quarantine'[p] = quarantine[p] /\ synced'[p] = synced[p]
      /\ syncSeq'[p] = syncSeq[p] /\ syncMark'[p] = syncMark[p] /\ open'[p] = open[p]
  BY <1>1 DEF Load, ShareTypes, SyncTypes
<1>5. SyncTypes'
  BY <1>1, <1>2 DEF Load, SyncTypes
<1>6. Numbered(n, V)'
  <2>1. \A b, c \in d.synced : b.origin = n /\ c.origin = n /\ b.sync = c.sync => b = c
    <3>1. \A b \in d.synced : b.origin = n => b \in synced[n]
      BY DEF FitSync
    <3>2. \A b, c \in synced[n] : b.origin = n /\ c.origin = n /\ b.sync = c.sync => b = c
      BY <1>1 DEF Numbered
    <3> QED BY <3>1, <3>2
  <2> QED BY <1>1, <1>3, <1>4, <2>1 DEF FitSync, Numbered
<1>7. Numbered(p, V)'
  <2>1. \A b \in synced[p] \cup open[p] : b.origin = p => b.window \subseteq shares[p]
    BY <1>1 DEF Unrolled, OwnWindows
  <2>2. /\ IsFiniteSet(synced[p]) /\ \A b \in open[p] : b.origin = p
        /\ \A b \in synced[p] \cup open[p] : b.origin = p => b.sync <= syncSeq[p]
        /\ \A b, c \in synced[p] \cup open[p] :
             b.origin = p /\ c.origin = p /\ b.sync = c.sync => b = c
    BY <1>1 DEF Numbered
  <2>3. n \notin V
    OBVIOUS
  <2> QED BY <1>1, <1>4, <2>1, <2>2, <2>3 DEF Numbered
<1>8. Ended(n, V)' /\ Ended(p, V)'
  <2>1. /\ 0 <= syncSeq[p] /\ 0 <= d.syncSeq
        /\ \A b \in open[p] : 0 < b.sync
    BY SMTT(30), <1>1, <1>2 DEF SyncTypes, SyncRecords
  <2>2. Ended(n, V)'
    BY <1>1, <1>3, <1>4, <2>1 DEF FitSync, Ended
  <2>3. Ended(p, V)'
    BY <1>1, <1>3, <2>1 DEF Ended
  <2> QED BY <2>2, <2>3
<1>9. Covered(n)' /\ Covered(p)'
  <2>1. \A k \in Kinds : Theirs(n, k)' = Theirs(n, k) /\ Theirs(p, k)' \subseteq Theirs(p, k)
    BY <1>1, <1>3, <1>4 DEF Theirs, FitSync
  <2>2. Covered(n)'
    BY <1>3, <2>1 DEF FitSync, Covered
  <2>3. Covered(p)'
    BY <1>1, <1>4, <2>1 DEF Covered
  <2> QED BY <2>2, <2>3
<1>10. Queued(n, V)' /\ Queued(p, V)'
  <2>1. queue[p] = {}
    BY <1>1, IdleQueue DEF Stopped
  <2>2. queue'[p] = {} /\ \A k \in Kinds : stage'[p] # ApplyStage(k)
    BY <2>1 DEF Stopped, ApplyStage
  <2> QED BY <2>2 DEF Queued
<1>11. WindowHeld(n)' /\ WindowHeld(p)'
  BY <1>1, <1>3, <1>4 DEF FitSync, WindowHeld
<1> QED BY <1>1, <1>5, <1>6, <1>7, <1>8, <1>9, <1>10, <1>11 DEF SyncInv

(* A node is rolled back. *)
LEMMA Loads ==
    ASSUME LogInv(Nodes), restores = 0, NEW n \in Nodes, NEW d \in Copies, FitShares(n, d), FitSync(n, d),
           Load(n, d), Stopped(n), PassTypes', LogTypes', restores' # 0,
           latch'[n] = 0 \/ d.evidence # latch'[n], d.evidence # 0,
           d.verified # d.evidence \/ reach'[n]
    PROVE  LogInv(Nodes \ {n})'
<1> DEFINE p == Peer(n)
           V == Nodes \ {n}
<1>1. /\ SyncTypes /\ ShareTypes /\ LogTypes /\ p \in Nodes /\ p # n /\ Peer(p) = n
      /\ (\A m \in Nodes : m = n \/ m = p) /\ OneName(p)
      /\ Raised(n, Nodes) /\ Raised(p, Nodes) /\ Numbered(n, Nodes) /\ Numbered(p, Nodes)
  BY Pairs DEF LogInv, PeerInv, SyncInv, ShareInv
<1>2. ShareInv(V)'
  BY LoadsShares
<1>3. ShareTypes'
  BY <1>2 DEF ShareInv
<1>4. PeerInv(V)'
  BY <1>2, <1>3, LoadsSync DEF PeerInv
<1>5. /\ shares'[n] = d.shares /\ synced'[n] = d.synced /\ syncSeq'[n] = d.syncSeq /\ open'[n] = {}
      /\ evidence'[n] = d.evidence /\ verified'[n] = d.verified
      /\ shares'[p] = shares[p] /\ synced'[p] = synced[p] /\ open'[p] = open[p]
  BY <1>1 DEF Load, ShareTypes, SyncTypes, LogTypes
<1>6. \A m \in Nodes : Process(m, V)' /\ OneName(m)'
  <2>1. Process(n, V)' /\ Process(p, V)'
    BY DEF Process, Stopped
  <2>2. OneName(n)' /\ OneName(p)'
    BY <1>1, <1>5 DEF OneName, FitSync
  <2> QED BY <1>1, <2>1, <2>2
<1>7. Behind(n)'
  <2>1. Locked(n)'
    BY <1>1, <1>5 DEF Locked, Stopped
  <2>2. OwnPrefix(n)'
    <3>1. \A r \in Own(n, shares[p]) : r.seq % 2 = n
      BY <1>1 DEF Raised, Own
    <3>2. recovery'[n] \notin {"insert", "block", "prepared", "raise"}
      BY DEF Stopped
    <3> QED BY <1>5, <3>1, <3>2 DEF OwnPrefix, FitShares
  <2>3. OwnLanded(n)'
    <3>1. \A b \in Own(n, synced[p]) : b \in synced[n] /\ b.origin = n
      BY <1>1 DEF Numbered, Own
    <3>2. \A b, c \in Own(n, synced[p]) : b.sync = c.sync => b = c
      BY <1>1, <3>1 DEF Numbered
    <3>3. \A b \in Own(n, synced[p]) : \A c \in d.synced : c.origin = n /\ b.sync = c.sync => b = c
      BY <1>1, <3>1 DEF Numbered, FitSync
    <3>4. recovery'[n] \notin {"prepared", "raise"} /\ queue'[n] = {}
      BY DEF Stopped
    <3>5. /\ \A b \in Own(n, synced[p]), c \in d.synced : b.kind = c.kind /\ b.id = c.id => b = c
          /\ \A b \in d.synced : b.origin = n => b.sync <= d.syncSeq \/ b \in synced[p]
      BY DEF FitSync
    <3>6. /\ synced'[n] = d.synced /\ syncSeq'[n] = d.syncSeq /\ synced'[p] = synced[p]
      BY <1>5
    <3>7. \A b \in Own(n, synced'[p]) : \A c \in synced'[n] :
            (c.origin = n /\ b.sync = c.sync) \/ (b.kind = c.kind /\ b.id = c.id) => b = c
      BY <3>3, <3>5, <3>6
    <3>8. /\ \A b, c \in Own(n, synced'[p]) : b.sync = c.sync => b = c
          /\ \A b \in synced'[n] : b.origin = n => b.sync <= syncSeq'[n] \/ b \in synced'[p]
      BY <3>2, <3>5, <3>6
    <3> QED BY <3>4, <3>7, <3>8 DEF OwnLanded
  <2> QED BY <2>1, <2>2, <2>3 DEF Behind
<1> QED BY <1>1, <1>4, <1>6, <1>7 DEF LogInv

(* The process of n ends, or goes on between two passes. *)
LEMMA StopsOrWaits ==
    ASSUME LogInv(Nodes), NEW n \in Nodes, stage[Peer(n)] = "idle", recovery[Peer(n)] = "none",
           safe' = [m \in Nodes |-> 0],
           \/ Restarted(n)
           \/ /\ UNCHANGED <<stage, batch, fresh, queue, whole, latch, lost, recovery, proving>>
              /\ stage[n] = "idle" /\ recovery[n] = "none"
    PROVE  /\ Stopped(n) /\ PassTypes'
           /\ latch' \in [Nodes -> Nat] /\ latch'[n] \in {0, latch[n]} /\ lost' \in [Nodes -> BOOLEAN]
           /\ recovery' \in [Nodes -> RecoverySteps] /\ proving' \in [Nodes -> Nat]
           /\ Restarted(n) => latch'[n] = 0
<1>1. /\ PeerInv(Nodes) /\ PassTypes /\ LogTypes /\ Peer(n) \in Nodes /\ Peer(n) # n
  BY Pairs DEF LogInv, PeerInv, ShareInv
<1>2. safe' \in [Nodes -> Nat]
  BY Zero
<1>3. CASE Restarted(n)
  <2>1. /\ "idle" \in Stages /\ NoBatch \in [through : Nat, rows : SUBSET ShareRows]
        /\ "none" \in RecoverySteps
    BY Zero, BatchTypes DEF Stages, RecoverySteps
  <2>2. stage' \in [Nodes -> Stages] /\ batch' \in [Nodes -> [through : Nat, rows : SUBSET ShareRows]]
    BY <1>1, <1>3, <2>1 DEF Restarted, PassTypes
  <2>3. /\ fresh' \in [Nodes -> SUBSET ShareRows] /\ queue' \in [Nodes -> SUBSET SyncRecords]
        /\ whole' \in [Nodes -> BOOLEAN]
    BY <1>1, <1>3 DEF Restarted, PassTypes
  <2>4. /\ latch' \in [Nodes -> Nat] /\ lost' \in [Nodes -> BOOLEAN] /\ proving' \in [Nodes -> Nat]
        /\ latch'[n] = 0
    BY <1>1, <1>3, Zero DEF Restarted, LogTypes
  <2>5. recovery' \in [Nodes -> RecoverySteps]
    BY <1>1, <1>3, <2>1 DEF Restarted, LogTypes
  <2>6. Stopped(n)
    BY <1>1, <1>3 DEF Restarted, Stopped, PassTypes, LogTypes
  <2> QED BY <1>2, <2>2, <2>3, <2>4, <2>5, <2>6 DEF PassTypes
<1>4. CASE /\ UNCHANGED <<stage, batch, fresh, queue, whole, latch, lost, recovery, proving>>
           /\ stage[n] = "idle" /\ recovery[n] = "none" /\ ~Restarted(n)
  <2>1. queue[n] = {}
    BY <1>1, <1>4, IdleQueue
  <2>2. Stopped(n)
    BY <1>4, <2>1 DEF Stopped
  <2> QED BY <1>1, <1>2, <1>4, <2>2 DEF PassTypes, LogTypes
<1> QED BY <1>3, <1>4

(* A node's own backup. *)
LEMMA BackupFits ==
    ASSUME LogInv(Nodes), NEW n \in Nodes, NEW B \in Copies, Sound(n, B), Since(n, B),
           NEW d \in Copies,
           /\ d.shares = B.shares /\ d.shareSeq = B.shareSeq /\ d.shareMark = B.shareMark
           /\ d.refused = B.refused /\ d.quarantine = B.quarantine /\ d.synced = B.synced
           /\ d.syncSeq = B.syncSeq /\ d.syncMark = B.syncMark /\ d.watermark = B.watermark
           /\ d.rollup = B.rollup
    PROVE  FitShares(n, d) /\ FitSync(n, d)
<1> DEFINE p == Peer(n)
<1>1. /\ ShareTypes /\ SyncTypes /\ p \in Nodes /\ p # n /\ Peer(p) = n
      /\ Raised(n, Nodes) /\ Raised(p, Nodes) /\ OneCredit(n) /\ Folding(n)
      /\ Numbered(n, Nodes) /\ Numbered(p, Nodes) /\ OneName(n)
  BY Pairs DEF LogInv, PeerInv, ShareInv, SyncInv
<1>2. /\ d.shares \subseteq shares[n] /\ d.synced \subseteq synced[n]
      /\ d.shareSeq \in Nat /\ shares[n] \subseteq ShareRows
  BY <1>1 DEF Since, Copies, ShareTypes
<1>3. FitShares(n, d)
  <2>1. IsFiniteSet(d.shares)
    BY <1>1, <1>2, FS_Subset DEF Folding
  <2>2. /\ d.shareSeq % 2 = n /\ d.watermark <= d.shareSeq
        /\ d.rollup = Cardinality({r \in d.shares : r.seq <= d.watermark})
        /\ \A r \in d.shares : r.seq <= d.shareSeq
        /\ \A r \in d.quarantine : r.seq <= d.refused
    BY DEF Sound
  <2>3. \A r \in d.shares : r \in shares[n] /\ (r.origin # n => r \in shares[p])
    BY <1>1, <1>2 DEF Raised
  <2>4. \A r, l \in d.shares : r.header = l.header \/ r.seq = l.seq => r = l
    BY <1>1, <1>2 DEF OneCredit
  <2>5. /\ d.shareMark <= shareSeq[p]
        /\ \A r \in shares[p] : r.origin = p /\ r.seq <= d.shareMark => r \in d.shares \cup d.quarantine
    BY DEF Since
  <2>6. \A r \in Own(n, shares[p]) : r \in shares[n] /\ r.origin = n
    BY <1>1 DEF Raised, Own
  <2>7. \A r \in Own(n, shares[p]) : \A l \in Own(n, d.shares) : r.seq <= l.seq => r \in d.shares
    <3> SUFFICES ASSUME NEW r \in Own(n, shares[p]), NEW l \in Own(n, d.shares), r.seq <= l.seq
                 PROVE  r \in d.shares
      OBVIOUS
    <3>1. l \in d.shares /\ l.seq <= d.shareSeq /\ r \in shares[n] /\ r.origin = n
      BY <2>2, <2>6 DEF Own
    <3>2. r.seq \in Nat /\ l.seq \in Nat
      BY <1>2, <3>1, RowFields
    <3>3. r.seq <= d.shareSeq
      BY SMTT(30), <1>2, <3>1, <3>2
    <3> QED BY <3>1, <3>3 DEF Since
  <2>8. \A r \in Own(n, shares[p]) : \A l \in d.shares : r.seq = l.seq \/ r.header = l.header => r = l
    BY <1>1, <1>2, <2>6 DEF OneCredit
  <2> QED BY <2>1, <2>2, <2>3, <2>4, <2>5, <2>7, <2>8 DEF FitShares
<1>4. FitSync(n, d)
  <2>1. IsFiniteSet(d.synced)
    BY <1>1, <1>2, FS_Subset DEF Numbered
  <2>2. \A b \in d.synced :
          /\ b.origin = n => b \in synced[n] /\ b.sync <= d.syncSeq /\ b.window \subseteq d.shares
          /\ b.origin # n => b.window \subseteq d.shares \cup d.quarantine
    BY <1>2 DEF Sound
  <2>3. \A b \in d.synced : b.origin # n => b \in synced[p]
    BY <1>1, <1>2 DEF Numbered
  <2>4. \A b \in Own(n, synced[p]) : b \in synced[n]
    BY <1>1 DEF Numbered, Own
  <2>5. /\ \A b, c \in d.synced : b.kind = c.kind /\ b.id = c.id => b = c
        /\ \A b \in Own(n, synced[p]), c \in d.synced : b.kind = c.kind /\ b.id = c.id => b = c
    BY <1>1, <1>2, <2>4 DEF OneName
  <2>6. \A k \in Kinds :
          /\ \A b \in open[p] : d.syncMark[k] < b.sync
          /\ d.syncMark[k] <= syncSeq[p]
          /\ \A b \in Theirs(n, k) : b.sync <= d.syncMark[k] => Named(d.synced, k, b.id) # {}
    BY DEF Since
  <2> QED BY <2>1, <2>2, <2>3, <2>5, <2>6 DEF FitSync
<1> QED BY <1>3, <1>4

LEMMA Restores ==
    ASSUME LogInv(Nodes), restores = 0, NEW n \in Nodes, NEW timeline \in {"new", "kept"},
           NEW cleared \in BOOLEAN, NEW under \in BOOLEAN, Restore(n, timeline, cleared, under)
    PROVE  LogInv(Nodes \ {n})'
<1> DEFINE B == backup[n]
           e == IF timeline = "new" THEN restores + 2 ELSE B.evidence
           v == IF cleared THEN 0 ELSE B.verified
           d == [B EXCEPT !.evidence = e, !.verified = v]
<1>1. /\ LogTypes /\ Unrolled(n) /\ B \in Copies /\ Sound(n, B) /\ Since(n, B)
      /\ B.evidence = 1 /\ B.verified = 1
  BY DEF LogInv, LogTypes, Unrolled, Restore, Sound
<1>2. e \in {1, 2} /\ v \in {0, 1} /\ (e = 1 \/ e = 2) /\ (timeline = "new" => e = 2)
      /\ (timeline # "new" => e = 1) /\ (cleared => v = 0) /\ (~cleared => v = 1)
  BY SMTT(30), <1>1
<1>3. 0 \in Nat /\ 1 \in Nat /\ 2 \in Nat /\ 2 # 0 /\ 1 # 0 /\ 1 # 2 /\ 0 + 1 \in Nat /\ 0 + 1 # 0
  BY SMTT(30)
<1> HIDE DEF e, v
<1>4. /\ d \in Copies /\ d.evidence = e /\ d.verified = v
      /\ d.shares = B.shares /\ d.shareSeq = B.shareSeq /\ d.shareMark = B.shareMark
      /\ d.refused = B.refused /\ d.quarantine = B.quarantine /\ d.synced = B.synced
      /\ d.syncSeq = B.syncSeq /\ d.syncMark = B.syncMark /\ d.watermark = B.watermark
      /\ d.rollup = B.rollup
  <2>1. e \in Nat /\ v \in Nat
    BY <1>2, <1>3
  <2> HIDE DEF B
  <2>2. d \in Copies
    BY <1>1, <2>1 DEF Copies
  <2>3. d.evidence = e /\ d.verified = v
    BY <1>1 DEF Copies
  <2>4. /\ d.shares = B.shares /\ d.shareSeq = B.shareSeq /\ d.shareMark = B.shareMark
        /\ d.refused = B.refused /\ d.quarantine = B.quarantine /\ d.synced = B.synced
        /\ d.syncSeq = B.syncSeq /\ d.syncMark = B.syncMark /\ d.watermark = B.watermark
        /\ d.rollup = B.rollup
    BY <1>1 DEF Copies
  <2> QED BY <2>2, <2>3, <2>4
<1>5. /\ restores' = restores + 1 /\ stage[Peer(n)] = "idle" /\ recovery[Peer(n)] = "none"
      /\ (cleared => timeline = "kept")
      /\ (under => timeline = "new" /\ stage[n] = "idle" /\ recovery[n] = "none")
      /\ Load(n, d) /\ reach' = [reach EXCEPT ![n] = timeline = "kept" /\ ~cleared]
      /\ backup' = backup
      /\ \/ ~under /\ Restarted(n)
         \/ under /\ UNCHANGED <<stage, batch, fresh, queue, whole, latch, lost, recovery, proving>>
  BY DEF Restore, e, v
<1> HIDE DEF d
<1>6. FitShares(n, d) /\ FitSync(n, d)
  BY <1>1, <1>4, BackupFits
<1>7. /\ Stopped(n) /\ PassTypes'
      /\ latch' \in [Nodes -> Nat] /\ latch'[n] \in {0, latch[n]} /\ lost' \in [Nodes -> BOOLEAN]
      /\ recovery' \in [Nodes -> RecoverySteps] /\ proving' \in [Nodes -> Nat]
      /\ Restarted(n) => latch'[n] = 0
  BY <1>5, StopsOrWaits DEF Load
<1>8. LogTypes'
  <2>1. evidence' \in [Nodes -> Nat] /\ verified' \in [Nodes -> Nat]
    BY <1>1, <1>2, <1>3, <1>4, <1>5 DEF Load, LogTypes
  <2>2. reach' \in [Nodes -> BOOLEAN]
    BY <1>1, <1>5 DEF LogTypes
  <2> QED BY <1>1, <1>3, <1>5, <1>7, <2>1, <2>2 DEF LogTypes
<1>9. restores' # 0 /\ d.evidence # 0
  BY <1>2, <1>3, <1>4, <1>5
<1>10. latch'[n] = 0 \/ d.evidence # latch'[n]
  <2>1. CASE under
    <3>1. e = 2 /\ latch[n] \in {0, 1}
      BY <1>1, <1>2, <1>5, <2>1 DEF Unrolled
    <3> QED BY <1>3, <1>4, <1>7, <3>1
  <2>2. CASE ~under
    BY <1>5, <1>7, <2>2
  <2> QED BY <2>1, <2>2
<1>11. d.verified # d.evidence \/ reach'[n]
  <2>1. reach'[n] = (timeline = "kept" /\ ~cleared)
    BY <1>1, <1>5 DEF LogTypes
  <2>2. CASE timeline = "kept" /\ ~cleared
    BY <2>1, <2>2
  <2>3. CASE timeline = "new"
    BY <1>2, <1>3, <1>4, <1>5, <2>3
  <2>4. CASE timeline = "kept" /\ cleared
    BY <1>2, <1>3, <1>4, <2>4
  <2> QED BY <2>2, <2>3, <2>4
<1> QED BY <1>4, <1>5, <1>6, <1>7, <1>8, <1>9, <1>10, <1>11, Loads

(* A copy of the peer's database, its keys and cursors made n's. *)
LEMMA CopyFits ==
    ASSUME LogInv(Nodes), NEW n \in Nodes, NEW c \in Copies, Sound(Peer(n), c), Since(Peer(n), c),
           NEW d \in Copies,
           /\ d.shares = c.shares /\ d.synced = c.synced /\ d.watermark = c.watermark
           /\ d.rollup = c.rollup /\ d.quarantine = {}
           /\ d.syncMark = [k \in Kinds |-> 0]
           /\ d.shareSeq % 2 = n /\ c.shareSeq <= d.shareSeq /\ (\A r \in c.shares : r.seq <= d.shareSeq)
           /\ d.shareMark \in Seqs(Own(Peer(n), c.shares)) \cup {Peer(n)}
    PROVE  FitShares(n, d) /\ FitSync(n, d)
<1> DEFINE p == Peer(n)
<1>1. /\ ShareTypes /\ SyncTypes /\ p \in Nodes /\ p # n /\ Peer(p) = n
      /\ Raised(n, Nodes) /\ Raised(p, Nodes) /\ OneCredit(p) /\ Folding(p)
      /\ Numbered(n, Nodes) /\ Numbered(p, Nodes) /\ OneName(p)
  BY Pairs DEF LogInv, PeerInv, ShareInv, SyncInv
<1>2. /\ c.shares \subseteq shares[p] /\ c.synced \subseteq synced[p] /\ shares[p] \subseteq ShareRows
      /\ c.shareSeq \in Nat /\ c.shareMark \in Nat /\ c.watermark \in Nat /\ d.shareSeq \in Nat
      /\ d.shareMark \in Nat /\ shareSeq[p] \in Nat /\ c.shareSeq <= shareSeq[p]
  BY <1>1 DEF Since, Copies, ShareTypes
<1>3. \A r \in shares[p] : r.seq \in Nat /\ (r.origin = n \/ r.origin = p) /\ (r.origin = n => r \in shares[n])
  <2>1. \A r \in shares[p] : r.seq \in Nat /\ r.origin \in Nodes
    BY <1>2, RowFields
  <2> QED BY <1>1, <2>1, Pairs DEF Raised
<1>4. \A b \in synced[p] : b.origin # p => b \in synced[n]
  BY <1>1 DEF Numbered
<1>5. /\ c.shareSeq % 2 = p /\ c.watermark <= c.shareSeq
      /\ c.rollup = Cardinality({r \in c.shares : r.seq <= c.watermark})
      /\ \A r \in c.shares : r.seq <= c.shareSeq /\ (r.origin # p => r.seq <= c.shareMark)
  BY DEF Sound
<1>6. d.shareMark <= c.shareSeq /\ d.shareMark <= shareSeq[p]
  <2>1. d.shareMark <= c.shareSeq
    <3>1. CASE d.shareMark \in Seqs(Own(p, c.shares))
      BY <1>5, <3>1 DEF Seqs, Own
    <3>2. CASE d.shareMark = p
      BY SMTT(30), <1>1, <1>2, <1>5, <3>2 DEF Nodes
    <3> QED BY <3>1, <3>2
  <2> QED BY SMTT(30), <1>2, <2>1
<1>7. FitShares(n, d)
  <2>1. IsFiniteSet(c.shares)
    BY <1>1, <1>2, FS_Subset DEF Folding
  <2>2. c.watermark <= d.shareSeq
    BY SMTT(30), <1>2, <1>5
  <2>3. \A r \in c.shares : (r.origin = n => r \in shares[n]) /\ (r.origin # n => r \in shares[p])
    BY <1>2, <1>3
  <2>4. \A r, l \in c.shares : r.header = l.header \/ r.seq = l.seq => r = l
    BY <1>1, <1>2 DEF OneCredit
  <2>5. \A r \in shares[p] : r.origin = p /\ r.seq <= d.shareMark => r \in c.shares
    <3> SUFFICES ASSUME NEW r \in shares[p], r.origin = p, r.seq <= d.shareMark PROVE r \in c.shares
      OBVIOUS
    <3>1. r.seq <= c.shareSeq
      BY SMTT(30), <1>2, <1>3, <1>6
    <3> QED BY <3>1 DEF Since
  <2>6. \A r \in Own(n, shares[p]) : \A l \in Own(n, c.shares) : r.seq <= l.seq => r \in c.shares
    <3> SUFFICES ASSUME NEW r \in Own(n, shares[p]), NEW l \in Own(n, c.shares), r.seq <= l.seq
                 PROVE  r \in c.shares
      OBVIOUS
    <3>1. l \in c.shares /\ l.seq <= c.shareMark /\ r \in shares[p] /\ r.origin # p
      BY <1>1, <1>5 DEF Own
    <3>2. r.seq \in Nat /\ l.seq \in Nat
      BY <1>2, <1>3, <3>1
    <3>3. r.seq <= c.shareMark
      BY SMTT(30), <1>2, <3>1, <3>2
    <3> QED BY <3>1, <3>3 DEF Since
  <2>7. \A r \in Own(n, shares[p]) : \A l \in c.shares : r.seq = l.seq \/ r.header = l.header => r = l
    BY <1>1, <1>2 DEF OneCredit, Own
  <2> QED BY <1>5, <1>6, <2>1, <2>2, <2>3, <2>4, <2>5, <2>6, <2>7 DEF FitShares
<1>8. FitSync(n, d)
  <2>1. IsFiniteSet(c.synced)
    BY <1>1, <1>2, FS_Subset DEF Numbered
  <2>2. \A b \in c.synced : b \in synced[p] /\ (b.origin = n => b \in synced[n])
    BY <1>1, <1>2, <1>4
  <2>3. \A b \in c.synced : b.origin # n => b.window \subseteq c.shares
    <3>1. \A b \in c.synced : b.origin \in Nodes
      BY RowFields DEF Copies
    <3>2. \A b \in c.synced : b.origin # n => b.origin = p
      BY <3>1, Pairs
    <3> QED BY <3>2 DEF Sound
  <2>4. /\ \A b, a \in c.synced : b.kind = a.kind /\ b.id = a.id => b = a
        /\ \A b \in Own(n, synced[p]), a \in c.synced : b.kind = a.kind /\ b.id = a.id => b = a
    BY <1>1, <1>2 DEF OneName, Own
  <2>5. \A k \in Kinds : d.syncMark[k] = 0
    OBVIOUS
  <2>6. /\ \A b \in open[p] : 0 < b.sync
        /\ 0 <= syncSeq[p]
        /\ \A b \in synced[p] : ~(b.sync <= 0)
    BY SMTT(30), <1>1 DEF SyncTypes, SyncRecords
  <2>7. \A k \in Kinds : \A b \in Theirs(n, k) : ~(b.sync <= 0)
    BY <2>6 DEF Theirs
  <2> QED BY <2>1, <2>2, <2>3, <2>4, <2>5, <2>6, <2>7 DEF FitSync
<1> QED BY <1>7, <1>8

LEMMA Rebuilds ==
    ASSUME LogInv(Nodes), restores = 0, NEW n \in Nodes, Repersonalise(n)
    PROVE  LogInv(Nodes \ {n})'
<1> DEFINE p == Peer(n)
           c == backup[p]
           a == AboveAll(Seqs(c.shares), Greatest(c.shareSeq, c.shareMark))
           s == AtOrAbove(n, a)
           m == AboveAll(Seqs(Own(p, c.shares)), p)
           t == AboveAll({b.sync : b \in c.synced} \cup {c.syncSeq},
                         Greatest(c.syncMark["block"], c.syncMark["prepared"]))
           z == [k \in Kinds |-> 0]
           d == [c EXCEPT !.shareSeq = s, !.shareMark = m, !.refused = 0, !.quarantine = {},
                          !.syncSeq = t, !.syncMark = z, !.verified = 0, !.evidence = restores + 2]
<1>1. /\ PeerInv(Nodes) /\ LogTypes /\ p \in Nodes /\ Unrolled(p) /\ c \in Copies /\ Sound(p, c)
      /\ Since(p, c) /\ c.shares \subseteq shares[p] /\ c.synced \subseteq synced[p]
      /\ Folding(p) /\ Numbered(p, Nodes)
  <2>1. p \in Nodes /\ LogTypes /\ c # <<>>
    BY Pairs DEF LogInv, Repersonalise
  <2>2. c \in Copies /\ Unrolled(p) /\ Sound(p, c) /\ Since(p, c)
    BY <2>1 DEF LogInv, LogTypes, Unrolled
  <2> QED BY <2>1, <2>2 DEF LogInv, PeerInv, ShareInv, SyncInv, Since
<1>2. /\ 0 \in Nat /\ restores + 2 = 2 /\ 2 \in Nat /\ 2 # 0 /\ 0 + 1 \in Nat /\ 0 + 1 # 0
      /\ p \in Nat
  BY SMTT(30), <1>1 DEF Nodes
<1> HIDE DEF c
<1>3. /\ c.shares \in SUBSET ShareRows /\ IsFiniteSet(c.shares) /\ c.shareSeq \in Nat
      /\ c.shareMark \in Nat /\ c.synced \in SUBSET SyncRecords /\ IsFiniteSet(c.synced)
      /\ c.syncSeq \in Nat /\ c.syncMark \in [Kinds -> Nat]
  <2>1. /\ c.shares \in SUBSET ShareRows /\ c.shareSeq \in Nat
        /\ c.shareMark \in Nat /\ c.synced \in SUBSET SyncRecords
        /\ c.syncSeq \in Nat /\ c.syncMark \in [Kinds -> Nat]
    BY <1>1 DEF Copies
  <2> QED BY <1>1, <2>1, FS_Subset DEF Folding, Numbered
<1>4. /\ s \in Nat /\ s % 2 = n /\ c.shareSeq <= s /\ \A r \in c.shares : r.seq <= s
  <2> DEFINE g == Greatest(c.shareSeq, c.shareMark)
  <2>1. g \in Nat /\ c.shareSeq <= g
    BY <1>3, GreatestOf
  <2> HIDE DEF g
  <2>2. IsFiniteSet(Seqs(c.shares)) /\ Seqs(c.shares) \subseteq Nat
    BY <1>3, Numbers
  <2>3. AboveAll(Seqs(c.shares), g) \in Nat /\ g <= AboveAll(Seqs(c.shares), g)
        /\ \A r \in c.shares : r.seq \in Nat /\ r.seq <= AboveAll(Seqs(c.shares), g)
    BY <2>1, <2>2, Above DEF Seqs
  <2>4. a \in Nat /\ g <= a /\ \A r \in c.shares : r.seq \in Nat /\ r.seq <= a
    BY <2>3 DEF g
  <2> HIDE DEF a
  <2>5. AtOrAbove(n, a) \in Nat /\ a <= AtOrAbove(n, a) /\ AtOrAbove(n, a) % 2 = n
    BY <2>4, Keys
  <2>6. c.shareSeq <= AtOrAbove(n, a) /\ \A r \in c.shares : r.seq <= AtOrAbove(n, a)
    BY SMTT(30), <1>3, <2>1, <2>4, <2>5
  <2> QED BY <2>5, <2>6
<1>5. m \in Nat /\ m \in Seqs(Own(p, c.shares)) \cup {p}
  <2>1. Own(p, c.shares) \subseteq c.shares
    BY DEF Own
  <2>2. IsFiniteSet(Own(p, c.shares)) /\ Own(p, c.shares) \in SUBSET ShareRows
    BY <1>3, <2>1, FS_Subset
  <2>3. IsFiniteSet(Seqs(Own(p, c.shares))) /\ Seqs(Own(p, c.shares)) \subseteq Nat
    BY <2>2, Numbers
  <2> QED BY <1>2, <2>3, Above
<1>6. t \in Nat
  <2> DEFINE S == {b.sync : b \in c.synced}
             q == Greatest(c.syncMark["block"], c.syncMark["prepared"])
  <2>1. IsFiniteSet(S) /\ S \subseteq Nat
    BY <1>3, Numbers
  <2>2. q \in Nat
    BY <1>3, GreatestOf DEF Kinds
  <2> HIDE DEF S, q
  <2>3. IsFiniteSet(S \cup {c.syncSeq}) /\ S \cup {c.syncSeq} \subseteq Nat
    BY <1>3, <2>1, FS_AddElement
  <2>4. AboveAll(S \cup {c.syncSeq}, q) \in Nat
    BY <2>2, <2>3, Above
  <2> QED BY <2>4 DEF S, q
<1>7. /\ restores' = restores + 1 /\ stage[p] = "idle" /\ recovery[p] = "none"
      /\ Load(n, d) /\ reach' = [reach EXCEPT ![n] = FALSE] /\ backup' = backup /\ Restarted(n)
  BY DEF Repersonalise, c
<1>8. z \in [Kinds -> Nat]
  BY <1>2
<1> HIDE DEF s, a, m, t, z
<1>9. /\ d \in Copies /\ d.shares = c.shares /\ d.synced = c.synced /\ d.watermark = c.watermark
      /\ d.rollup = c.rollup /\ d.quarantine = {} /\ d.syncMark = z /\ d.shareSeq = s
      /\ d.shareMark = m /\ d.verified = 0 /\ d.evidence = 2
  <2>1. d \in Copies
    BY <1>1, <1>2, <1>4, <1>5, <1>6, <1>8 DEF Copies
  <2>2. /\ d.shares = c.shares /\ d.synced = c.synced /\ d.watermark = c.watermark
        /\ d.rollup = c.rollup
    BY <1>1 DEF Copies
  <2>3. /\ d.quarantine = {} /\ d.syncMark = z /\ d.shareSeq = s /\ d.shareMark = m /\ d.verified = 0
        /\ d.evidence = restores + 2
    BY <1>1 DEF Copies
  <2> HIDE DEF d
  <2> QED BY <1>2, <2>1, <2>2, <2>3
<1> HIDE DEF d
<1>10. FitShares(n, d) /\ FitSync(n, d)
  BY <1>1, <1>4, <1>5, <1>9, CopyFits DEF z
<1>11. /\ Stopped(n) /\ PassTypes'
       /\ latch' \in [Nodes -> Nat] /\ latch'[n] = 0 /\ lost' \in [Nodes -> BOOLEAN]
       /\ recovery' \in [Nodes -> RecoverySteps] /\ proving' \in [Nodes -> Nat]
  BY <1>7, StopsOrWaits DEF Load
<1>12. LogTypes'
  <2>1. evidence' \in [Nodes -> Nat] /\ verified' \in [Nodes -> Nat]
    BY <1>1, <1>2, <1>7, <1>9 DEF Load, LogTypes
  <2>2. reach' \in [Nodes -> BOOLEAN]
    BY <1>1, <1>7 DEF LogTypes
  <2> QED BY <1>1, <1>2, <1>7, <1>11, <2>1, <2>2 DEF LogTypes
<1> QED BY <1>2, <1>7, <1>9, <1>10, <1>11, <1>12, Loads

----------------------------------------------------------------------------
LEMMA OwnStarts ==
    ASSUME OwnInit
    PROVE  LogInv(Nodes)
<1>1. /\ PeerInv(Nodes) /\ ShareTypes /\ SyncTypes /\ PassTypes
  BY PeerInitInv DEF OwnInit, PeerInv, ShareInv, SyncInv
<1>2. 0 \in Nat /\ 1 \in Nat /\ 1 # 0
  BY SMTT(30)
<1>3. LogTypes
  BY <1>2 DEF OwnInit, LogTypes, RecoverySteps
<1>4. ASSUME NEW n \in Nodes
      PROVE  Process(n, Nodes) /\ OneName(n) /\ Unrolled(n)
  <2>1. /\ shares[n] = {} /\ synced[n] = {} /\ open[n] = {} /\ stage[n] = "idle" /\ recovery[n] = "none"
        /\ evidence[n] = 1 /\ verified[n] = 1 /\ latch[n] = 1 /\ backup[n] = <<>>
    BY DEF OwnInit, Init
  <2>2. Process(n, Nodes) /\ OneName(n)
    BY <2>1 DEF Process, OneName
  <2>3. InOrder(n) /\ OwnWindows(n)
    BY <2>1 DEF InOrder, OwnWindows
  <2> QED BY <2>1, <2>2, <2>3 DEF Unrolled
<1> QED BY <1>1, <1>3, <1>4 DEF LogInv

(* One rollback at most, noticed before anything is appended.  With two it  *)
(* is false: a node rebuilt from a copy of its peer loses a row, and the    *)
(* peer, rebuilt from an older copy of the node, then holds it.  A share    *)
(* appended before the pass that notices a rollback takes a key that the    *)
(* peer holds.                                                              *)
OneRollback == MaxRestores <= 1 /\ ~AppendsFirst

LEMMA OwnSteps ==
    ASSUME OneRollback, NEW W \in SUBSET Nodes, LogInv(W), [OwnNext]_ownVars
    PROVE  \E V \in SUBSET Nodes : LogInv(V)'
<1>1. CASE UNCHANGED ownVars
  BY <1>1, LogStutters
<1>2. ASSUME NEW n \in Nodes,
             \/ Serve(n) \/ ("sweep" \in does[n] /\ Sweep(n) /\ UNCHANGED logVars) \/ StopFrontend(n)
             \/ LatchWithoutPeer(n) \/ Exit(n) \/ Backup(n)
      PROVE  LogInv(W)'
  BY <1>2, Serves, LogSweeps, LatchSteps, ExitsAndLatchesAlone, BacksUp DEF OneRollback
<1>3. ASSUME NEW n \in Nodes, Recover(n), ~RaiseOwnSequences(n)
      PROVE  LogInv(W)'
  BY <1>3, LatchSteps, ReadsOwnShares, InsertsOwnShares, ReadsOwnSync, InsertsOwnSync DEF Recover
<1>4. ASSUME NEW n \in Nodes, RaiseOwnSequences(n)
      PROVE  LogInv(W \cup {n})'
  BY <1>4, RaisesOwn
<1>5. ASSUME NEW n \in Nodes,
             \/ \E timeline \in {"new", "kept"}, cleared, under \in BOOLEAN :
                  Restore(n, timeline, cleared, under)
             \/ Repersonalise(n)
      PROVE  LogInv(Nodes \ {n})'
  <2>1. restores < MaxRestores
    BY <1>5 DEF Restore, Repersonalise
  <2>2. restores = 0
    BY SMTT(30), <2>1, OwnLogAssumption DEF OneRollback, LogInv, LogTypes
  <2>3. LogInv(Nodes)
    <3>1. W = Nodes
      BY <2>2 DEF LogInv
    <3> QED BY <3>1
  <2> QED BY <1>5, <2>2, <2>3, Restores, Rebuilds
<1> QED
  <2>1. \A n \in Nodes : W \cup {n} \in SUBSET Nodes /\ Nodes \ {n} \in SUBSET Nodes
    OBVIOUS
  <2>2. CASE OwnNext
    <3>1. PICK n \in Nodes :
            \/ Serve(n) \/ ("sweep" \in does[n] /\ Sweep(n) /\ UNCHANGED logVars) \/ StopFrontend(n)
            \/ Recover(n) \/ LatchWithoutPeer(n) \/ Exit(n) \/ Backup(n)
            \/ \E timeline \in {"new", "kept"}, cleared, under \in BOOLEAN :
                 Restore(n, timeline, cleared, under)
            \/ Repersonalise(n)
      BY <2>2 DEF OwnNext
    <3> QED BY <1>2, <1>3, <1>4, <1>5, <2>1, <3>1
  <2> QED BY <1>1, <2>2

LEMMA OwnInvariant ==
    ASSUME OneRollback
    PROVE  OwnSpec => []OwnInv
<1>1. OwnInit => OwnInv
  BY OwnStarts DEF OwnInv
<1>2. OwnInv /\ [OwnNext]_ownVars => OwnInv'
  BY OwnSteps DEF OwnInv
<1> QED BY <1>1, <1>2, PTL DEF OwnSpec

(* What a node holds of its own and what its peer holds of it agree. *)
LEMMA OwnRowsAgree ==
    ASSUME NEW W, LogInv(W), NEW n \in Nodes, Peer(n) \in W
    PROVE  /\ \A r \in shares[n], l \in shares[Peer(n)] : r.seq = l.seq => r = l
           /\ \A b \in synced[n], c \in synced[Peer(n)] : b.origin = c.origin /\ b.sync = c.sync => b = c
<1> DEFINE p == Peer(n)
<1>1. /\ p \in Nodes /\ p # n /\ Peer(p) = n /\ ShareTypes /\ SyncTypes
      /\ Raised(n, W) /\ Raised(p, W) /\ OneCredit(n) /\ OneCredit(p)
      /\ Numbered(n, W) /\ Numbered(p, W)
      /\ n \notin W => OwnPrefix(n) /\ OwnLanded(n)
  BY Pairs DEF LogInv, PeerInv, ShareInv, SyncInv, Behind
<1>2. /\ \A r \in shares[n] \cup shares[p] : r.origin = n \/ r.origin = p
      /\ \A b \in synced[n] : b.origin = n \/ b.origin = p
  <2>1. /\ \A r \in shares[n] \cup shares[p] : r.origin \in Nodes
        /\ \A b \in synced[n] : b.origin \in Nodes
    BY <1>1, RowFields DEF ShareTypes, SyncTypes
  <2> QED BY <2>1, Pairs
<1>3. ASSUME NEW r \in shares[n], NEW l \in shares[p], r.seq = l.seq
      PROVE  r = l
  <2>1. CASE r.origin = p
    BY <1>1, <1>3, <2>1 DEF Raised, OneCredit
  <2>2. CASE l.origin = n
    <3>1. CASE n \in W
      BY <1>1, <1>3, <2>2, <3>1 DEF Raised, OneCredit
    <3>2. CASE n \notin W
      BY <1>1, <1>3, <2>2, <3>2 DEF OwnPrefix, Own
    <3> QED BY <3>1, <3>2
  <2>3. CASE r.origin = n /\ l.origin = p
    BY <1>1, <1>3, <2>3 DEF Raised
  <2> QED BY <1>2, <2>1, <2>2, <2>3
<1>4. ASSUME NEW b \in synced[n], NEW c \in synced[p], b.origin = c.origin, b.sync = c.sync
      PROVE  b = c
  <2>1. CASE b.origin = p
    BY <1>1, <1>4, <2>1 DEF Numbered
  <2>2. CASE b.origin = n /\ n \in W
    BY <1>1, <1>4, <2>2 DEF Numbered
  <2>3. CASE b.origin = n /\ n \notin W
    BY <1>1, <1>4, <2>3 DEF OwnLanded, Own
  <2> QED BY <1>2, <2>1, <2>2, <2>3
<1> QED BY <1>3, <1>4

(* The latch of D-8 tells the truth: whatever a node is restored to or      *)
(* rebuilt from, and wherever its recovery, its peer's passes and restarts  *)
(* are, a frontend latched on the server its database runs on holds every   *)
(* row of its own that the peer holds (ensure_own_log, peer_sync/engine.rs). *)
THEOREM LatchedLogsAreWhole ==
    ASSUME OneRollback
    PROVE  OwnSpec => []LatchMeansWhole
<1>1. OwnInv => LatchMeansWhole
  <2> SUFFICES ASSUME NEW W, LogInv(W), NEW n \in Nodes, latch[n] # 0, latch[n] = evidence[n]
               PROVE  /\ Own(n, shares[Peer(n)]) \subseteq shares[n]
                      /\ \A b \in Own(n, synced[Peer(n)]) : Named(synced[n], b.kind, b.id) # {}
    BY DEF OwnInv, LatchMeansWhole
  <2>1. n \in W
    BY DEF LogInv, Behind, Locked
  <2>2. /\ Raised(Peer(n), W) /\ Numbered(Peer(n), W) /\ Peer(n) # n /\ Peer(Peer(n)) = n
    BY Pairs DEF LogInv, PeerInv, ShareInv, SyncInv
  <2> QED BY <2>1, <2>2 DEF Raised, Numbered, Own, Named
<1> QED BY <1>1, OwnInvariant, PTL

(* The sequences go above the peer's cursors and rows before the latch, so  *)
(* no key of a row that was lost and put back is drawn a second time: the   *)
(* two ledgers never hold different rows under one key.                     *)
THEOREM RollbacksReuseNoKey ==
    ASSUME OneRollback
    PROVE  OwnSpec => []OneRowPerKey
<1>1. OwnInv => OneRowPerKey
  <2> SUFFICES ASSUME NEW W, LogInv(W) PROVE OneRowPerKey
    BY DEF OwnInv
  <2>1. 0 \in Nodes /\ 1 \in Nodes /\ Peer(0) = 1 /\ Peer(1) = 0
    BY SMTT(30) DEF Nodes, Peer
  <2>2. CASE 1 \in W
    BY <2>1, <2>2, OwnRowsAgree DEF OneRowPerKey
  <2>3. CASE 0 \in W
    BY <2>1, <2>3, OwnRowsAgree DEF OneRowPerKey
  <2>4. 0 \in W \/ 1 \in W
    BY <2>1 DEF LogInv
  <2> QED BY <2>2, <2>3, <2>4
<1> QED BY <1>1, OwnInvariant, PTL

(* A restore or a rebuild takes rows away on one side only, and the streams *)
(* stay good through it and through the recovery: the cursors are over rows *)
(* that are held, a header is credited once, windows are held, a confirmed  *)
(* block's shares are on the peer, and the rollups count each share once.   *)
THEOREM RollbacksKeepTheStreams ==
    ASSUME OneRollback
    PROVE  OwnSpec => [](CursorsCover /\ HeaderCreditedOnce /\ WindowsHeld /\ ConfirmedMeansHeld
                          /\ FoldedOnce)
<1>1. OwnInv => CursorsCover /\ HeaderCreditedOnce /\ WindowsHeld /\ ConfirmedMeansHeld /\ FoldedOnce
  BY PeerMeans DEF OwnInv, LogInv
<1> QED BY <1>1, OwnInvariant, PTL
=============================================================================
