-------------------------- MODULE ShareStreamProofs --------------------------
(***************************************************************************)
(* The share stream of a pair: the invariant of its rows, keys, cursor,    *)
(* pull and rollups, and that every step of either node's streams keeps    *)
(* it.  A node raises its share sequence above a pulled row before it      *)
(* holds the row, so that a cursor moved to a row's key is never above the *)
(* key of a share still to be appended (Raised, Scanned).                  *)
(*                                                                         *)
(* W is the set of nodes whose log is whole: both of them while databases  *)
(* keep what they committed; a node that was rolled back is out of it      *)
(* until it has its own rows back and its sequences raised.  What is said  *)
(* of such a node's sequence and of the rows its peer holds of it waits    *)
(* for that.                                                               *)
(***************************************************************************)
EXTENDS PeerStreams, FiniteSetTheorems, TLAPS

USE ZenonT(60)

ShareRows == [seq : Nat \ {0}, origin : Nodes, header : Headers]
SyncRecords == [sync : Nat \ {0}, origin : Nodes, kind : Kinds, id : Ids, window : SUBSET ShareRows]
Stages == {"idle", "raise", "check", "insert", "commit", "barrier", "block", "block_apply",
           "prepared", "prepared_apply"}

ShareTypes ==
  /\ shares \in [Nodes -> SUBSET ShareRows]
  /\ shareSeq \in [Nodes -> Nat] /\ shareMark \in [Nodes -> Nat] /\ refused \in [Nodes -> Nat]
  /\ quarantine \in [Nodes -> SUBSET ShareRows]
  /\ watermark \in [Nodes -> Nat] /\ rollup \in [Nodes -> Nat]
SyncTypes ==
  /\ synced \in [Nodes -> SUBSET SyncRecords] /\ syncSeq \in [Nodes -> Nat]
  /\ open \in [Nodes -> SUBSET SyncRecords] /\ syncMark \in [Nodes -> [Kinds -> Nat]]
PassTypes ==
  /\ stage \in [Nodes -> Stages]
  /\ batch \in [Nodes -> [through : Nat, rows : SUBSET ShareRows]]
  /\ fresh \in [Nodes -> SUBSET ShareRows]
  /\ queue \in [Nodes -> SUBSET SyncRecords]
  /\ whole \in [Nodes -> BOOLEAN] /\ safe \in [Nodes -> Nat]

(* A ledger's shares are below its sequence, its own ones of its parity,    *)
(* and the others are the peer's.                                           *)
Raised(n, W) ==
  /\ \A r \in shares[n] : r.seq <= shareSeq[n]
  /\ \A r \in shares[n] : r.origin = n => r.seq % 2 = n
  /\ shareSeq[n] % 2 = n
  /\ Peer(n) \in W => \A r \in shares[n] : r.origin # n => r \in shares[Peer(n)]
OneCredit(n) == \A r, l \in shares[n] : r.header = l.header \/ r.seq = l.seq => r = l

(* The cursor is at the key of a row the peer holds, or at its floor.       *)
Scanned(n, W) ==
  /\ Peer(n) \in W => shareMark[n] <= shareSeq[Peer(n)]
  /\ \A r \in shares[Peer(n)] :
       r.origin = Peer(n) /\ r.seq <= shareMark[n] => r \in shares[n] \cup quarantine[n]
  /\ \A r \in quarantine[n] : r.seq <= refused[n]

(* The pull in hand has every share the peer wrote up to where it read.     *)
Pulling(n) ==
  /\ stage[n] \in {"raise", "check", "insert", "commit"} =>
       /\ batch[n].through <= shareSeq[Peer(n)]
       /\ \A r \in batch[n].rows : r \in shares[Peer(n)] /\ r.origin = Peer(n)
       /\ \A r \in shares[Peer(n)] :
            r.origin = Peer(n) /\ shareMark[n] < r.seq /\ r.seq <= batch[n].through =>
              r \in batch[n].rows \cup shares[n]
  /\ stage[n] \in {"check", "insert", "commit"} => \A r \in batch[n].rows : r.seq <= shareSeq[n]
  /\ stage[n] \in {"insert", "commit"} => fresh[n] \subseteq batch[n].rows
  /\ stage[n] = "commit" =>
       \A r \in fresh[n], l \in shares[n] : r.header # l.header /\ r.seq # l.seq

Folding(n) ==
  /\ IsFiniteSet(shares[n]) /\ watermark[n] <= shareSeq[n]
  /\ rollup[n] = Cardinality({r \in shares[n] : r.seq <= watermark[n]})

ShareInv(W) ==
  /\ ShareTypes /\ PassTypes
  /\ \A n \in Nodes : Raised(n, W) /\ OneCredit(n) /\ Scanned(n, W) /\ Pulling(n) /\ Folding(n)

----------------------------------------------------------------------------
LEMMA Pairs ==
    ASSUME NEW n \in Nodes
    PROVE  /\ Peer(n) \in Nodes /\ Peer(n) # n /\ Peer(Peer(n)) = n
           /\ \A m \in Nodes : m = n \/ m = Peer(n)
  BY SMTT(30) DEF Nodes, Peer

LEMMA GreatestOf ==
    ASSUME NEW a \in Nat, NEW b \in Nat
    PROVE  /\ Greatest(a, b) \in Nat /\ a <= Greatest(a, b) /\ b <= Greatest(a, b)
           /\ Greatest(a, b) = a \/ Greatest(a, b) = b
  BY SMTT(30) DEF Greatest

LEMMA Keys ==
    ASSUME NEW n \in Nodes, NEW s \in Nat
    PROVE  /\ AtOrAbove(n, s) \in Nat /\ s <= AtOrAbove(n, s) /\ AtOrAbove(n, s) % 2 = n
           /\ s % 2 = n => (s + 2) % 2 = n
<1>1. /\ s % 2 \in {0, 1} /\ (s + 2) % 2 = s % 2
      /\ (s % 2 = 0 => (s + 1) % 2 = 1) /\ (s % 2 = 1 => (s + 1) % 2 = 0)
  BY SMTT(30)
<1> QED BY SMTT(30), <1>1 DEF Nodes, AtOrAbove

----------------------------------------------------------------------------
(* The share stream. *)

(* A step that leaves the ledgers' shares and their cursors alone. *)
LEMMA ShareKept ==
    ASSUME NEW W, ShareInv(W), PassTypes', \A m \in Nodes : Pulling(m)',
           UNCHANGED <<shares, shareSeq, shareMark, refused, quarantine, watermark, rollup>>
    PROVE  ShareInv(W)'
<1>1. ShareTypes'
  BY DEF ShareInv, ShareTypes
<1>2. \A n \in Nodes : Raised(n, W)' /\ OneCredit(n)'
  BY DEF ShareInv, Raised, OneCredit
<1>3. \A n \in Nodes : Scanned(n, W)' /\ Folding(n)'
  BY DEF ShareInv, Scanned, Folding
<1> QED BY <1>1, <1>2, <1>3 DEF ShareInv

LEMMA PullingSame ==
    ASSUME NEW m \in Nodes, Pulling(m),
           UNCHANGED <<stage, batch, fresh, shares, shareSeq, shareMark>>
    PROVE  Pulling(m)'
  BY DEF Pulling

(* A pull stays good while the other node's ledger grows above its sequence. *)
LEMMA PullingKept ==
    ASSUME NEW W, ShareInv(W), NEW m \in Nodes, ShareTypes',
           stage'[m] = stage[m], batch'[m] = batch[m], fresh'[m] = fresh[m],
           shareMark'[m] = shareMark[m], shares'[m] = shares[m], shareSeq[m] <= shareSeq'[m],
           shares[Peer(m)] \subseteq shares'[Peer(m)],
           shareSeq[Peer(m)] <= shareSeq'[Peer(m)],
           \A r \in shares'[Peer(m)] \ shares[Peer(m)] :
              r.origin = Peer(m) => shareSeq[Peer(m)] < r.seq \/ r \in shares[m]
    PROVE  Pulling(m)'
<1>1. /\ shareSeq[m] \in Nat /\ shareSeq'[m] \in Nat /\ shareSeq[Peer(m)] \in Nat
      /\ shareSeq'[Peer(m)] \in Nat /\ shareMark[m] \in Nat /\ batch[m].through \in Nat
      /\ batch[m].rows \subseteq ShareRows /\ shares'[Peer(m)] \subseteq ShareRows
  BY Pairs DEF ShareInv, ShareTypes, PassTypes
<1>2. \A r \in ShareRows : r.seq \in Nat
  BY DEF ShareRows
<1>3. Pulling(m)
  BY DEF ShareInv
<1>4. ASSUME stage[m] \in {"raise", "check", "insert", "commit"}
      PROVE  /\ batch[m].through <= shareSeq'[Peer(m)]
             /\ \A r \in batch[m].rows : r \in shares'[Peer(m)] /\ r.origin = Peer(m)
             /\ \A r \in shares'[Peer(m)] :
                  r.origin = Peer(m) /\ shareMark[m] < r.seq /\ r.seq <= batch[m].through =>
                    r \in batch[m].rows \cup shares[m]
  BY SMTT(30), <1>1, <1>2, <1>3, <1>4 DEF Pulling
<1>5. ASSUME stage[m] \in {"check", "insert", "commit"}
      PROVE  \A r \in batch[m].rows : r.seq <= shareSeq'[m]
  BY SMTT(30), <1>1, <1>2, <1>3, <1>5 DEF Pulling
<1> QED BY <1>3, <1>4, <1>5 DEF Pulling

(* A step of a pass that writes no row of either ledger. *)
LEMMA PullSteps ==
    ASSUME NEW W, ShareInv(W), NEW n \in Nodes, PassTypes',
           UNCHANGED <<shares, shareSeq, shareMark, refused, quarantine, watermark, rollup>>,
           \A m \in Nodes \ {n} : stage'[m] = stage[m] /\ batch'[m] = batch[m] /\ fresh'[m] = fresh[m],
           Pulling(n)'
    PROVE  ShareInv(W)'
<1>1. ShareTypes'
  BY DEF ShareInv, ShareTypes
<1>2. ASSUME NEW m \in Nodes \ {n} PROVE Pulling(m)'
  <2>1. shareSeq[m] <= shareSeq'[m] /\ shareSeq[Peer(m)] <= shareSeq'[Peer(m)]
    BY SMTT(30), Pairs DEF ShareInv, ShareTypes
  <2> QED BY <1>1, <2>1, PullingKept
<1> QED BY <1>2, ShareKept

LEMMA PassTypesKept ==
    ASSUME PassTypes, NEW n \in Nodes, NEW s \in Stages, Goto(n, s)
    PROVE  /\ stage' \in [Nodes -> Stages] /\ stage'[n] = s
           /\ \A m \in Nodes \ {n} : stage'[m] = stage[m]
  BY DEF PassTypes, Goto

(* The pass is at another stream, or over. *)
LEMMA OtherStages ==
    ASSUME NEW W, ShareInv(W), NEW n \in Nodes, PassTypes',
           UNCHANGED <<shares, shareSeq, shareMark, refused, quarantine, watermark, rollup>>,
           \A m \in Nodes \ {n} : stage'[m] = stage[m] /\ batch'[m] = batch[m] /\ fresh'[m] = fresh[m],
           \/ stage'[n] \notin {"raise", "check", "insert", "commit"}
           \/ UNCHANGED <<stage, batch, fresh>>
    PROVE  ShareInv(W)'
<1>1. Pulling(n)'
  BY SMTT(30) DEF ShareInv, Pulling
<1> QED BY <1>1, PullSteps

LEMMA BatchTypes ==
    ASSUME NEW t \in Nat, NEW rows \in SUBSET ShareRows
    PROVE  /\ NoBatch \in [through : Nat, rows : SUBSET ShareRows]
           /\ [through |-> t, rows |-> rows] \in [through : Nat, rows : SUBSET ShareRows]
  BY DEF NoBatch

LEMMA ReadsShares ==
    ASSUME NEW W, ShareInv(W), NEW n \in Nodes, ReadShares(n)
    PROVE  ShareInv(W)'
<1>1. /\ UNCHANGED <<shares, shareSeq, shareMark, refused, quarantine, watermark, rollup>>
      /\ UNCHANGED <<fresh, queue, whole, safe>>
  BY DEF ReadShares, dbVars
<1>2. Peer(n) \in Nodes /\ shares[Peer(n)] \subseteq ShareRows /\ PassTypes
  BY Pairs DEF ShareInv, ShareTypes
<1>3. CASE Goto(n, "barrier") /\ batch' = batch
  <2>1. "barrier" \in Stages
    BY DEF Stages
  <2>2. PassTypes'
    BY <1>1, <1>2, <1>3, <2>1, PassTypesKept DEF PassTypes
  <2> QED BY <1>1, <1>2, <1>3, <2>1, <2>2, PassTypesKept, OtherStages
<1>4. ASSUME NEW through \in Seqs(Scan(shares[Peer(n)], shareMark[n])),
             batch' = [batch EXCEPT ![n] =
                  [through |-> through,
                   rows |-> {r \in shares[Peer(n)] : /\ r.origin = Peer(n)
                                                     /\ shareMark[n] < r.seq
                                                     /\ r.seq <= through}]],
             Goto(n, "raise")
      PROVE  ShareInv(W)'
  <2>1. "raise" \in Stages
    BY DEF Stages
  <2>2. PICK r \in shares[Peer(n)] : through = r.seq
    BY <1>4 DEF Seqs, Scan
  <2>3. through \in Nat /\ through <= shareSeq[Peer(n)]
    BY <1>2, <2>2 DEF ShareInv, Raised, ShareRows
  <2>4. PassTypes'
    <3>1. batch' \in [Nodes -> [through : Nat, rows : SUBSET ShareRows]]
      BY <1>2, <1>4, <2>3 DEF PassTypes
    <3> QED BY <1>1, <1>2, <1>4, <2>1, <3>1, PassTypesKept DEF PassTypes
  <2>5. /\ stage'[n] = "raise" /\ batch'[n].through = through
        /\ batch'[n].rows = {l \in shares[Peer(n)] : /\ l.origin = Peer(n)
                                                     /\ shareMark[n] < l.seq
                                                     /\ l.seq <= through}
        /\ \A m \in Nodes \ {n} : stage'[m] = stage[m] /\ batch'[m] = batch[m]
    BY <1>2, <1>4, <2>1, PassTypesKept DEF PassTypes
  <2>6. Pulling(n)'
    BY <1>1, <2>3, <2>5 DEF Pulling
  <2> QED BY <1>1, <2>4, <2>5, <2>6, PullSteps
<1> QED BY <1>3, <1>4 DEF ReadShares

LEMMA SequenceRaises ==
    ASSUME NEW W, ShareInv(W), NEW n \in Nodes, NEW s \in Nat, shareSeq[n] <= s, s % 2 = n,
           shareSeq' = [shareSeq EXCEPT ![n] = s],
           UNCHANGED <<shares, shareMark, refused, quarantine, watermark, rollup>>, PassTypes',
           \A m \in Nodes \ {n} : stage'[m] = stage[m] /\ batch'[m] = batch[m] /\ fresh'[m] = fresh[m],
           Pulling(n)'
    PROVE  ShareInv(W)'
<1>1. /\ shareSeq \in [Nodes -> Nat] /\ shares \in [Nodes -> SUBSET ShareRows]
      /\ shareMark \in [Nodes -> Nat] /\ watermark \in [Nodes -> Nat]
  BY DEF ShareInv, ShareTypes
<1>2. ShareTypes'
  BY <1>1 DEF ShareInv, ShareTypes
<1>3. /\ shareSeq'[n] = s /\ \A m \in Nodes \ {n} : shareSeq'[m] = shareSeq[m]
  BY <1>1
<1>4. \A m \in Nodes : shareSeq[m] \in Nat /\ shareSeq[m] <= shareSeq'[m] /\ shareSeq'[m] % 2 = m
  BY SMTT(30), <1>1, <1>3 DEF ShareInv, Raised
<1> SUFFICES ASSUME NEW m \in Nodes
             PROVE  Raised(m, W)' /\ OneCredit(m)' /\ Scanned(m, W)' /\ Pulling(m)' /\ Folding(m)'
  BY <1>2 DEF ShareInv
<1>5. /\ Raised(m, W) /\ OneCredit(m) /\ Scanned(m, W) /\ Folding(m)
      /\ Peer(m) \in Nodes /\ shareSeq'[m] \in Nat /\ shareSeq'[Peer(m)] \in Nat
      /\ \A r \in shares[m] : r.seq \in Nat
  BY SMTT(30), <1>1, <1>2, Pairs DEF ShareInv, ShareTypes, ShareRows
<1>6. Raised(m, W)'
  BY SMTT(30), <1>1, <1>4, <1>5 DEF Raised
<1>7. OneCredit(m)'
  BY <1>5 DEF OneCredit
<1>8. Scanned(m, W)' /\ Folding(m)'
  <2>1. /\ Peer(m) \in W => shareMark[m] <= shareSeq'[Peer(m)]
        /\ watermark[m] <= shareSeq'[m]
    BY SMTT(30), <1>1, <1>4, <1>5 DEF Scanned, Folding
  <2> QED BY <1>5, <2>1 DEF Scanned, Folding
<1>9. Pulling(m)'
  BY <1>2, <1>4, <1>5, PullingKept
<1> QED BY <1>6, <1>7, <1>8, <1>9

LEMMA RaisesSequence ==
    ASSUME NEW W, ShareInv(W), NEW n \in Nodes, RaiseShareSequence(n)
    PROVE  ShareInv(W)'
<1>1. /\ UNCHANGED <<shares, shareMark, refused, quarantine, watermark, rollup, batch, fresh>>
      /\ UNCHANGED <<queue, whole, safe>> /\ Goto(n, "check") /\ stage[n] = "raise"
  BY DEF RaiseShareSequence
<1>2. "check" \in Stages /\ PassTypes /\ Pulling(n) /\ Raised(n, W) /\ shareSeq \in [Nodes -> Nat]
  BY DEF Stages, ShareInv, ShareTypes
<1>3. PassTypes' /\ stage'[n] = "check" /\ \A m \in Nodes \ {n} : stage'[m] = stage[m]
  BY <1>1, <1>2, PassTypesKept DEF PassTypes
<1>4. /\ \A r \in batch[n].rows : r.seq \in Nat
      /\ shareMark[n] \in Nat /\ Peer(n) \in Nodes
  BY SMTT(30), <1>2, Pairs DEF PassTypes, ShareRows, ShareInv, ShareTypes
<1>5. ASSUME NEW s \in Nat, shareSeq[n] <= s, s % 2 = n, shareSeq' = [shareSeq EXCEPT ![n] = s],
             \A r \in batch[n].rows : r.seq <= s
      PROVE  ShareInv(W)'
  <2>1. shareSeq'[n] = s /\ shareSeq'[Peer(n)] = shareSeq[Peer(n)]
    BY <1>2, <1>5, Pairs
  <2>2. Pulling(n)'
    BY <1>1, <1>2, <1>3, <1>5, <2>1 DEF Pulling
  <2> QED BY <1>1, <1>3, <1>5, <2>2, SequenceRaises
<1>6. CASE batch[n].rows = {} /\ shareSeq' = shareSeq
  <2>1. shareSeq[n] \in Nat /\ shareSeq[n] <= shareSeq[n] /\ shareSeq[n] % 2 = n
    BY SMTT(30), <1>2 DEF Raised
  <2>2. shareSeq' = [shareSeq EXCEPT ![n] = shareSeq[n]]
    BY <1>2, <1>6
  <2> QED BY <1>5, <1>6, <2>1, <2>2
<1>7. ASSUME NEW top \in Seqs(batch[n].rows), IsTop(top, Seqs(batch[n].rows)),
             shareSeq' = [shareSeq EXCEPT ![n] = AtOrAbove(n, Greatest(top, @))]
      PROVE  ShareInv(W)'
  <2>1. top \in Nat /\ \A r \in batch[n].rows : r.seq <= top
    BY <1>4, <1>7 DEF Seqs, IsTop
  <2>2. shareSeq[n] \in Nat
    BY <1>2
  <2>3. /\ Greatest(top, shareSeq[n]) \in Nat /\ top <= Greatest(top, shareSeq[n])
        /\ shareSeq[n] <= Greatest(top, shareSeq[n])
    BY <2>1, <2>2, GreatestOf
  <2> DEFINE s == AtOrAbove(n, Greatest(top, shareSeq[n]))
  <2>4. s \in Nat /\ s % 2 = n /\ Greatest(top, shareSeq[n]) <= s
    BY <2>3, Keys
  <2>5. shareSeq[n] <= s /\ top <= s
    BY SMTT(30), <2>1, <2>2, <2>3, <2>4
  <2>6. \A r \in batch[n].rows : r.seq <= s
    BY SMTT(30), <1>4, <2>1, <2>4, <2>5
  <2>7. shareSeq' = [shareSeq EXCEPT ![n] = s]
    BY <1>7
  <2> QED BY <1>5, <2>4, <2>5, <2>6, <2>7
<1> QED BY <1>6, <1>7 DEF RaiseShareSequence

LEMMA ChecksShares ==
    ASSUME NEW W, ShareInv(W), NEW n \in Nodes, CheckShares(n) \/ InsertShares(n)
    PROVE  ShareInv(W)'
<1>1. /\ UNCHANGED <<shares, shareSeq, shareMark, refused, quarantine, watermark, rollup>>
      /\ UNCHANGED <<queue, whole, safe>> /\ stage[n] \in {"check", "insert"}
  BY DEF CheckShares, InsertShares, dbVars
<1>2. /\ PassTypes /\ Pulling(n) /\ batch[n].rows \subseteq ShareRows
      /\ \A s \in {"barrier", "insert", "commit"} : s \in Stages
  BY DEF ShareInv, PassTypes, Stages
<1>3. ASSUME NEW kept \in SUBSET batch[n].rows, NEW s \in {"insert", "commit"},
             fresh' = [fresh EXCEPT ![n] = kept], Goto(n, s), batch' = batch,
             s = "commit" => \A r \in kept, l \in shares[n] : r.header # l.header /\ r.seq # l.seq
      PROVE  ShareInv(W)'
  <2>1. /\ PassTypes' /\ stage'[n] = s /\ fresh'[n] = kept
        /\ \A m \in Nodes \ {n} : stage'[m] = stage[m] /\ fresh'[m] = fresh[m]
    BY <1>1, <1>2, <1>3, PassTypesKept DEF PassTypes
  <2>2. Pulling(n)'
    BY <1>1, <1>2, <1>3, <2>1 DEF Pulling
  <2> QED BY <1>1, <1>3, <2>1, <2>2, PullSteps
<1>4. CASE CheckShares(n)
  BY <1>3, <1>4 DEF CheckShares
<1>5. CASE InsertShares(n)
  <2> DEFINE inserted == {r \in fresh[n] : \A l \in shares[n] : l.seq # r.seq}
  <2>1. inserted \subseteq batch[n].rows /\ stage[n] = "insert"
    BY <1>2, <1>5 DEF InsertShares, Pulling
  <2>2. CASE /\ ~Unmapped(n, inserted) /\ fresh' = [fresh EXCEPT ![n] = inserted]
             /\ Goto(n, "commit") /\ batch' = batch
    <3>1. \A r \in inserted, l \in shares[n] : r.header # l.header /\ r.seq # l.seq
      BY <2>2 DEF Unmapped
    <3> QED BY <1>3, <2>1, <2>2, <3>1
  <2>3. CASE /\ fresh' = [fresh EXCEPT ![n] = {}] /\ batch' = [batch EXCEPT ![n] = NoBatch]
             /\ Goto(n, "barrier")
    <3>1. NoBatch \in [through : Nat, rows : SUBSET ShareRows]
      BY BatchTypes
    <3>2. /\ PassTypes' /\ stage'[n] = "barrier"
          /\ \A m \in Nodes \ {n} : stage'[m] = stage[m] /\ fresh'[m] = fresh[m] /\ batch'[m] = batch[m]
      BY <1>1, <1>2, <2>3, <3>1, PassTypesKept DEF PassTypes
    <3> QED BY <1>1, <3>2, OtherStages
  <2> QED BY <1>5, <2>2, <2>3 DEF InsertShares
<1> QED BY <1>4, <1>5

(* Rows the sweep has passed are counted when they are inserted. *)
Below(S, w) == {r \in S : r.seq <= w}
LEMMA FoldsRows ==
    ASSUME NEW S, NEW F, NEW w, IsFiniteSet(S), IsFiniteSet(F), \A r \in F : r \notin S
    PROVE  /\ IsFiniteSet(S \cup F)
           /\ Cardinality(Below(S \cup F, w)) = Cardinality(Below(S, w)) + Cardinality(Below(F, w))
<1>1. IsFiniteSet(Below(S, w)) /\ IsFiniteSet(Below(F, w))
  BY FS_Subset DEF Below
<1>2. Below(S \cup F, w) = Below(S, w) \cup Below(F, w) /\ Below(S, w) \cap Below(F, w) = {}
  BY DEF Below
<1>3. Cardinality(Below(S, w) \cup Below(F, w)) =
        Cardinality(Below(S, w)) + Cardinality(Below(F, w)) - Cardinality(Below(S, w) \cap Below(F, w))
  BY <1>1, FS_Union
<1>4. /\ Cardinality(Below(S, w) \cap Below(F, w)) = 0
      /\ Cardinality(Below(S, w)) \in Nat /\ Cardinality(Below(F, w)) \in Nat
  BY <1>1, <1>2, FS_EmptySet, FS_CardinalityType
<1>5. Cardinality(Below(S, w) \cup Below(F, w)) = Cardinality(Below(S, w)) + Cardinality(Below(F, w))
  BY SMTT(30), <1>3, <1>4
<1>6. IsFiniteSet(S \cup F)
  BY FS_Union
<1> QED BY <1>2, <1>5, <1>6

LEMMA CommitsShares ==
    ASSUME NEW W, ShareInv(W), NEW n \in Nodes, CommitShares(n)
    PROVE  ShareInv(W)'
<1> DEFINE kept == batch[n].rows \ (fresh[n] \cup shares[n])
           p == Peer(n)
<1>1. /\ stage[n] = "commit" /\ UNCHANGED <<shareSeq, watermark, queue, whole, safe>>
      /\ shares' = [shares EXCEPT ![n] = @ \cup fresh[n]]
      /\ rollup' = [rollup EXCEPT ![n] = @ + Folded(n, fresh[n])]
      /\ quarantine' = [quarantine EXCEPT ![n] = @ \cup kept]
      /\ shareMark' = [shareMark EXCEPT ![n] = Greatest(@, Through(n))]
      /\ fresh' = [fresh EXCEPT ![n] = {}] /\ batch' = [batch EXCEPT ![n] = NoBatch]
      /\ Goto(n, "barrier")
  BY DEF CommitShares
<1>2. /\ ShareTypes /\ PassTypes /\ Raised(n, W) /\ OneCredit(n) /\ Scanned(n, W) /\ Pulling(n) /\ Folding(n)
      /\ p \in Nodes /\ p # n /\ Peer(p) = n /\ (\A m \in Nodes : m = n \/ m = p)
      /\ Raised(p, W) /\ OneCredit(p) /\ Scanned(p, W) /\ Folding(p)
  BY Pairs DEF ShareInv
<1>3. /\ shares[n] \subseteq ShareRows /\ shares[p] \subseteq ShareRows /\ fresh[n] \subseteq ShareRows
      /\ quarantine[n] \subseteq ShareRows /\ batch[n].rows \subseteq ShareRows
      /\ batch[n].through \in Nat /\ shareMark[n] \in Nat /\ refused[n] \in Nat
      /\ shareSeq[n] \in Nat /\ shareSeq[p] \in Nat /\ rollup[n] \in Nat /\ watermark[n] \in Nat
      /\ \A r \in ShareRows : r.seq \in Nat
  BY <1>2 DEF ShareTypes, PassTypes, ShareRows
<1>4. /\ batch[n].through <= shareSeq[p]
      /\ \A r \in batch[n].rows : r \in shares[p] /\ r.origin = p /\ r.seq <= shareSeq[n]
      /\ \A r \in shares[p] : r.origin = p /\ shareMark[n] < r.seq /\ r.seq <= batch[n].through =>
            r \in batch[n].rows \cup shares[n]
      /\ fresh[n] \subseteq batch[n].rows
      /\ \A r \in fresh[n], l \in shares[n] : r.header # l.header /\ r.seq # l.seq
  BY <1>1, <1>2 DEF Pulling
<1>5. /\ refused' \in [Nodes -> Nat] /\ refused'[p] = refused[p] /\ refused[n] <= refused'[n]
      /\ \A r \in kept : r.seq <= refused'[n]
  <2>1. CASE kept = {} /\ refused' = refused
    BY SMTT(30), <1>2, <1>3, <2>1 DEF ShareTypes
  <2>2. ASSUME NEW top \in Seqs(kept), IsTop(top, Seqs(kept)),
               refused' = [refused EXCEPT ![n] = Greatest(@, top)]
        PROVE  /\ refused' \in [Nodes -> Nat] /\ refused'[p] = refused[p]
               /\ refused[n] <= refused'[n] /\ \A r \in kept : r.seq <= refused'[n]
    <3>1. top \in Nat /\ \A r \in kept : r.seq <= top
      BY <1>3, <2>2 DEF Seqs, IsTop
    <3>2. /\ Greatest(refused[n], top) \in Nat /\ refused[n] <= Greatest(refused[n], top)
          /\ \A r \in kept : r.seq <= Greatest(refused[n], top)
      BY SMTT(30), <1>3, <3>1 DEF Greatest
    <3>3. refused'[n] = Greatest(refused[n], top)
      BY <1>2, <2>2 DEF ShareTypes
    <3> QED BY <1>2, <2>2, <3>2, <3>3 DEF ShareTypes
  <2> QED BY <2>1, <2>2 DEF CommitShares
<1>6. IsFiniteSet(fresh[n])
  BY <1>2, <1>4, FS_Subset DEF Folding
<1>7. Folded(n, fresh[n]) \in Nat
  <2>1. IsFiniteSet({r \in fresh[n] : r.seq <= watermark[n]})
    BY <1>6, FS_Subset
  <2> QED BY <2>1, FS_CardinalityType DEF Folded
<1>8. /\ shares'[n] = shares[n] \cup fresh[n] /\ shares'[p] = shares[p]
      /\ rollup'[n] = rollup[n] + Folded(n, fresh[n]) /\ rollup'[p] = rollup[p]
      /\ quarantine'[n] = quarantine[n] \cup kept /\ quarantine'[p] = quarantine[p]
      /\ shareMark'[n] = Greatest(shareMark[n], batch[n].through) /\ shareMark'[p] = shareMark[p]
      /\ fresh'[p] = fresh[p] /\ batch'[p] = batch[p]
  BY <1>1, <1>2 DEF ShareTypes, PassTypes, Through
<1>9. /\ shareMark'[n] \in Nat /\ (p \in W => shareMark'[n] <= shareSeq[p])
      /\ shareMark'[n] \in {shareMark[n], batch[n].through}
  BY <1>2, <1>3, <1>4, <1>8 DEF Greatest, Scanned
<1>10. ShareTypes'
  <2>1. shares' \in [Nodes -> SUBSET ShareRows] /\ quarantine' \in [Nodes -> SUBSET ShareRows]
    BY <1>1, <1>2, <1>3 DEF ShareTypes
  <2>2. rollup' \in [Nodes -> Nat]
    BY SMTT(30), <1>1, <1>2, <1>3, <1>7 DEF ShareTypes
  <2>3. shareMark' \in [Nodes -> Nat]
    BY <1>1, <1>2, <1>8, <1>9 DEF ShareTypes
  <2> QED BY <1>1, <1>2, <1>5, <2>1, <2>2, <2>3 DEF ShareTypes
<1>11. PassTypes' /\ stage'[n] = "barrier" /\ stage'[p] = stage[p]
  <2>1. "barrier" \in Stages /\ NoBatch \in [through : Nat, rows : SUBSET ShareRows]
    BY BatchTypes DEF Stages
  <2> QED BY <1>1, <1>2, <2>1, PassTypesKept DEF PassTypes
<1>12. Raised(n, W)' /\ OneCredit(n)'
  <2>1. Raised(n, W)'
    BY <1>1, <1>2, <1>4, <1>8 DEF Raised
  <2>2. \A r, l \in fresh[n] : r.header = l.header \/ r.seq = l.seq => r = l
    BY <1>2, <1>4 DEF OneCredit
  <2>3. OneCredit(n)'
    BY SMTT(30), <1>2, <1>4, <1>8, <2>2 DEF OneCredit
  <2> QED BY <2>1, <2>3
<1>13. Scanned(n, W)'
  <2>1. \A r \in quarantine'[n] : r.seq <= refused'[n]
    BY SMTT(30), <1>2, <1>3, <1>5, <1>8 DEF Scanned, ShareTypes
  <2>2. ASSUME NEW r \in shares[p], r.origin = p, r.seq <= shareMark'[n]
        PROVE  r \in shares'[n] \cup quarantine'[n]
    <3>1. CASE r.seq <= shareMark[n]
      BY <1>2, <1>8, <2>2, <3>1 DEF Scanned
    <3>2. CASE r.seq > shareMark[n]
      <4>1. r \in batch[n].rows \cup shares[n]
        BY SMTT(30), <1>3, <1>4, <1>9, <2>2, <3>2
      <4> QED BY <1>8, <4>1
    <3> QED BY SMTT(30), <1>3, <3>1, <3>2
  <2> QED BY <1>1, <1>8, <1>9, <2>1, <2>2 DEF Scanned
<1>14. Folding(n)'
  <2>1. /\ IsFiniteSet(shares[n]) /\ (\A r \in fresh[n] : r \notin shares[n])
        /\ watermark[n] <= shareSeq[n]
        /\ rollup[n] = Cardinality({r \in shares[n] : r.seq <= watermark[n]})
    BY <1>2, <1>4 DEF Folding
  <2>2. /\ IsFiniteSet(shares[n] \cup fresh[n])
        /\ Cardinality({r \in shares[n] \cup fresh[n] : r.seq <= watermark[n]}) =
             rollup[n] + Folded(n, fresh[n])
    <3>0. /\ IsFiniteSet(shares[n]) /\ IsFiniteSet(fresh[n])
          /\ \A r \in fresh[n] : r \notin shares[n]
      BY <1>6, <2>1
    <3>1. /\ IsFiniteSet(shares[n] \cup fresh[n])
          /\ Cardinality(Below(shares[n] \cup fresh[n], watermark[n])) =
               Cardinality(Below(shares[n], watermark[n])) + Cardinality(Below(fresh[n], watermark[n]))
      BY SMTT(30), <3>0, FoldsRows
    <3> QED BY <2>1, <3>1 DEF Folded, Below
  <2> QED BY <1>1, <1>8, <2>1, <2>2 DEF Folding
<1>15. Pulling(n)'
  BY <1>11 DEF Pulling
<1>16. Raised(p, W)' /\ OneCredit(p)' /\ Folding(p)'
  BY <1>1, <1>2, <1>8 DEF Raised, OneCredit, Folding
<1>17. Scanned(p, W)'
  BY <1>1, <1>2, <1>4, <1>5, <1>8 DEF Scanned
<1>18. Pulling(p)'
  <2>1. shareSeq[n] <= shareSeq'[n] /\ shareSeq[p] <= shareSeq'[p]
    <3>1. \A s \in Nat : s <= s
      BY SMTT(30)
    <3> QED BY <1>1, <1>3, <3>1
  <2>2. \A r \in shares'[n] \ shares[n] : r.origin # n
    BY <1>2, <1>4, <1>8
  <2> QED BY <1>1, <1>2, <1>8, <1>10, <1>11, <2>1, <2>2, PullingKept
<1> QED BY <1>2, <1>10, <1>11, <1>12, <1>13, <1>14, <1>15, <1>16, <1>17, <1>18 DEF ShareInv

LEMMA Appends ==
    ASSUME NEW W, ShareInv(W), NEW n \in Nodes, n \in W, NEW h \in Headers, Append(n, h)
    PROVE  ShareInv(W)'
<1> DEFINE row == [seq |-> shareSeq[n] + 2, origin |-> n, header |-> h]
           p == Peer(n)
<1>1. /\ shareSeq' = [shareSeq EXCEPT ![n] = @ + 2] /\ shares' = [shares EXCEPT ![n] = @ \cup {row}]
      /\ ~Credited(n, h)
      /\ UNCHANGED <<shareMark, refused, quarantine, watermark, rollup, stage, batch, fresh,
                     queue, whole, safe>>
  BY DEF Append, passVars
<1>2. /\ ShareTypes /\ PassTypes /\ Raised(n, W) /\ OneCredit(n) /\ Scanned(n, W) /\ Pulling(n) /\ Folding(n)
      /\ p \in Nodes /\ p # n /\ Peer(p) = n /\ (\A m \in Nodes : m = n \/ m = p)
      /\ Raised(p, W) /\ OneCredit(p) /\ Scanned(p, W) /\ Folding(p)
  BY Pairs DEF ShareInv
<1>3. /\ shares[n] \subseteq ShareRows /\ shares[p] \subseteq ShareRows /\ fresh[n] \subseteq ShareRows
      /\ batch[n].rows \subseteq ShareRows /\ batch[n].through \in Nat
      /\ shareMark[n] \in Nat /\ shareMark[p] \in Nat
      /\ shareSeq[n] \in Nat /\ shareSeq[p] \in Nat /\ watermark[n] \in Nat
      /\ \A r \in ShareRows : r.seq \in Nat
  BY <1>2 DEF ShareTypes, PassTypes, ShareRows
<1>4. row \in ShareRows /\ row.seq = shareSeq[n] + 2 /\ row.origin = n /\ row.header = h
  BY SMTT(30), <1>3 DEF ShareRows
<1> HIDE DEF row
<1>5. /\ shares'[n] = shares[n] \cup {row} /\ shares'[p] = shares[p]
      /\ shareSeq'[n] = shareSeq[n] + 2 /\ shareSeq'[p] = shareSeq[p]
      /\ shareSeq'[n] % 2 = n
  BY <1>1, <1>2, <1>3, Keys DEF ShareTypes, Raised
<1>6. \A r \in shares[n] : r.seq < row.seq /\ r.header # h
  BY SMTT(30), <1>1, <1>2, <1>3, <1>4 DEF Raised, Credited
<1>7. ShareTypes' /\ PassTypes'
  <2>1. shares' \in [Nodes -> SUBSET ShareRows]
    BY <1>1, <1>2, <1>3, <1>4 DEF ShareTypes
  <2>2. shareSeq' \in [Nodes -> Nat]
    BY SMTT(30), <1>1, <1>2, <1>3 DEF ShareTypes
  <2> QED BY <1>1, <1>2, <2>1, <2>2 DEF ShareTypes, PassTypes
<1>8. Raised(n, W)' /\ OneCredit(n)'
  <2>1. \A r \in shares'[n] : r.seq <= shareSeq'[n]
    BY SMTT(30), <1>2, <1>3, <1>4, <1>5 DEF Raised
  <2>2. row.seq % 2 = n
    BY <1>4, <1>5
  <2>3. Raised(n, W)'
    BY <1>2, <1>4, <1>5, <2>1, <2>2 DEF Raised
  <2>4. \A r \in shares[n] : r.seq # row.seq /\ r.header # row.header
    BY SMTT(30), <1>3, <1>4, <1>6
  <2>5. OneCredit(n)'
    BY <1>2, <1>5, <2>4 DEF OneCredit
  <2> QED BY <2>3, <2>5
<1>9. Scanned(n, W)'
  BY <1>1, <1>2, <1>5 DEF Scanned
<1>10. Scanned(p, W)'
  <2>1. shareMark[p] < row.seq /\ shareMark[p] <= shareSeq'[n]
    BY SMTT(30), <1>2, <1>3, <1>4, <1>5 DEF Scanned
  <2>2. ~(row.seq <= shareMark[p])
    BY SMTT(30), <1>3, <1>4, <2>1
  <2> QED BY <1>1, <1>2, <1>5, <2>1, <2>2 DEF Scanned
<1>11. Raised(p, W)' /\ OneCredit(p)' /\ Folding(p)'
  BY <1>1, <1>2, <1>5 DEF Raised, OneCredit, Folding
<1>12. Folding(n)'
  <2>1. watermark[n] <= shareSeq'[n] /\ ~(row.seq <= watermark[n])
    BY SMTT(30), <1>2, <1>3, <1>4, <1>5 DEF Folding
  <2>2. {r \in shares'[n] : r.seq <= watermark[n]} = {r \in shares[n] : r.seq <= watermark[n]}
    BY <1>5, <2>1
  <2>3. IsFiniteSet(shares'[n])
    <3>1. IsFiniteSet(shares[n])
      BY <1>2 DEF Folding
    <3>2. IsFiniteSet(shares[n] \cup {row})
      BY <3>1, FS_AddElement
    <3> QED BY <1>5, <3>2
  <2> QED BY <1>1, <1>2, <2>1, <2>2, <2>3 DEF Folding
<1>13. Pulling(n)'
  <2>1. ASSUME stage[n] \in {"check", "insert", "commit"}
        PROVE  \A r \in batch[n].rows : r.seq <= shareSeq[n] /\ r.seq <= shareSeq'[n]
    BY SMTT(30), <1>2, <1>3, <1>5, <2>1 DEF Pulling
  <2>2. ASSUME stage[n] = "commit"
        PROVE  \A r \in fresh[n] : r.header # row.header /\ r.seq # row.seq
    <3>1. \A r \in fresh[n] : r.header # h
      BY <1>1, <2>2 DEF Credited
    <3>2. \A r \in fresh[n] : r.seq <= shareSeq[n]
      BY <1>2, <2>1, <2>2 DEF Pulling
    <3> QED BY SMTT(30), <1>3, <1>4, <3>1, <3>2
  <2>3. stage[n] = "commit" =>
          \A r \in fresh[n], l \in shares'[n] : r.header # l.header /\ r.seq # l.seq
    BY <1>2, <1>5, <2>2 DEF Pulling
  <2> QED BY <1>1, <1>2, <1>5, <2>1, <2>3 DEF Pulling
<1>14. Pulling(p)'
  <2>1. /\ shareSeq[p] <= shareSeq'[p] /\ shareSeq[n] <= shareSeq'[n] /\ shareSeq[n] < row.seq
    BY SMTT(30), <1>3, <1>4, <1>5
  <2>2. \A r \in shares'[n] \ shares[n] : r.origin = n => shareSeq[n] < r.seq
    BY <1>5, <2>1
  <2> QED BY <1>1, <1>2, <1>5, <1>7, <2>1, <2>2, PullingKept
<1> QED BY <1>2, <1>7, <1>8, <1>9, <1>10, <1>11, <1>12, <1>13, <1>14 DEF ShareInv

LEMMA AppendsNothing ==
    ASSUME NEW W, ShareInv(W), NEW n \in Nodes, AppendAborts(n)
    PROVE  ShareInv(W)'
<1>1. /\ shareSeq' = [shareSeq EXCEPT ![n] = @ + 2]
      /\ UNCHANGED <<shares, shareMark, refused, quarantine, watermark, rollup, stage, batch, fresh,
                     queue, whole, safe>>
  BY DEF AppendAborts, passVars
<1>2. /\ ShareTypes /\ PassTypes /\ Raised(n, W) /\ shareSeq \in [Nodes -> Nat]
      /\ Peer(n) \in Nodes /\ Peer(n) # n
  BY Pairs DEF ShareInv, ShareTypes
<1>3. PassTypes'
  BY <1>1, <1>2 DEF PassTypes
<1>4. shareSeq[n] + 2 \in Nat /\ shareSeq[n] <= shareSeq[n] + 2 /\ (shareSeq[n] + 2) % 2 = n
  BY SMTT(30), <1>2, Keys DEF Raised
<1>5. /\ shareSeq'[n] = shareSeq[n] + 2 /\ shareSeq'[Peer(n)] = shareSeq[Peer(n)]
      /\ shareSeq[Peer(n)] <= shareSeq'[Peer(n)] /\ shareSeq[n] <= shareSeq'[n]
  BY SMTT(30), <1>1, <1>2, <1>4
<1>6. ShareTypes'
  BY <1>1, <1>2, <1>4 DEF ShareTypes
<1>7. Pulling(n)'
  BY <1>1, <1>5, <1>6, PullingKept
<1>8. shareSeq' = [shareSeq EXCEPT ![n] = shareSeq[n] + 2]
  BY <1>1
<1> QED BY <1>1, <1>3, <1>4, <1>7, <1>8, SequenceRaises

LEMMA Sweeps ==
    ASSUME NEW W, ShareInv(W), NEW n \in Nodes, Sweep(n)
    PROVE  ShareInv(W)'
<1> DEFINE above == {r \in shares[n] : r.seq > watermark[n]}
<1>1. PICK top \in Seqs(above) :
        /\ IsTop(top, Seqs(above)) /\ watermark' = [watermark EXCEPT ![n] = top]
        /\ rollup' = [rollup EXCEPT ![n] = @ + Cardinality(above)]
        /\ UNCHANGED <<shares, shareSeq, shareMark, refused, quarantine, stage, batch, fresh,
                       queue, whole, safe>>
  BY DEF Sweep, passVars
<1>2. /\ ShareTypes /\ PassTypes /\ Raised(n, W) /\ Folding(n)
      /\ shares[n] \subseteq ShareRows /\ shareSeq[n] \in Nat /\ watermark[n] \in Nat
      /\ rollup[n] \in Nat
      /\ \A r \in ShareRows : r.seq \in Nat
  BY DEF ShareInv, ShareTypes, ShareRows
<1>3. top \in Nat /\ top <= shareSeq[n] /\ top > watermark[n] /\ \A r \in above : r.seq <= top
  BY <1>1, <1>2 DEF Seqs, IsTop, Raised
<1>4. /\ IsFiniteSet(above) /\ IsFiniteSet(Below(shares[n], watermark[n]))
      /\ rollup[n] = Cardinality(Below(shares[n], watermark[n]))
  BY <1>2, FS_Subset DEF Folding, Below
<1>5. Cardinality(above) \in Nat
  BY <1>4, FS_CardinalityType
<1>6. /\ watermark'[n] = top /\ rollup'[n] = rollup[n] + Cardinality(above)
      /\ \A m \in Nodes \ {n} : watermark'[m] = watermark[m] /\ rollup'[m] = rollup[m]
  BY <1>1, <1>2 DEF ShareTypes
<1>7. ShareTypes' /\ PassTypes'
  <2>1. watermark' \in [Nodes -> Nat]
    BY <1>1, <1>2, <1>3 DEF ShareTypes
  <2>2. rollup' \in [Nodes -> Nat]
    BY SMTT(30), <1>1, <1>2, <1>5 DEF ShareTypes
  <2> QED BY <1>1, <1>2, <2>1, <2>2 DEF ShareTypes, PassTypes
<1>8. Folding(n)'
  <2>1. /\ Below(shares[n], top) = Below(shares[n], watermark[n]) \cup above
        /\ Below(shares[n], watermark[n]) \cap above = {}
    BY SMTT(30), <1>2, <1>3 DEF Below
  <2>2. Cardinality(Below(shares[n], top)) = rollup[n] + Cardinality(above)
    <3> HIDE DEF above
    <3>1. Cardinality(Below(shares[n], watermark[n]) \cup above) =
            rollup[n] + Cardinality(above) - Cardinality(Below(shares[n], watermark[n]) \cap above)
      BY <1>4, FS_Union
    <3>2. Cardinality(Below(shares[n], watermark[n]) \cap above) = 0
      BY <2>1, FS_EmptySet
    <3> QED BY SMTT(30), <1>2, <1>5, <2>1, <3>1, <3>2
  <2> QED BY <1>1, <1>2, <1>3, <1>6, <2>2 DEF Folding, Below
<1> SUFFICES ASSUME NEW m \in Nodes
             PROVE  Raised(m, W)' /\ OneCredit(m)' /\ Scanned(m, W)' /\ Pulling(m)' /\ Folding(m)'
  BY <1>7 DEF ShareInv
<1>9. Raised(m, W)' /\ OneCredit(m)' /\ Scanned(m, W)'
  BY <1>1 DEF ShareInv, Raised, OneCredit, Scanned
<1>10. Pulling(m)'
  BY <1>1, PullingSame DEF ShareInv
<1>11. Folding(m)'
  BY <1>1, <1>6, <1>8 DEF ShareInv, Folding
<1> QED BY <1>9, <1>10, <1>11

(* The other streams, landings and failures. *)
LEMMA OtherSteps ==
    ASSUME NEW W, ShareInv(W), SyncTypes, NEW n \in Nodes,
           \/ \E k \in Kinds, i \in Ids, w \in SUBSET ShareRows : LandBegin(n, k, i, w)
           \/ EndLanding(n) \/ SyncBarrier(n)
           \/ \E k \in Kinds : ReadSync(n, k) \/ SettleSync(n, k)
           \/ \E b \in queue[n] : ApplySync(n, b)
           \/ StreamFails(n) \/ PassFails(n)
    PROVE  ShareInv(W)'
<1>1. UNCHANGED <<shares, shareSeq, shareMark, refused, quarantine, watermark, rollup>>
  BY DEF LandBegin, EndLanding, LandEnd, SyncBarrier, ReadSync, SettleSync, ApplySync, StreamFails,
         PassFails, dbVars
<1>2. /\ PassTypes /\ syncSeq[Peer(n)] \in Nat /\ synced[Peer(n)] \subseteq SyncRecords
      /\ NoBatch \in [through : Nat, rows : SUBSET ShareRows]
      /\ {"idle", "barrier", "block", "block_apply", "prepared", "prepared_apply"} \subseteq Stages
  BY Pairs, BatchTypes DEF ShareInv, SyncTypes, Stages
<1>3. CASE UNCHANGED <<stage, batch, fresh, whole, safe>> /\ queue' \in [Nodes -> SUBSET SyncRecords]
  <2>1. PassTypes'
    BY <1>2, <1>3 DEF PassTypes
  <2> QED BY <1>1, <1>3, <2>1, OtherStages
<1>4. ASSUME NEW s \in {"idle", "barrier", "block", "block_apply", "prepared", "prepared_apply"},
             Goto(n, s), batch' \in {batch, [batch EXCEPT ![n] = NoBatch]},
             fresh' \in {fresh, [fresh EXCEPT ![n] = {}]},
             queue' \in [Nodes -> SUBSET SyncRecords], whole' \in [Nodes -> BOOLEAN],
             safe' \in [Nodes -> Nat]
      PROVE  ShareInv(W)'
  <2>1. stage' \in [Nodes -> Stages] /\ stage'[n] = s /\ \A m \in Nodes \ {n} : stage'[m] = stage[m]
    BY <1>2, <1>4, PassTypesKept
  <2>2. /\ batch' \in [Nodes -> [through : Nat, rows : SUBSET ShareRows]]
        /\ \A m \in Nodes \ {n} : batch'[m] = batch[m]
    BY SMTT(30), <1>2, <1>4 DEF PassTypes
  <2>3. fresh' \in [Nodes -> SUBSET ShareRows] /\ \A m \in Nodes \ {n} : fresh'[m] = fresh[m]
    BY <1>2, <1>4 DEF PassTypes
  <2>4. PassTypes'
    BY <1>4, <2>1, <2>2, <2>3 DEF PassTypes
  <2> QED BY <1>1, <2>1, <2>2, <2>3, <2>4, OtherStages
<1>5. CASE \/ \E k \in Kinds, i \in Ids, w \in SUBSET ShareRows : LandBegin(n, k, i, w)
           \/ EndLanding(n)
  <2>1. UNCHANGED passVars
    BY <1>5 DEF LandBegin, EndLanding, LandEnd
  <2> QED BY <1>2, <1>3, <2>1 DEF passVars, PassTypes
<1>6. ASSUME NEW b \in queue[n], ApplySync(n, b) PROVE ShareInv(W)'
  <2>1. queue' \in [Nodes -> SUBSET SyncRecords]
    BY <1>2, <1>6 DEF ApplySync, PassTypes
  <2> QED BY <1>3, <1>6, <2>1 DEF ApplySync
<1>7. CASE SyncBarrier(n)
  <2>1. BarrierMark(n) \in Nat
    BY <1>2 DEF BarrierMark, Greatest, PassTypes
  <2>2. safe' \in [Nodes -> Nat]
    BY <1>2, <1>7, <2>1 DEF SyncBarrier, PassTypes
  <2> QED BY <1>2, <1>4, <1>7, <2>2 DEF SyncBarrier, PassTypes
<1>8. ASSUME NEW k \in Kinds, ReadSync(n, k) PROVE ShareInv(W)'
  <2>1. queue' \in [Nodes -> SUBSET SyncRecords]
    BY <1>2, <1>8 DEF ReadSync, PassTypes
  <2>2. whole' \in [Nodes -> BOOLEAN]
    BY <1>2, <1>8 DEF ReadSync, PassTypes
  <2>3. ApplyStage(k) \in {"block_apply", "prepared_apply"} /\ Goto(n, ApplyStage(k))
    BY <1>8 DEF ApplyStage, ReadSync
  <2> QED BY <1>2, <1>4, <1>8, <2>1, <2>2, <2>3 DEF ReadSync, PassTypes
<1>9. ASSUME NEW k \in Kinds, SettleSync(n, k) PROVE ShareInv(W)'
  <2>1. whole' \in [Nodes -> BOOLEAN]
    BY <1>2, <1>9 DEF SettleSync, PassTypes
  <2>2. NextStage(stage[n]) \in {"prepared", "idle"} /\ Goto(n, NextStage(stage[n]))
    BY <1>9 DEF NextStage, SettleSync
  <2> QED BY <1>2, <1>4, <1>9, <2>1, <2>2 DEF SettleSync, PassTypes
<1>10. CASE StreamFails(n) \/ PassFails(n)
  <2>1. /\ batch' = [batch EXCEPT ![n] = NoBatch] /\ fresh' = [fresh EXCEPT ![n] = {}]
        /\ queue' = [queue EXCEPT ![n] = {}] /\ whole' = [whole EXCEPT ![n] = FALSE]
        /\ safe' \in {safe, [safe EXCEPT ![n] = 0]}
    BY <1>10 DEF StreamFails, PassFails, EndPass
  <2>2. /\ queue' \in [Nodes -> SUBSET SyncRecords] /\ whole' \in [Nodes -> BOOLEAN]
        /\ safe' \in [Nodes -> Nat]
    BY SMTT(30), <1>2, <2>1 DEF PassTypes
  <2>3. \E s \in {"idle", "barrier", "prepared"} : Goto(n, s)
    BY <1>10 DEF StreamFails, PassFails, NextStage
  <2> QED BY <1>4, <2>1, <2>2, <2>3
<1> QED BY <1>5, <1>6, <1>7, <1>8, <1>9, <1>10
=============================================================================
