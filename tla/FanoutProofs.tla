---------------------------- MODULE FanoutProofs ----------------------------
(***************************************************************************)
(* The broadcaster's wallet locks, children, spend scan and confirmations, *)
(* for every number of frontends, fanouts, coins, blocks and faults.  The  *)
(* inductive invariant says what an attempt relies on at each of its steps *)
(* (Holding, AttemptFunding, NotDeep), which the claim protects: no other  *)
(* frontend writes the fanout's rows meanwhile.                            *)
(***************************************************************************)
EXTENDS FanoutBroadcast, TLAPS

USE ZenonT(60)

Steps == Results \cup {"idle", "view", "maintain", "release", "scan", "child", "save", "send",
                       "failed"}
Evidence == [height : Nat, id : Nat, depth : Int]
Txs == {Fanout(f) : f \in Fanouts}
         \cup [kind : {"child"}, of : Fanouts, coin : Coins \cup {Nobody},
               by : Frontends \cup {Nobody}]
Blocks == [id : Nat \ {0}, txs : SUBSET Txs]
Packages == [coin : Coins \cup {Nobody}, child : Frontends \cup {Nobody}, released : BOOLEAN]

FrontTypes ==
  /\ step \in [Frontends -> Steps]
  /\ job \in [Frontends -> Fanouts \cup {Nobody}]
  /\ view \in [Frontends -> [tip : Nat, height : Nat, current : BOOLEAN]]
  /\ result \in [Frontends -> Evidence]
RowTypes ==
  /\ status \in [Fanouts -> {"broadcastable", "broadcast_submitted", "confirmed", "failed"}]
  /\ evidence \in [Fanouts -> Evidence]
  /\ scanned \in [Fanouts -> [next : Nat, height : Nat, id : Nat]]
  /\ token \in [Fanouts -> Frontends \cup {Nobody}]
FundTypes ==
  /\ package \in [Fanouts -> Packages]
  /\ retired \in [Coins -> [for : Fanouts \cup {Nobody}, released : BOOLEAN]]
  /\ locked \subseteq Coins /\ loose \subseteq Coins
NetTypes ==
  /\ chain \in Seq(Blocks) /\ branch \in Nat \ {0}
  /\ mempool \subseteq Txs
FanTypes == FrontTypes /\ RowTypes /\ FundTypes /\ NetTypes

(* An attempt that is not over has its fanout's claim.                      *)
Holding ==
  \A w \in Frontends :
    /\ Working(w) => job[w] \in Fanouts
    /\ ~Over(w) => token[job[w]] = w /\ job[w] \notin dead

(* A coin is that of one package, and then not a retired one; a package is  *)
(* made with its coin.                                                      *)
CoinsApart ==
  /\ \A f \in Fanouts : package[f].coin = Nobody => package[f] = NoPackage
  /\ \A f, g \in Fanouts :
       package[f].coin # Nobody /\ package[f].coin = package[g].coin => f = g
  /\ \A f \in Fanouts : package[f].coin # Nobody => retired[package[f].coin] = NotRetired

(* What the wallet and the node have of children was signed and sent.       *)
Sent(tx) == tx \in known \/ \E f \in Fanouts : tx = Fanout(f)
KnownSigned ==
  \A s \in known : \E f \in Fanouts : package[f].child # Nobody /\ s = SignedChild(f)
ChildrenSent ==
  /\ \A tx \in mempool : Sent(tx)
  /\ \A h \in DOMAIN chain : \A tx \in chain[h].txs : Sent(tx)

(* What an attempt relies on: the coin it signs for is locked, the package  *)
(* it sends is on record, and the child whose lock goes is in the wallet.   *)
AttemptFunding ==
  \A w \in Frontends :
    /\ step[w] = "save" => package[job[w]].coin \in locked \cup loose
    /\ step[w] = "send" /\ job[w] \notin paying => package[job[w]].child # Nobody
    /\ step[w] = "release" => package[job[w]].child # Nobody /\ SignedChild(job[w]) \in known

Funding == /\ CoinsApart /\ KnownSigned /\ AttemptFunding
           /\ LocksRecorded /\ SignedCoinProtected

(* A block names its branch, and the blocks below an active anchor are the  *)
(* ones that were scanned.                                                  *)
Anchored(f) ==
  \/ scanned[f] = NoAnchor
  \/ /\ scanned[f].height \in 1..Len(chain) /\ scanned[f].next = scanned[f].height + 1
     /\ scanned[f].id \in 1..branch
     /\ chain[scanned[f].height].id = scanned[f].id =>
          \A h \in 1..scanned[f].height : Fanout(f) \notin chain[h].txs
Anchors ==
  /\ \A h \in DOMAIN chain : chain[h].id <= branch
  /\ \A f \in Fanouts : Anchored(f)

(* A result that undoes a confirmation is never that of a deep one.         *)
Undoing == {"scan", "child", "save", "send", "in_mempool", "scan_pending", "submitted"}
NotDeep ==
  /\ \A f \in Fanouts : evidence[f].id = 0 => evidence[f].depth < Deep
  /\ \A w \in Frontends : step[w] = "confirmed" => result[w].id # 0
  /\ \A w \in Frontends : Holds(w) /\ step[w] \in Undoing => ~DeepEnough(job[w])

FanInv == FanTypes /\ Holding /\ Funding /\ ChildrenSent /\ Anchors /\ NotDeep

----------------------------------------------------------------------------
(* Types. *)

LEMMA InitInv == FanInit => FanInv
<1> SUFFICES ASSUME FanInit PROVE FanInv
  OBVIOUS
<1> USE FanoutAssumption
<1>1. FanTypes
  <2>1. NoPackage \in Packages
    BY DEF NoPackage, Packages
  <2> QED BY SMTT(30), <2>1 DEF FanInit, FanTypes, FrontTypes, RowTypes, FundTypes, NetTypes, Steps,
             Evidence, NoEvidence, NoAnchor, NotRetired
<1>2. Holding
  BY DEF FanInit, Holding, Working, Over
<1>3. Funding
  BY DEF FanInit, Funding, CoinsApart, KnownSigned, AttemptFunding, LocksRecorded,
         SignedCoinProtected, NoPackage
<1>4. ChildrenSent /\ Anchors
  BY SMTT(30) DEF FanInit, ChildrenSent, Anchors, Anchored
<1>5. NotDeep
  BY SMTT(30) DEF FanInit, NotDeep, NoEvidence, Holds, Working
<1> QED BY <1>1, <1>2, <1>3, <1>4, <1>5 DEF FanInv

(* A step of one attempt. *)
LEMMA GotoTypes ==
    ASSUME FrontTypes, NEW w \in Frontends, NEW label \in Steps, Goto(w, label)
    PROVE  /\ step' \in [Frontends -> Steps] /\ step'[w] = label
           /\ \A v \in Frontends \ {w} : step'[v] = step[v]
           /\ view' \in [Frontends -> [tip : Nat, height : Nat, current : BOOLEAN]]
  BY DEF FrontTypes, Goto

LEMMA IdleTypes ==
    ASSUME FrontTypes, NEW w \in Frontends, Idle(w)
    PROVE  /\ FrontTypes' /\ step'[w] = "idle"
           /\ \A v \in Frontends \ {w} : /\ step'[v] = step[v] /\ job'[v] = job[v]
                                         /\ result'[v] = result[v]
  BY SMTT(30) DEF FrontTypes, Idle, Steps, Evidence, NoEvidence

LEMMA ResultedTypes ==
    ASSUME FrontTypes, NEW w \in Frontends, NEW label \in Steps, NEW height \in Nat, NEW id \in Nat,
           Resulted(w, label, height, id), job' = job
    PROVE  /\ FrontTypes' /\ step'[w] = label /\ result'[w].id = id
           /\ \A v \in Frontends \ {w} : step'[v] = step[v] /\ result'[v] = result[v]
<1>1. Goto(w, label)
  BY DEF Resulted
<1>2. view[w].height - height + 1 \in Int
  BY SMTT(30) DEF FrontTypes
<1>3. /\ result' \in [Frontends -> Evidence] /\ result'[w].id = id
      /\ \A v \in Frontends \ {w} : result'[v] = result[v]
  BY SMTT(30), <1>2 DEF Resulted, FrontTypes, Evidence
<1> QED BY <1>1, <1>3, GotoTypes DEF FrontTypes

(* A package, and one with a field written. *)
LEMMA PackageFields ==
    ASSUME NEW p \in Packages
    PROVE  /\ p.coin \in Coins \cup {Nobody} /\ p.child \in Frontends \cup {Nobody}
           /\ \A b \in BOOLEAN : /\ [p EXCEPT !.released = b] \in Packages
                                 /\ [p EXCEPT !.released = b].coin = p.coin
                                 /\ [p EXCEPT !.released = b].child = p.child
           /\ \A w \in Frontends : /\ [p EXCEPT !.child = w] \in Packages
                                   /\ [p EXCEPT !.child = w].coin = p.coin
                                   /\ [p EXCEPT !.child = w].child = w
           /\ \A c \in Coins : /\ [p EXCEPT !.coin = c] \in Packages
                               /\ [p EXCEPT !.coin = c].coin = c
                               /\ [p EXCEPT !.coin = c].child = p.child
<1>1. p.coin \in Coins \cup {Nobody} /\ p.child \in Frontends \cup {Nobody}
  BY DEF Packages
<1>2. \A b \in BOOLEAN : /\ [p EXCEPT !.released = b] \in Packages
                         /\ [p EXCEPT !.released = b].coin = p.coin
                         /\ [p EXCEPT !.released = b].child = p.child
  BY DEF Packages
<1>3. \A w \in Frontends : /\ [p EXCEPT !.child = w] \in Packages
                           /\ [p EXCEPT !.child = w].coin = p.coin
                           /\ [p EXCEPT !.child = w].child = w
  BY DEF Packages
<1>4. \A c \in Coins : /\ [p EXCEPT !.coin = c] \in Packages
                       /\ [p EXCEPT !.coin = c].coin = c
                       /\ [p EXCEPT !.coin = c].child = p.child
  BY DEF Packages
<1> QED BY <1>1, <1>2, <1>3, <1>4

(* The chain. *)
LEMMA ChainTypes ==
    ASSUME NetTypes
    PROVE  /\ Len(chain) \in Nat /\ DOMAIN chain = 1..Len(chain) /\ Tip \in Nat
           /\ \A h \in DOMAIN chain : chain[h].id \in Nat \ {0} /\ chain[h].txs \subseteq Txs
<1>1. /\ Len(chain) \in Nat /\ DOMAIN chain = 1..Len(chain)
      /\ chain # <<>> => Len(chain) # 0
      /\ \A h \in DOMAIN chain : chain[h] \in Blocks
  BY SMTT(30) DEF NetTypes
<1>2. \A h \in DOMAIN chain : chain[h].id \in Nat \ {0} /\ chain[h].txs \subseteq Txs
  BY <1>1 DEF Blocks
<1> QED BY SMTT(30), <1>1, <1>2 DEF Tip

----------------------------------------------------------------------------
(* What a step keeps when it leaves the variables of a part alone. *)

(* An attempt goes on or ends; the others' do not move. *)
Alone(w) == \A v \in Frontends \ {w} :
              step'[v] = step[v] /\ job'[v] = job[v] /\ result'[v] = result[v]

LEMMA HoldingKept ==
    ASSUME FanInv, NEW w \in Frontends, FrontTypes', Alone(w), token' = token, dead' = dead,
           \/ ~Over(w) /\ job'[w] = job[w]
           \/ step'[w] = "idle"
    PROVE  Holding'
  BY DEF FanInv, Holding, Alone, Over, Working

LEMMA FundingKept ==
    ASSUME FanInv, UNCHANGED <<fundVars, locked, loose, known, paying>>,
           \A v \in Frontends : step'[v] \in {"save", "send", "release"} =>
              \/ step'[v] = step[v] /\ job'[v] = job[v]
              \/ step'[v] = "send" /\ job'[v] \in paying
    PROVE  Funding'
<1>1. CoinsApart' /\ KnownSigned' /\ LocksRecorded' /\ SignedCoinProtected'
  BY DEF FanInv, Funding, CoinsApart, KnownSigned, LocksRecorded, SignedCoinProtected, fundVars,
         SignedChild, Reserved
<1>2. AttemptFunding'
  BY DEF FanInv, Funding, AttemptFunding, SignedChild, fundVars
<1> QED BY <1>1, <1>2 DEF Funding

LEMMA SentKept ==
    ASSUME FanInv, known \subseteq known', chain' = chain, mempool' \subseteq mempool
    PROVE  ChildrenSent'
  BY DEF FanInv, ChildrenSent, Sent

LEMMA AnchorsKept ==
    ASSUME FanInv, UNCHANGED <<chain, branch, scanned>> PROVE Anchors'
  BY DEF FanInv, Anchors, Anchored

LEMMA NotDeepKept ==
    ASSUME FanInv, UNCHANGED <<status, evidence, token>>,
           \A v \in Frontends :
             /\ step'[v] \in Undoing => /\ step[v] \in Undoing \/ ~DeepEnough(job[v])
                                        /\ job'[v] = job[v]
             /\ step'[v] = "confirmed" => \/ step[v] = "confirmed" /\ result'[v] = result[v]
                                          \/ result'[v].id # 0
    PROVE  NotDeep'
<1>1. \A v \in Frontends : step[v] \in Undoing /\ job'[v] = job[v] => (Holds(v)' => Holds(v))
  BY DEF Holds, Working, Undoing
<1>2. \A v \in Frontends : job'[v] = job[v] => (DeepEnough(job[v])' <=> DeepEnough(job[v]))
  BY DEF DeepEnough
<1> QED BY <1>1, <1>2 DEF FanInv, NotDeep

(* The rest of the state, by part. *)
LEMMA RestTypes ==
    ASSUME FanTypes, FrontTypes', UNCHANGED <<rowVars, token, fundVars, locked, loose, netVars>>
    PROVE  FanTypes'
  BY DEF FanTypes, RowTypes, FundTypes, NetTypes, rowVars, fundVars, netVars

(* A step from one label of an attempt to another, writing nothing. *)
LEMMA QuietGoto ==
    ASSUME FanInv, NEW w \in Frontends, NEW label \in Steps \ {"confirmed"}, ~Over(w),
           Goto(w, label), UNCHANGED <<job, result>>,
           UNCHANGED <<rowVars, token, dead, fundVars, netVars, locked, loose, known, paying>>,
           label \in {"save", "send", "release"} => label = "send" /\ job[w] \in paying,
           label \in Undoing => step[w] \in Undoing \/ ~DeepEnough(job[w])
    PROVE  FanInv'
<1>1. FrontTypes' /\ Alone(w) /\ step'[w] = label
  BY GotoTypes DEF FanInv, FanTypes, FrontTypes, Alone
<1>2. FanTypes'
  BY <1>1, RestTypes DEF FanInv
<1>3. Holding'
  BY <1>1, HoldingKept
<1>4. Funding'
  BY <1>1, FundingKept DEF Alone
<1>5. ChildrenSent' /\ Anchors'
  BY SentKept, AnchorsKept DEF netVars, rowVars
<1>6. NotDeep'
  BY <1>1, NotDeepKept DEF Alone, rowVars
<1> QED BY <1>2, <1>3, <1>4, <1>5, <1>6 DEF FanInv

(* The end of an attempt: its frontend goes idle, and the fanout's row is  *)
(* written only under its token.                                           *)
LEMMA EndInv ==
    ASSUME FanInv, NEW w \in Frontends, Working(w), Idle(w),
           \/ /\ token' = token
              /\ dead' = dead \/ (Holds(w) /\ dead' = dead \cup {job[w]})
           \/ Holds(w) /\ token' = [token EXCEPT ![job[w]] = Nobody] /\ dead' = dead,
           UNCHANGED <<scanned, fundVars, netVars, locked, loose, known, paying>>,
           RowTypes',
           \A f \in Fanouts : \/ Holds(w) /\ f = job[w]
                              \/ status'[f] = status[f] /\ evidence'[f] = evidence[f],
           \A f \in Fanouts : evidence'[f].id = 0 => evidence'[f].depth < Deep
    PROVE  FanInv'
<1>1. FrontTypes' /\ Alone(w) /\ step'[w] = "idle" /\ job[w] \in Fanouts
  BY IdleTypes DEF FanInv, FanTypes, Alone, Holding
<1>2. FanTypes'
  BY <1>1 DEF FanInv, FanTypes, FundTypes, NetTypes, fundVars, netVars
<1>3. \A v \in Frontends \ {w} : /\ Holds(v)' => Holds(v)
                                 /\ Holds(v) => ~(Holds(w) /\ job[v] = job[w])
  BY SMTT(30), <1>1, FanoutAssumption DEF Holds, Working, Alone, FanInv, FanTypes, RowTypes, Holding
<1>4. Holding'
  <2> SUFFICES ASSUME NEW v \in Frontends
               PROVE  /\ Working(v)' => job'[v] \in Fanouts
                      /\ ~Over(v)' => token'[job'[v]] = v /\ job'[v] \notin dead'
    BY DEF Holding
  <2>1. CASE v = w
    BY <1>1, <2>1 DEF Working, Over
  <2>2. CASE v # w
    <3>1. step'[v] = step[v] /\ job'[v] = job[v]
      BY <1>1, <2>2 DEF Alone
    <3>2. Working(v) => job[v] \in Fanouts
      BY DEF FanInv, Holding
    <3>3. ~Over(v) => Working(v) /\ token[job[v]] = v /\ job[v] \notin dead
      BY DEF FanInv, Holding, Over, Working
    <3>4. ~Over(v) /\ Holds(w) => job[v] # job[w]
      BY <2>2, <3>3 DEF Holds
    <3> QED BY SMTT(30), <1>1, <3>1, <3>2, <3>3, <3>4 DEF Working, Over, FanInv, FanTypes, RowTypes
  <2> QED BY <2>1, <2>2
<1>5. Funding'
  BY <1>1, FundingKept DEF Alone
<1>6. ChildrenSent' /\ Anchors'
  BY SentKept, AnchorsKept DEF netVars
<1>7. NotDeep'
  <2> SUFFICES ASSUME NEW v \in Frontends
               PROVE  /\ step'[v] = "confirmed" => result'[v].id # 0
                      /\ Holds(v)' /\ step'[v] \in Undoing => ~DeepEnough(job[v])'
    BY <1>1 DEF NotDeep, Alone, Undoing
  <2>1. CASE v = w
    BY <1>1, <2>1 DEF Undoing
  <2>2. CASE v # w
    <3>1. step'[v] = step[v] /\ job'[v] = job[v] /\ result'[v] = result[v]
      BY <1>1, <2>2 DEF Alone
    <3>2. Holds(v)' => Holds(v) /\ job[v] \in Fanouts /\ ~(Holds(w) /\ job[v] = job[w])
      BY <1>3, <2>2 DEF FanInv, Holding, Holds
    <3> QED BY <3>1, <3>2 DEF FanInv, NotDeep, DeepEnough
  <2> QED BY <2>1, <2>2
<1> QED BY <1>2, <1>4, <1>5, <1>6, <1>7 DEF FanInv

LEMMA Ends ==
    ASSUME FanInv, NEW w \in Frontends,
           \/ FinishFanout(w) \/ RequeueRefused(w) \/ FinishFailed(w) \/ HandBack(w) \/ Crash(w)
    PROVE  FanInv'
<1>1. Working(w) /\ Idle(w) /\ job[w] \in Fanouts
  BY DEF FinishFanout, RequeueRefused, FinishFailed, HandBack, Crash, Working, Over, Results,
         At, FanInv, Holding
<1>2. \/ /\ token' = token
         /\ dead' = dead \/ (Holds(w) /\ dead' = dead \cup {job[w]})
      \/ Holds(w) /\ token' = [token EXCEPT ![job[w]] = Nobody] /\ dead' = dead
  BY DEF FinishFanout, RequeueRefused, FinishFailed, HandBack, Crash, Cleared, claimVars
<1>3. UNCHANGED <<scanned, fundVars, netVars, locked, loose, known, paying>>
  BY DEF FinishFanout, RequeueRefused, FinishFailed, HandBack, Crash, Fault, rowVars, walletVars
<1>4. \A f \in Fanouts : evidence[f].id = 0 => evidence[f].depth < Deep
  BY DEF FanInv, NotDeep
<1>5. CASE FinishFanout(w)
  <2>1. /\ Holds(w)
        /\ status' = [status EXCEPT ![job[w]] = StatusOf(step[w])]
        /\ evidence' = [evidence EXCEPT ![job[w]] =
                          IF At(w, "confirmed") THEN result[w] ELSE NoEvidence]
    BY <1>5 DEF FinishFanout
  <2>2. StatusOf(step[w]) \in {"broadcastable", "broadcast_submitted", "confirmed", "failed"}
    BY DEF StatusOf
  <2>3. RowTypes'
    <3>1. result[w] \in Evidence /\ NoEvidence \in Evidence
      BY SMTT(30) DEF FanInv, FanTypes, FrontTypes, Evidence, NoEvidence
    <3>2. token' \in [Fanouts -> Frontends \cup {Nobody}]
      BY <1>1, <1>2 DEF FanInv, FanTypes, RowTypes
    <3> QED BY <1>1, <1>3, <2>1, <2>2, <3>1, <3>2 DEF FanInv, FanTypes, RowTypes
  <2>4. At(w, "confirmed") => result[w].id # 0
    BY DEF At, FanInv, NotDeep
  <2>5. \A f \in Fanouts : evidence'[f].id = 0 => evidence'[f].depth < Deep
    BY SMTT(30), <1>1, <1>4, <2>1, <2>4, FanoutAssumption DEF FanInv, FanTypes, RowTypes, NoEvidence
  <2>6. \A f \in Fanouts \ {job[w]} : status'[f] = status[f] /\ evidence'[f] = evidence[f]
    BY <2>1 DEF FanInv, FanTypes, RowTypes
  <2> QED BY <1>1, <1>2, <1>3, <2>1, <2>3, <2>5, <2>6, EndInv
<1>6. CASE ~FinishFanout(w)
  <2>1. /\ evidence' = evidence
        /\ \/ status' = status
           \/ Holds(w) /\ status' = [status EXCEPT ![job[w]] = Failed(job[w])]
    <3>1. CASE FinishFailed(w)
      BY <3>1 DEF FinishFailed
    <3>2. CASE RequeueRefused(w) \/ HandBack(w) \/ Crash(w)
      BY <3>2 DEF RequeueRefused, HandBack, Crash, rowVars
    <3> QED BY <1>6, <3>1, <3>2
  <2>2. RowTypes'
    BY <1>1, <1>2, <1>3, <2>1 DEF FanInv, FanTypes, RowTypes, Failed
  <2>3. \A f \in Fanouts \ {job[w]} : status'[f] = status[f]
    BY <2>1 DEF FanInv, FanTypes, RowTypes
  <2> QED BY <1>1, <1>2, <1>3, <1>4, <2>1, <2>2, <2>3, EndInv
<1> QED BY <1>5, <1>6

----------------------------------------------------------------------------
(* Claims: the attempt of a live claim is not over, so only a claim whose  *)
(* holder lost or left it is taken.                                        *)

LEMMA Claims ==
    ASSUME FanInv, NEW w \in Frontends, ClaimFanout(w)
    PROVE  FanInv'
<1>1. PICK f \in Fanouts : Claimed(w, f) /\ (Unrenewed(f) \/ token[f] = Nobody)
  BY DEF ClaimFanout
<1>2. step[w] = "idle"
  BY DEF ClaimFanout
<1>3. /\ FrontTypes' /\ step'[w] = "view" /\ job'[w] = f /\ Alone(w)
  BY <1>1 DEF Claimed, FanInv, FanTypes, FrontTypes, Steps, Alone
<1>4. /\ token' = [token EXCEPT ![f] = w] /\ dead' = dead \ {f}
      /\ UNCHANGED <<rowVars, fundVars, netVars, locked, loose, known, paying>>
  BY <1>1 DEF Claimed, walletVars
<1>5. FanTypes'
  BY <1>3, <1>4 DEF FanInv, FanTypes, RowTypes, FundTypes, NetTypes, rowVars, fundVars, netVars
<1>6. \A v \in Frontends : ~Over(v) => Working(v) /\ token[job[v]] = v /\ job[v] \notin dead
  BY DEF FanInv, Holding, Over, Working
<1>7. \A v \in Frontends : ~Over(v) => job[v] # f
  BY <1>1, <1>6, FanoutAssumption DEF Unrenewed
<1>8. Holding'
  <2> SUFFICES ASSUME NEW v \in Frontends
               PROVE  /\ Working(v)' => job'[v] \in Fanouts
                      /\ ~Over(v)' => token'[job'[v]] = v /\ job'[v] \notin dead'
    BY DEF Holding
  <2>1. CASE v = w
    BY <1>3, <1>4, <2>1 DEF FanInv, FanTypes, RowTypes
  <2>2. CASE v # w
    <3>1. step'[v] = step[v] /\ job'[v] = job[v] /\ (Working(v) => job[v] \in Fanouts)
      BY <1>3, <2>2 DEF Alone, FanInv, Holding
    <3> QED BY <1>4, <1>6, <1>7, <3>1 DEF Working, Over, FanInv, FanTypes, RowTypes
  <2> QED BY <2>1, <2>2
<1>9. Funding'
  BY <1>3, <1>4, FundingKept DEF Alone
<1>10. ChildrenSent' /\ Anchors'
  BY <1>4, SentKept, AnchorsKept DEF netVars, rowVars
<1>11. NotDeep'
  <2> SUFFICES ASSUME NEW v \in Frontends
               PROVE  /\ step'[v] = "confirmed" => result'[v].id # 0
                      /\ Holds(v)' /\ step'[v] \in Undoing => ~DeepEnough(job[v])'
    BY <1>4 DEF FanInv, NotDeep, rowVars
  <2>1. CASE v = w
    BY <1>3, <2>1 DEF Undoing
  <2>2. CASE v # w
    <3>1. step'[v] = step[v] /\ job'[v] = job[v] /\ result'[v] = result[v]
      BY <1>3, <2>2 DEF Alone
    <3>2. Holds(v)' => Holds(v)
      BY <1>4, <2>2, <3>1 DEF Holds, Working, FanInv, FanTypes, RowTypes, Holding
    <3> QED BY <1>4, <3>1, <3>2 DEF FanInv, NotDeep, DeepEnough, rowVars
  <2> QED BY <2>1, <2>2
<1> QED BY <1>5, <1>8, <1>9, <1>10, <1>11 DEF FanInv

(* Steps that write nothing but where the attempt stands. *)
LEMMA Views ==
    ASSUME FanInv, \/ \E w \in Frontends : ReadView(w)
                   \/ MoveRevision
    PROVE  FanInv'
<1>1. UNCHANGED <<job, result, rowVars, token, dead, fundVars, netVars, locked, loose, known, paying>>
  BY DEF ReadView, MoveRevision, claimVars, walletVars
<1>2. /\ step' \in [Frontends -> Steps]
      /\ \A v \in Frontends : \/ step'[v] = step[v]
                              \/ step'[v] = "maintain" /\ step[v] = "view"
  <2>1. step \in [Frontends -> Steps] /\ "maintain" \in Steps
    BY DEF FanInv, FanTypes, FrontTypes, Steps
  <2> QED BY <2>1 DEF ReadView, MoveRevision, At
<1>3. FanTypes'
  <2>1. Tip \in Nat /\ Len(chain) \in Nat
    BY ChainTypes DEF FanInv, FanTypes
  <2>2. view' \in [Frontends -> [tip : Nat, height : Nat, current : BOOLEAN]]
    <3>1. CASE \E w \in Frontends : ReadView(w)
      BY SMTT(30), <2>1, <3>1 DEF ReadView, FanInv, FanTypes, FrontTypes
    <3>2. CASE MoveRevision
      <4>1. \A r \in [tip : Nat, height : Nat, current : BOOLEAN] :
              [r EXCEPT !.current = FALSE] \in [tip : Nat, height : Nat, current : BOOLEAN]
        OBVIOUS
      <4>2. \A v \in Frontends : view[v] \in [tip : Nat, height : Nat, current : BOOLEAN]
        BY DEF FanInv, FanTypes, FrontTypes
      <4> QED BY <3>2, <4>1, <4>2 DEF MoveRevision
    <3> QED BY <3>1, <3>2
  <2> QED BY <1>1, <1>2, <2>2, RestTypes DEF FanInv, FanTypes, FrontTypes
<1>4. Holding'
  BY <1>1, <1>2 DEF FanInv, Holding, Working, Over, Results
<1>5. Funding'
  BY <1>1, <1>2, FundingKept
<1>6. ChildrenSent' /\ Anchors'
  BY <1>1, SentKept, AnchorsKept DEF netVars, rowVars
<1>7. NotDeep'
  BY <1>1, <1>2, NotDeepKept DEF rowVars, Undoing
<1> QED BY <1>3, <1>4, <1>5, <1>6, <1>7 DEF FanInv

(* The node and the wallet's other users leave the attempts alone. *)
LEMMA Surroundings ==
    ASSUME FanInv, UNCHANGED <<step, job, view, result, token, dead, rowVars, fundVars, paying>>,
           UNCHANGED <<netVars, locked, known, loose>>
    PROVE  FanInv'
<1>1. UNCHANGED <<status, evidence, scanned, chain, branch, mempool>>
  BY DEF rowVars, netVars
<1>2. FanTypes'
  BY <1>1, RestTypes DEF FanInv, FanTypes, FrontTypes
<1>3. Holding'
  BY DEF FanInv, Holding, Working, Over
<1>4. Funding' /\ ChildrenSent' /\ Anchors' /\ NotDeep'
  BY <1>1, FundingKept, SentKept, AnchorsKept, NotDeepKept
<1> QED BY <1>2, <1>3, <1>4 DEF FanInv

(* The chain: what is mined or reorganised was in the mempool or on it. *)
LEMMA ChainMoves ==
    ASSUME FanInv, chain' \in Seq(Blocks), branch' \in Nat \ {0}, mempool' \subseteq Txs,
           UNCHANGED <<frontVars, token, dead, rowVars, fundVars, paying, locked, known, loose>>,
           \A tx \in mempool' : Sent(tx),
           \A h \in DOMAIN chain' : \A tx \in chain'[h].txs : Sent(tx),
           Anchors'
    PROVE  FanInv'
<1>1. UNCHANGED <<status, evidence, scanned, step, job, view, result>>
  BY DEF rowVars, frontVars
<1>2. FanTypes'
  BY <1>1 DEF FanInv, FanTypes, FrontTypes, RowTypes, FundTypes, NetTypes, fundVars
<1>3. Holding'
  BY <1>1 DEF FanInv, Holding, Working, Over
<1>4. Funding' /\ NotDeep'
  BY <1>1, FundingKept, NotDeepKept
<1>5. ChildrenSent'
  BY DEF ChildrenSent, Sent
<1> QED BY <1>2, <1>3, <1>4, <1>5 DEF FanInv

LEMMA Mines ==
    ASSUME FanInv, NEW txs \in SUBSET mempool, Mine(txs)
    PROVE  FanInv'
<1> DEFINE b == [id |-> branch, txs |-> txs]
<1>1. chain \in Seq(Blocks) /\ branch \in Nat \ {0} /\ mempool \subseteq Txs
  BY DEF FanInv, FanTypes, NetTypes
<1>2. b \in Blocks /\ chain' = Append(chain, b)
  BY <1>1 DEF Blocks, Mine
<1>3. /\ chain' \in Seq(Blocks) /\ Len(chain') = Len(chain) + 1 /\ DOMAIN chain' = 1..(Len(chain) + 1)
      /\ Len(chain) \in Nat /\ DOMAIN chain = 1..Len(chain)
      /\ \A h \in DOMAIN chain : chain'[h] = chain[h]
      /\ chain'[Len(chain) + 1] = b
  BY SMTT(30), <1>1, <1>2
<1>4. /\ mempool' = mempool \ txs /\ branch' = branch
      /\ UNCHANGED <<frontVars, token, dead, rowVars, fundVars, paying, locked, known, loose>>
  BY DEF Mine, claimVars, walletVars
<1>5. \A h \in DOMAIN chain' : \/ h \in DOMAIN chain /\ chain'[h] = chain[h]
                               \/ h = Len(chain) + 1 /\ chain'[h].txs = txs /\ chain'[h].id = branch
  BY SMTT(30), <1>3
<1>6. /\ \A tx \in mempool' : Sent(tx)
      /\ \A h \in DOMAIN chain' : \A tx \in chain'[h].txs : Sent(tx)
  BY <1>4, <1>5 DEF FanInv, ChildrenSent
<1>7. Anchors'
  <2>1. \A h \in DOMAIN chain' : chain'[h].id <= branch'
    BY SMTT(30), <1>1, <1>4, <1>5 DEF FanInv, Anchors
  <2>2. ASSUME NEW f \in Fanouts PROVE Anchored(f)'
    <3>1. Anchored(f) /\ scanned' = scanned
      BY <1>4 DEF FanInv, Anchors, rowVars
    <3>2. CASE scanned[f] = NoAnchor
      BY <3>1, <3>2 DEF Anchored
    <3>3. CASE scanned[f] # NoAnchor
      <4>1. /\ scanned[f].height \in 1..Len(chain) /\ scanned[f].height \in 1..Len(chain')
            /\ \A h \in 1..scanned[f].height : h \in DOMAIN chain
        BY SMTT(30), <1>3, <3>1, <3>3 DEF Anchored
      <4> QED BY <1>3, <1>4, <3>1, <3>3, <4>1 DEF Anchored
    <3> QED BY <3>2, <3>3
  <2> QED BY <2>1, <2>2 DEF Anchors
<1> QED BY <1>1, <1>3, <1>4, <1>6, <1>7, ChainMoves

LEMMA Reorgs ==
    ASSUME FanInv, NEW h \in DOMAIN chain, NEW txs \in {{}, Undone(h)}, Reorg(h, txs)
    PROVE  FanInv'
<1>1. /\ chain \in Seq(Blocks) /\ branch \in Nat \ {0} /\ mempool \subseteq Txs
      /\ Len(chain) \in Nat /\ DOMAIN chain = 1..Len(chain)
      /\ \A i \in DOMAIN chain : chain[i] \in Blocks
  BY SMTT(30) DEF FanInv, FanTypes, NetTypes
<1>2. \A tx \in Undone(h) : \E i \in DOMAIN chain : tx \in chain[i].txs
  BY SMTT(30), <1>1 DEF Undone
<1>3. /\ branch' = branch + 1 /\ mempool' = mempool \cup (Undone(h) \ txs)
      /\ UNCHANGED <<frontVars, token, dead, rowVars, fundVars, paying, locked, known, loose>>
  BY DEF Reorg, claimVars, walletVars
<1>4. chain' = [i \in 1..Len(chain) |->
                  IF i < h THEN chain[i]
                           ELSE [id |-> branch + 1, txs |-> IF i = h THEN txs ELSE {}]]
  BY <1>1 DEF Reorg
<1>5. \A i \in 1..Len(chain) : \/ i < h /\ chain'[i] = chain[i]
                               \/ i >= h /\ chain'[i].id = branch + 1 /\ chain'[i].txs \subseteq Undone(h)
  BY SMTT(30), <1>1, <1>4
<1>6. Undone(h) \subseteq Txs /\ branch + 1 \in Nat \ {0}
  BY SMTT(30), <1>1, <1>2 DEF Blocks
<1>7. \A i \in 1..Len(chain) :
        (IF i < h THEN chain[i] ELSE [id |-> branch + 1, txs |-> IF i = h THEN txs ELSE {}]) \in Blocks
  BY <1>1, <1>6 DEF Blocks
<1>8. chain' \in Seq(Blocks) /\ Len(chain') = Len(chain) /\ DOMAIN chain' = 1..Len(chain)
  BY SMTT(30), <1>1, <1>4, <1>7
<1>9. /\ \A tx \in mempool' : Sent(tx)
      /\ \A i \in DOMAIN chain' : \A tx \in chain'[i].txs : Sent(tx)
  BY <1>1, <1>2, <1>3, <1>5, <1>8 DEF FanInv, ChildrenSent
<1>10. Anchors'
  <2>1. \A i \in DOMAIN chain : chain[i].id \in Nat /\ chain[i].id <= branch
    BY <1>1 DEF FanInv, Anchors, Blocks
  <2>2. \A i \in DOMAIN chain' : chain'[i].id <= branch'
    BY SMTT(30), <1>1, <1>3, <1>5, <1>8, <2>1
  <2>3. ASSUME NEW f \in Fanouts PROVE Anchored(f)'
    <3>1. Anchored(f) /\ scanned' = scanned
      BY <1>3 DEF FanInv, Anchors, rowVars
    <3>2. CASE scanned[f] = NoAnchor
      BY <3>1, <3>2 DEF Anchored
    <3>3. CASE scanned[f] # NoAnchor
      <4>1. /\ scanned[f].height \in 1..Len(chain) /\ scanned[f].next = scanned[f].height + 1
            /\ scanned[f].id \in 1..branch
            /\ chain[scanned[f].height].id = scanned[f].id =>
                 \A i \in 1..scanned[f].height : Fanout(f) \notin chain[i].txs
        BY <3>1, <3>3 DEF Anchored
      <4>2. scanned[f].id \in 1..branch' /\ scanned[f].id # branch + 1
        BY SMTT(30), <1>1, <1>3, <4>1
      <4>3. CASE scanned[f].height < h
        <5>1. \A i \in 1..scanned[f].height : i \in 1..Len(chain) /\ i < h /\ chain'[i] = chain[i]
          BY SMTT(30), <1>1, <1>5, <4>1, <4>3
        <5>2. chain'[scanned[f].height] = chain[scanned[f].height]
          BY SMTT(30), <1>1, <4>1, <5>1
        <5> QED BY <1>8, <3>1, <4>1, <4>2, <5>1, <5>2 DEF Anchored
      <4>4. CASE ~(scanned[f].height < h)
        <5>1. chain'[scanned[f].height].id = branch + 1
          BY <1>1, <1>5, <4>1, <4>4
        <5> QED BY <1>8, <3>1, <4>1, <4>2, <5>1 DEF Anchored
      <4> QED BY <4>3, <4>4
    <3> QED BY <3>2, <3>3
  <2> QED BY <2>2, <2>3 DEF Anchors
<1> QED BY <1>1, <1>3, <1>6, <1>8, <1>9, <1>10, ChainMoves

----------------------------------------------------------------------------
(* Looking for the fanout. *)

LEMMA ResultInv ==
    ASSUME FanInv, NEW w \in Frontends, NEW label \in Results, NEW height \in Nat, NEW id \in Nat,
           ~Over(w), Resulted(w, label, height, id), job' = job,
           UNCHANGED <<status, evidence, token, dead, fundVars, netVars, locked, loose, known, paying>>,
           IF label = "confirmed" THEN id # 0 ELSE step[w] \in Undoing \/ ~DeepEnough(job[w]),
           scanned' \in [Fanouts -> [next : Nat, height : Nat, id : Nat]], Anchors'
    PROVE  FanInv'
<1>1. label \in Steps /\ label \notin {"idle", "save", "send", "release"}
  BY DEF Steps, Results
<1>2. FrontTypes' /\ step'[w] = label /\ result'[w].id = id /\ Alone(w)
  BY <1>1, ResultedTypes DEF FanInv, FanTypes, Alone
<1>3. FanTypes'
  BY <1>2 DEF FanInv, FanTypes, RowTypes, FundTypes, NetTypes, fundVars, netVars
<1>4. Holding'
  BY <1>2, HoldingKept
<1>5. Funding'
  BY <1>1, <1>2, FundingKept DEF Alone
<1>6. ChildrenSent'
  BY SentKept DEF netVars
<1>7. NotDeep'
  BY <1>2, NotDeepKept DEF Alone, Undoing
<1> QED BY <1>3, <1>4, <1>5, <1>6, <1>7 DEF FanInv

LEMMA Inspections ==
    ASSUME FanInv, NEW w \in Frontends,
           StillConfirmed(w) \/ HaltFanoutReorg(w) \/ Inspect(w) \/ AttemptFails(w)
    PROVE  FanInv'
<1>1. ~Over(w) /\ job' = job
  BY DEF StillConfirmed, HaltFanoutReorg, Inspect, AttemptFails, Inspecting, Over, Results
<1>2. UNCHANGED <<rowVars, token, dead, fundVars, netVars, locked, loose, known, paying>>
  BY DEF StillConfirmed, HaltFanoutReorg, Inspect, AttemptFails, claimVars, walletVars
<1>3. /\ scanned' \in [Fanouts -> [next : Nat, height : Nat, id : Nat]]
      /\ UNCHANGED <<status, evidence>> /\ Anchors'
  BY <1>2, AnchorsKept DEF FanInv, FanTypes, RowTypes, rowVars, netVars
<1>4. job[w] \in Fanouts /\ "failed" \in Steps
  BY <1>1 DEF FanInv, Holding, Over, Working, Steps
<1>5. CASE StillConfirmed(w)
  <2>1. /\ evidence[job[w]].height \in Nat /\ evidence[job[w]].id \in Nat
    BY <1>4 DEF FanInv, FanTypes, RowTypes, Evidence
  <2>2. /\ evidence[job[w]].id # 0 /\ "confirmed" \in Results
        /\ Resulted(w, "confirmed", evidence[job[w]].height, evidence[job[w]].id)
    BY <1>5 DEF StillConfirmed, Results
  <2> QED BY <1>1, <1>2, <1>3, <2>1, <2>2, ResultInv
<1>6. CASE HaltFanoutReorg(w) \/ AttemptFails(w)
  <2>1. Goto(w, "failed") /\ UNCHANGED <<job, result>>
    BY <1>6 DEF HaltFanoutReorg, AttemptFails
  <2>2. "failed" \notin Undoing \cup {"save", "send", "release", "confirmed"}
    BY DEF Undoing
  <2> QED BY <1>1, <1>2, <1>4, <2>1, <2>2, QuietGoto
<1>7. CASE Inspect(w)
  <2>1. ~DeepEnough(job[w])
    <3>1. evidence[job[w]].depth < Deep
      BY <1>4, <1>7 DEF Inspect, FanInv, NotDeep
    <3> QED BY SMTT(30), <1>4, <3>1, FanoutAssumption
                 DEF DeepEnough, FanInv, FanTypes, RowTypes, Evidence
  <2>2. ASSUME NEW h \in DOMAIN chain, Resulted(w, "confirmed", h, chain[h].id)
        PROVE  FanInv'
    <3>1. h \in Nat /\ chain[h].id \in Nat /\ chain[h].id # 0 /\ "confirmed" \in Results
      BY SMTT(30), ChainTypes DEF FanInv, FanTypes, Results
    <3> QED BY <1>1, <1>2, <1>3, <2>2, <3>1, ResultInv
  <2>3. CASE Resulted(w, "in_mempool", 0, 0)
    <3>1. "in_mempool" \in Results /\ 0 \in Nat
      BY DEF Results
    <3> QED BY <1>1, <1>2, <1>3, <2>1, <2>3, <3>1, ResultInv
  <2>4. ASSUME NEW label \in {"scan", "child", "send"}, Goto(w, label), result' = result,
               label = "send" => job[w] \in paying
        PROVE  FanInv'
    <3>1. label \in Steps \ {"confirmed"} /\ label \notin {"save", "release"}
      BY DEF Steps
    <3> QED BY <1>1, <1>2, <2>1, <2>4, <3>1, QuietGoto
  <2> QED BY <1>7, <2>2, <2>3, <2>4 DEF Inspect
<1> QED BY <1>5, <1>6, <1>7

(* An anchor on the chain vouches for the blocks below the next page. *)
LEMMA BelowScan ==
    ASSUME FanInv
    PROVE  /\ ScanNeverPasses
           /\ \A f \in Fanouts : ScanFrom(f) \in Nat \ {0}
<1> SUFFICES ASSUME NEW f \in Fanouts
             PROVE  /\ ScanFrom(f) \in Nat \ {0}
                    /\ \A h \in DOMAIN chain : h < ScanFrom(f) => Fanout(f) \notin chain[h].txs
  BY DEF ScanNeverPasses
<1>1. /\ Len(chain) \in Nat /\ DOMAIN chain = 1..Len(chain)
  BY ChainTypes DEF FanInv, FanTypes
<1>2. Anchored(f)
  BY DEF FanInv, Anchors
<1>3. CASE scanned[f] = NoAnchor
  <2>1. ScanFrom(f) = 1
    BY SMTT(30), <1>3 DEF ScanFrom, NoAnchor
  <2> QED BY SMTT(30), <1>1, <2>1
<1>4. CASE scanned[f] # NoAnchor
  <2>1. /\ scanned[f].height \in 1..Len(chain) /\ scanned[f].next = scanned[f].height + 1
        /\ chain[scanned[f].height].id = scanned[f].id =>
             \A h \in 1..scanned[f].height : Fanout(f) \notin chain[h].txs
        /\ scanned[f].id # 0
    BY SMTT(30), <1>2, <1>4 DEF Anchored
  <2>2. CASE chain[scanned[f].height].id = scanned[f].id
    <3>1. ScanFrom(f) = scanned[f].height + 1
      BY SMTT(30), <1>1, <2>1, <2>2 DEF ScanFrom, Active
    <3> QED BY SMTT(30), <1>1, <2>1, <2>2, <3>1
  <2>3. CASE chain[scanned[f].height].id # scanned[f].id
    <3>1. ScanFrom(f) = 1
      BY <2>1, <2>3 DEF ScanFrom, Active
    <3> QED BY SMTT(30), <1>1, <3>1
  <2> QED BY <2>2, <2>3
<1> QED BY <1>3, <1>4

LEMMA Scans ==
    ASSUME FanInv, NEW w \in Frontends, ScanPage(w)
    PROVE  FanInv'
<1> DEFINE f == job[w]
           next == ScanFrom(f)
           stop == IF view[w].height < next + ScanBlocks - 1 THEN view[w].height
                                                             ELSE next + ScanBlocks - 1
           found == {h \in next..stop : h <= Len(chain) /\ Fanout(f) \in chain[h].txs}
<1>1. ~Over(w) /\ step[w] \in Undoing /\ job' = job
  BY DEF ScanPage, At, Over, Results, Undoing
<1>2. UNCHANGED <<status, evidence, token, dead, fundVars, netVars, locked, loose, known, paying>>
  BY DEF ScanPage, claimVars, walletVars
<1>3. f \in Fanouts
  BY <1>1 DEF FanInv, Holding, Over, Working
<1>4. "scan_pending" \in Results /\ "confirmed" \in Results /\ 0 \in Nat
  BY DEF Results
<1>5. ASSUME scanned' = scanned PROVE Anchors' /\ RowTypes'
  BY <1>2, <1>5, AnchorsKept DEF FanInv, FanTypes, RowTypes, netVars
<1>6. CASE scanned' = scanned /\ Resulted(w, "scan_pending", 0, 0)
  BY <1>1, <1>2, <1>4, <1>5, <1>6, ResultInv DEF RowTypes
<1>7. ASSUME scanned' = scanned, NEW h \in found, Resulted(w, "confirmed", h, chain[h].id)
      PROVE  FanInv'
  <2>1. next \in Nat \ {0} /\ Len(chain) \in Nat /\ DOMAIN chain = 1..Len(chain)
    BY <1>3, BelowScan, ChainTypes DEF FanInv, FanTypes
  <2>2. stop \in Int
    BY SMTT(30), <2>1, FanoutAssumption DEF FanInv, FanTypes, FrontTypes
  <2>3. h \in DOMAIN chain /\ h \in Nat
    BY SMTT(30), <2>1, <2>2
  <2>4. chain[h].id \in Nat /\ chain[h].id # 0
    BY <2>3, ChainTypes DEF FanInv, FanTypes
  <2> QED BY <1>1, <1>2, <1>4, <1>5, <1>7, <2>3, <2>4, ResultInv DEF RowTypes
<1>8. CASE /\ Stable(w) /\ found = {} /\ next <= stop
           /\ scanned' = [scanned EXCEPT ![f] = [next |-> stop + 1, height |-> stop,
                                                 id |-> chain[stop].id]]
           /\ Resulted(w, "scan_pending", 0, 0)
  <2>1. next \in Nat \ {0} /\ Len(chain) \in Nat /\ DOMAIN chain = 1..Len(chain)
    BY <1>3, BelowScan, ChainTypes DEF FanInv, FanTypes
  <2>2. view[w].height = Len(chain)
    BY <1>8 DEF Stable
  <2>3. stop \in 1..Len(chain)
    BY SMTT(30), <1>8, <2>1, <2>2, FanoutAssumption
  <2>4. chain[stop].id \in Nat \ {0} /\ chain[stop].id <= branch
    BY <2>1, <2>3, ChainTypes DEF FanInv, FanTypes, Anchors
  <2>5. scanned' \in [Fanouts -> [next : Nat, height : Nat, id : Nat]]
    BY SMTT(30), <1>3, <1>8, <2>1, <2>3, <2>4 DEF FanInv, FanTypes, RowTypes
  <2>6. \A h \in 1..stop : Fanout(f) \notin chain[h].txs
    <3>1. \A h \in 1..stop : h < next => Fanout(f) \notin chain[h].txs
      BY SMTT(30), <1>3, <2>1, <2>3, BelowScan DEF ScanNeverPasses
    <3>2. \A h \in next..stop : Fanout(f) \notin chain[h].txs
      BY SMTT(30), <1>8, <2>1, <2>3
    <3> QED BY SMTT(30), <2>1, <2>3, <3>1, <3>2
  <2>7. Anchors'
    <3>1. UNCHANGED <<chain, branch>>
      BY <1>2 DEF netVars
    <3>2. ASSUME NEW g \in Fanouts PROVE Anchored(g)'
      <4>1. CASE g # f
        <5>1. scanned'[g] = scanned[g] /\ Anchored(g)
          BY <1>8, <4>1 DEF FanInv, Anchors, FanTypes, RowTypes
        <5> QED BY <3>1, <5>1 DEF Anchored
      <4>2. CASE g = f
        <5>1. /\ scanned'[g].height = stop /\ scanned'[g].next = stop + 1
              /\ scanned'[g].id = chain[stop].id
          BY <1>3, <1>8, <4>2 DEF FanInv, FanTypes, RowTypes
        <5>2. chain[stop].id \in 1..branch
          BY SMTT(30), <2>4 DEF FanInv, FanTypes, NetTypes
        <5>3. \A h \in 1..stop : Fanout(g) \notin chain[h].txs
          BY <2>6, <4>2
        <5> HIDE DEF stop, f
        <5> QED BY <2>3, <3>1, <5>1, <5>2, <5>3 DEF Anchored
      <4> QED BY <4>1, <4>2
    <3> QED BY <3>1, <3>2 DEF FanInv, Anchors
  <2> QED BY <1>1, <1>2, <1>4, <1>8, <2>5, <2>7, ResultInv
<1> QED BY <1>6, <1>7, <1>8 DEF ScanPage

----------------------------------------------------------------------------
(* Funding the fanout. *)

(* A fanout has one attempt that is not over. *)
LEMMA OneAttempt ==
    ASSUME FanInv, NEW w \in Frontends, ~Over(w)
    PROVE  /\ job[w] \in Fanouts
           /\ \A v \in Frontends : ~Over(v) /\ job[v] = job[w] => v = w
  BY DEF FanInv, Holding, Over, Working

(* A step of the wallet's or the package's, by no attempt's label. *)
LEMMA FundingAlone ==
    ASSUME FanInv, UNCHANGED <<rowVars, token, dead, frontVars, netVars, known>>,
           FundTypes', Funding'
    PROVE  FanInv'
<1>1. FanTypes'
  BY DEF FanInv, FanTypes, FrontTypes, RowTypes, NetTypes, rowVars, frontVars, netVars
<1>2. Holding'
  BY DEF FanInv, Holding, Over, Working, frontVars
<1>3. ChildrenSent' /\ Anchors'
  BY SentKept, AnchorsKept DEF netVars, rowVars
<1>4. NotDeep'
  BY NotDeepKept DEF rowVars, frontVars
<1> QED BY <1>1, <1>2, <1>3, <1>4 DEF FanInv

(* One that moves the attempt on. *)
LEMMA FundingGoto ==
    ASSUME FanInv, NEW w \in Frontends, NEW label \in Steps \ {"confirmed"}, ~Over(w),
           Goto(w, label), UNCHANGED <<job, result>>,
           UNCHANGED <<rowVars, token, dead, netVars, known>>,
           label \in Undoing => step[w] \in Undoing,
           FundTypes', Funding'
    PROVE  FanInv'
<1>1. FrontTypes' /\ Alone(w) /\ step'[w] = label
  BY GotoTypes DEF FanInv, FanTypes, FrontTypes, Alone
<1>2. FanTypes'
  BY <1>1 DEF FanInv, FanTypes, RowTypes, NetTypes, rowVars, netVars
<1>3. Holding'
  BY <1>1, HoldingKept
<1>4. ChildrenSent' /\ Anchors'
  BY SentKept, AnchorsKept DEF netVars, rowVars
<1>5. NotDeep'
  BY <1>1, NotDeepKept DEF Alone, rowVars
<1> QED BY <1>2, <1>3, <1>4, <1>5 DEF FanInv

(* No coin of a package is let go of, and no child is signed. *)
LEMMA FundingGrows ==
    ASSUME FanInv, FundTypes', UNCHANGED <<retired, known, paying>>,
           \A f \in Fanouts : /\ package'[f].coin = package[f].coin
                              /\ package'[f].child = package[f].child
                              /\ package'[f] = package[f] \/ package[f].coin # Nobody,
           locked' \ locked \subseteq Reserved,
           locked \cup loose \subseteq locked' \cup loose',
           \A v \in Frontends : step'[v] \in {"save", "send", "release"} =>
             \/ step'[v] = step[v] /\ job'[v] = job[v]
             \/ /\ job'[v] \in Fanouts
                /\ step'[v] = "save" => package[job'[v]].coin \in locked' \cup loose'
                /\ step'[v] = "send" => package[job'[v]].child # Nobody
                /\ step'[v] = "release" => /\ package[job'[v]].child # Nobody
                                           /\ SignedChild(job'[v]) \in known
    PROVE  Funding'
<1>1. \A f \in Fanouts : SignedChild(f)' = SignedChild(f)
  BY DEF SignedChild
<1>2. CoinsApart' /\ KnownSigned'
  BY SMTT(30), <1>1 DEF FanInv, Funding, CoinsApart, KnownSigned
<1>3. LocksRecorded'
  <2>1. Reserved' = Reserved
    BY SMTT(30) DEF Reserved
  <2> QED BY <2>1 DEF FanInv, Funding, LocksRecorded
<1>4. SignedCoinProtected'
  BY <1>1 DEF FanInv, Funding, SignedCoinProtected
<1>5. AttemptFunding'
  <2> SUFFICES ASSUME NEW v \in Frontends, step'[v] \in {"save", "send", "release"}
               PROVE  /\ step'[v] = "save" => package'[job'[v]].coin \in locked' \cup loose'
                      /\ step'[v] = "send" /\ job'[v] \notin paying' =>
                           package'[job'[v]].child # Nobody
                      /\ step'[v] = "release" => /\ package'[job'[v]].child # Nobody
                                                 /\ SignedChild(job[v])' \in known'
    BY DEF AttemptFunding
  <2>1. job'[v] \in Fanouts
    BY DEF FanInv, Holding, Working
  <2>2. SignedChild(job[v])' = SignedChild(job'[v])
    BY <1>1, <2>1 DEF SignedChild
  <2>3. /\ step'[v] = "save" => package[job'[v]].coin \in locked' \cup loose'
        /\ step'[v] = "send" /\ job'[v] \notin paying => package[job'[v]].child # Nobody
        /\ step'[v] = "release" => /\ package[job'[v]].child # Nobody
                                   /\ SignedChild(job'[v]) \in known
    BY DEF FanInv, Funding, AttemptFunding
  <2> QED BY <2>1, <2>2, <2>3
<1> QED BY <1>2, <1>3, <1>4, <1>5 DEF Funding

LEMMA Retains ==
    ASSUME FanInv, NEW w \in Frontends,
           RetainLock(w) \/ ChildConfirmed(w) \/ LockFunding(w) \/ ReplayPackage(w)
    PROVE  FanInv'
<1> DEFINE f == job[w]
<1>1. ~Over(w) /\ f \in Fanouts
  BY OneAttempt DEF RetainLock, ChildConfirmed, LockFunding, ReplayPackage, At, Over, Results
<1>2. /\ UNCHANGED <<rowVars, token, dead, netVars, known, paying, retired, job, result>>
  BY DEF RetainLock, ChildConfirmed, LockFunding, ReplayPackage, claimVars, fundVars, frontVars,
         walletVars
<1>3. package[f].child # Nobody \/ package[f] # NoPackage
  BY DEF RetainLock, ChildConfirmed, LockFunding, ReplayPackage
<1>4. package[f].coin \in Coins /\ package[f].coin # Nobody /\ package[f].coin \in Reserved
  <2>1. package[f].coin \in Coins \cup {Nobody}
    BY <1>1, PackageFields DEF FanInv, FanTypes, FundTypes
  <2>2. package[f].coin # Nobody
    BY SMTT(30), <1>1, <1>3 DEF FanInv, Funding, CoinsApart, NoPackage
  <2> QED BY <1>1, <2>1, <2>2 DEF Reserved
<1>5. \/ locked' = locked /\ loose' = loose
      \/ locked' = locked \cup {package[f].coin} /\ loose' = loose \ {package[f].coin}
  BY DEF RetainLock, ChildConfirmed, LockFunding, ReplayPackage, walletVars
<1>6. \/ package' = package
      \/ package' = [package EXCEPT ![f].released = FALSE]
  BY DEF RetainLock, ChildConfirmed, LockFunding, ReplayPackage, fundVars
<1>7. FundTypes'
  <2>1. locked' \subseteq Coins /\ loose' \subseteq Coins
    BY <1>4, <1>5 DEF FanInv, FanTypes, FundTypes
  <2>2. [package[f] EXCEPT !.released = FALSE] \in Packages
    BY <1>1, PackageFields DEF FanInv, FanTypes, FundTypes
  <2>3. package' \in [Fanouts -> Packages]
    BY <1>1, <1>6, <2>2 DEF FanInv, FanTypes, FundTypes
  <2> QED BY <1>2, <2>1, <2>3 DEF FanInv, FanTypes, FundTypes
<1>8. \A g \in Fanouts : /\ package'[g].coin = package[g].coin
                         /\ package'[g].child = package[g].child
                         /\ package'[g] = package[g] \/ package[g].coin # Nobody
  <2>1. package \in [Fanouts -> Packages]
    BY DEF FanInv, FanTypes, FundTypes
  <2>2. /\ [package[f] EXCEPT !.released = FALSE].coin = package[f].coin
        /\ [package[f] EXCEPT !.released = FALSE].child = package[f].child
    BY <1>1, <2>1, PackageFields
  <2> QED BY <1>1, <1>4, <1>6, <2>1, <2>2
<1>9. /\ locked' \ locked \subseteq Reserved
      /\ locked \cup loose \subseteq locked' \cup loose'
  BY <1>4, <1>5
<1>10. CASE RetainLock(w)
  <2>1. UNCHANGED frontVars
    BY <1>10 DEF RetainLock
  <2>2. Funding'
    BY <1>2, <1>7, <1>8, <1>9, <2>1, FundingGrows DEF frontVars
  <2> QED BY <1>2, <1>7, <2>1, <2>2, FundingAlone
<1>11. ASSUME NEW label \in {"release", "save", "send"}, Goto(w, label),
              label = "save" => package[f].coin \in locked' \cup loose',
              label = "send" => package[f].child # Nobody,
              label = "release" => package[f].child # Nobody /\ SignedChild(f) \in known,
              label \in Undoing => step[w] \in Undoing
       PROVE  FanInv'
  <2>1. label \in Steps \ {"confirmed"}
    BY DEF Steps
  <2>2. /\ step'[w] = label /\ job'[w] = f
        /\ \A v \in Frontends \ {w} : step'[v] = step[v] /\ job'[v] = job[v]
    BY <1>2, <1>11, <2>1, GotoTypes DEF FanInv, FanTypes
  <2>3. Funding'
    BY <1>1, <1>2, <1>7, <1>8, <1>9, <1>11, <2>2, FundingGrows
  <2> QED BY <1>1, <1>2, <1>7, <1>11, <2>1, <2>3, FundingGoto
<1>12. CASE ChildConfirmed(w)
  <2>1. /\ package[f].child # Nobody /\ InChain(SignedChild(f)) /\ Goto(w, "release")
    BY <1>12 DEF ChildConfirmed
  <2>2. SignedChild(f) \in known
    <3>1. \A g \in Fanouts : SignedChild(f) # Fanout(g)
      <4>1. \A g \in Fanouts : SignedChild(f).kind # Fanout(g).kind
        BY DEF SignedChild, Child, Fanout
      <4> QED BY <4>1
    <3> QED BY <2>1, <3>1 DEF InChain, FanInv, ChildrenSent, Sent
  <2> QED BY <1>11, <2>1, <2>2 DEF Undoing
<1>13. CASE LockFunding(w)
  <2>1. package[f].coin \in locked' /\ Goto(w, "save") /\ step[w] \in Undoing
    BY <1>13 DEF LockFunding, At, Undoing
  <2> QED BY <1>11, <2>1
<1>14. CASE ReplayPackage(w)
  <2>1. package[f].child # Nobody /\ Goto(w, "send") /\ step[w] \in Undoing
    BY <1>14 DEF ReplayPackage, At, Undoing
  <2> QED BY <1>11, <2>1
<1> QED BY <1>10, <1>12, <1>13, <1>14

LEMMA Unlocks ==
    ASSUME FanInv, NEW c \in Coins, UnlockByHand(c)
    PROVE  FanInv'
<1>1. UNCHANGED <<rowVars, token, dead, frontVars, netVars, known, fundVars, paying>>
  BY DEF UnlockByHand, claimVars, Fault
<1>2. locked' = locked \ {c} /\ loose' = loose \cup {c}
  BY DEF UnlockByHand
<1>3. FundTypes'
  BY <1>1, <1>2 DEF FanInv, FanTypes, FundTypes, fundVars
<1>4. Funding'
  BY <1>1, <1>2, <1>3, FundingGrows DEF fundVars, frontVars
<1> QED BY <1>1, <1>3, <1>4, FundingAlone

(* The coin a lock is taken off is no package's, or that of a child the     *)
(* wallet knows.                                                            *)
LEMMA UnlockedCoin ==
    ASSUME FanInv, NEW c \in Coins, locked' = locked \ {c},
           UNCHANGED <<rowVars, token, dead, frontVars, netVars, known, fundVars, loose, paying>>,
           \A f \in Fanouts : package[f].coin = c => SignedChild(f) \in known,
           \A v \in Frontends : step[v] = "save" => package[job[v]].coin # c
    PROVE  FanInv'
<1>1. FundTypes'
  BY DEF FanInv, FanTypes, FundTypes, fundVars
<1>2. \A f \in Fanouts : SignedChild(f)' = SignedChild(f)
  BY DEF SignedChild, fundVars
<1>3. CoinsApart' /\ KnownSigned' /\ LocksRecorded'
  BY <1>2 DEF FanInv, Funding, CoinsApart, KnownSigned, LocksRecorded, Reserved, fundVars
<1>4. SignedCoinProtected'
  BY <1>2 DEF FanInv, Funding, SignedCoinProtected, fundVars
<1>5. AttemptFunding'
  BY DEF FanInv, Funding, AttemptFunding, SignedChild, fundVars, frontVars
<1> QED BY <1>1, <1>3, <1>4, <1>5, FundingAlone DEF Funding

LEMMA UnlocksRetired ==
    ASSUME FanInv, NEW w \in Frontends, NEW c \in Coins, UnlockRetired(w, c)
    PROVE  FanInv'
<1>1. ~Over(w) /\ retired[c].for = job[w]
  BY DEF UnlockRetired, At, Over, Results
<1>2. retired[c] # NotRetired
  BY SMTT(30), <1>1, OneAttempt, FanoutAssumption DEF NotRetired
<1>3. \A f \in Fanouts : package[f].coin # c
  BY <1>2, FanoutAssumption DEF FanInv, Funding, CoinsApart
<1>4. \A v \in Frontends : step[v] = "save" => package[job[v]].coin # c
  BY <1>3 DEF FanInv, Holding, Working
<1>5. UNCHANGED <<rowVars, token, dead, frontVars, netVars, known, package, loose, paying>>
  BY DEF UnlockRetired, claimVars
<1>6. CASE locked' = locked \ {c} /\ retired' = retired
  BY <1>3, <1>4, <1>5, <1>6, UnlockedCoin DEF fundVars
<1>7. CASE c \notin locked /\ retired' = [retired EXCEPT ![c].released = TRUE] /\ locked' = locked
  <2>1. /\ retired'[c] \in [for : Fanouts \cup {Nobody}, released : BOOLEAN]
        /\ \A d \in Coins \ {c} : retired'[d] = retired[d]
    BY <1>7 DEF FanInv, FanTypes, FundTypes
  <2>2. FundTypes'
    BY <1>5, <1>7, <2>1 DEF FanInv, FanTypes, FundTypes
  <2>3. \A f \in Fanouts : package[f].coin # Nobody => package[f].coin \in Coins \ {c}
    BY <1>3, PackageFields DEF FanInv, FanTypes, FundTypes
  <2>4. CoinsApart'
    BY <1>5, <2>1, <2>3 DEF FanInv, Funding, CoinsApart
  <2>5. LocksRecorded'
    BY SMTT(30), <1>5, <1>7, <2>1 DEF FanInv, FanTypes, FundTypes, Funding, LocksRecorded, Reserved
  <2>6. KnownSigned' /\ AttemptFunding' /\ SignedCoinProtected'
    BY <1>5, <1>7 DEF FanInv, Funding, KnownSigned, AttemptFunding, SignedCoinProtected,
         SignedChild, frontVars
  <2> QED BY <1>5, <2>2, <2>4, <2>5, <2>6, FundingAlone DEF Funding
<1> QED BY <1>6, <1>7 DEF UnlockRetired

LEMMA Releases ==
    ASSUME FanInv, NEW w \in Frontends, ReleaseLock(w)
    PROVE  FanInv'
<1> DEFINE f == job[w]
           c == package[f].coin
<1>1. ~Over(w) /\ step[w] = "release" /\ f \in Fanouts
  BY OneAttempt DEF ReleaseLock, At, Over, Results
<1>2. package[f].child # Nobody /\ SignedChild(f) \in known /\ package[f] \in Packages
  BY <1>1 DEF FanInv, Funding, AttemptFunding, FanTypes, FundTypes
<1>3. c # Nobody
  BY SMTT(30), <1>1, <1>2 DEF FanInv, Funding, CoinsApart, NoPackage
<1>4. UNCHANGED <<rowVars, token, dead, job, result, netVars, known, retired, loose, paying>>
  BY DEF ReleaseLock, claimVars
<1>5. CASE c \in locked /\ locked' = locked \ {c} /\ UNCHANGED <<package, step, view>>
  <2>1. c \in Coins
    BY <1>2, <1>3, PackageFields
  <2>2. \A g \in Fanouts : package[g].coin = c => g = f
    BY <1>1, <1>3 DEF FanInv, Funding, CoinsApart
  <2>3. ASSUME NEW v \in Frontends, step[v] = "save" PROVE package[job[v]].coin # c
    <3>1. ~Over(v) /\ v # w
      BY <1>1, <2>3 DEF Over, Results
    <3> QED BY <1>1, <2>2, <3>1, OneAttempt
  <2> QED BY <1>2, <1>4, <1>5, <2>1, <2>2, <2>3, UnlockedCoin DEF frontVars, fundVars
<1>6. CASE /\ package' = [package EXCEPT ![f].released = TRUE]
           /\ Goto(w, "maintain") /\ locked' = locked
  <2>1. package \in [Fanouts -> Packages]
    BY DEF FanInv, FanTypes, FundTypes
  <2>2. /\ [package[f] EXCEPT !.released = TRUE] \in Packages
        /\ [package[f] EXCEPT !.released = TRUE].coin = package[f].coin
        /\ [package[f] EXCEPT !.released = TRUE].child = package[f].child
    BY <1>2, PackageFields
  <2>3. FundTypes'
    BY <1>1, <1>4, <1>6, <2>1, <2>2 DEF FanInv, FanTypes, FundTypes
  <2>4. \A g \in Fanouts : /\ package'[g].coin = package[g].coin
                           /\ package'[g].child = package[g].child
                           /\ package'[g] = package[g] \/ package[g].coin # Nobody
    BY <1>1, <1>3, <1>6, <2>1, <2>2
  <2>5. "maintain" \in Steps \ {"confirmed"} /\ "maintain" \notin Undoing
    BY DEF Steps, Undoing
  <2>6. step'[w] = "maintain" /\ \A v \in Frontends \ {w} : step'[v] = step[v]
    BY <1>6, <2>5, GotoTypes DEF FanInv, FanTypes
  <2>7. Funding'
    BY <1>4, <1>6, <2>3, <2>4, <2>6, FundingGrows
  <2> QED BY <1>1, <1>4, <1>6, <2>3, <2>5, <2>7, FundingGoto
<1> QED BY <1>5, <1>6 DEF ReleaseLock

(* A write to the attempt's own package leaves the other attempts theirs. *)
LEMMA OwnPackage ==
    ASSUME FanInv, NEW w \in Frontends, ~Over(w), UNCHANGED <<job, known, paying>>,
           \A v \in Frontends \ {w} : step'[v] = step[v],
           \A g \in Fanouts \ {job[w]} : package'[g] = package[g],
           locked \cup loose \subseteq locked' \cup loose',
           step'[w] \notin {"save", "release"},
           step'[w] = "send" => package'[job[w]].child # Nobody
    PROVE  AttemptFunding'
<1> SUFFICES ASSUME NEW v \in Frontends, step'[v] \in {"save", "send", "release"}
             PROVE  /\ step'[v] = "save" => package'[job[v]].coin \in locked' \cup loose'
                    /\ step'[v] = "send" /\ job[v] \notin paying =>
                         package'[job[v]].child # Nobody
                    /\ step'[v] = "release" => /\ package'[job[v]].child # Nobody
                                               /\ SignedChild(job[v])' \in known
  BY DEF AttemptFunding
<1>1. CASE v = w
  BY <1>1
<1>2. CASE v # w
  <2>1. ~Over(v)
    BY <1>2 DEF Over, Results
  <2>2. job[v] \in Fanouts \ {job[w]}
    BY <1>2, <2>1, OneAttempt
  <2>3. package'[job[v]] = package[job[v]] /\ SignedChild(job[v])' = SignedChild(job[v])
    BY <2>2 DEF SignedChild
  <2> QED BY <1>2, <2>3 DEF FanInv, Funding, AttemptFunding
<1> QED BY <1>1, <1>2

LEMMA Reserves ==
    ASSUME FanInv, NEW w \in Frontends, NEW c \in Coins, ReserveFunding(w, c)
    PROVE  FanInv'
<1> DEFINE f == job[w]
           p == [NoPackage EXCEPT !.coin = c]
<1>1. ~Over(w) /\ step[w] = "child" /\ f \in Fanouts
  BY OneAttempt DEF ReserveFunding, At, Over, Results
<1>2. /\ package[f] = NoPackage /\ c \notin locked /\ c \notin Reserved /\ retired[c] = NotRetired
      /\ package' = [package EXCEPT ![f] = p]
      /\ UNCHANGED <<rowVars, token, dead, frontVars, netVars, known, retired, locked, loose, paying>>
  BY DEF ReserveFunding, claimVars, walletVars
<1>3. package \in [Fanouts -> Packages]
  BY DEF FanInv, FanTypes, FundTypes
<1>4. p \in Packages /\ p.coin = c /\ p.child = Nobody /\ c # Nobody
  BY <1>1, <1>2, <1>3, PackageFields, FanoutAssumption DEF NoPackage
<1>5. package'[f] = p /\ \A g \in Fanouts \ {f} : package'[g] = package[g]
  BY <1>1, <1>2, <1>3
<1>6. FundTypes'
  BY <1>1, <1>2, <1>3, <1>4 DEF FanInv, FanTypes, FundTypes
<1>7. \A g \in Fanouts : package[g].coin # c
  BY <1>2 DEF Reserved
<1>8. CoinsApart'
  BY SMTT(30), <1>2, <1>4, <1>5, <1>7 DEF FanInv, Funding, CoinsApart
<1>9. package[f].child = Nobody /\ package[f].coin = Nobody
  BY SMTT(30), <1>2 DEF NoPackage
<1>10. \A g \in Fanouts : package[g].child # Nobody => g # f /\ SignedChild(g)' = SignedChild(g)
  BY <1>5, <1>9 DEF SignedChild
<1>11. KnownSigned' /\ SignedCoinProtected'
  BY SMTT(30), <1>2, <1>4, <1>5, <1>10 DEF FanInv, Funding, KnownSigned, SignedCoinProtected
<1>12. LocksRecorded'
  <2> SUFFICES ASSUME NEW d \in locked
               PROVE  d \in Reserved' \/ (retired[d].for # Nobody /\ ~retired[d].released)
    BY <1>2 DEF LocksRecorded
  <2>1. d # Nobody
    BY FanoutAssumption DEF FanInv, FanTypes, FundTypes
  <2>2. ASSUME NEW g \in Fanouts, d = package[g].coin PROVE d \in Reserved'
    BY <1>5, <1>9, <2>1, <2>2 DEF Reserved
  <2> QED BY <2>2 DEF FanInv, Funding, LocksRecorded, Reserved
<1>13. AttemptFunding'
  BY <1>1, <1>2, <1>5, OwnPackage DEF frontVars
<1> QED BY <1>2, <1>6, <1>8, <1>11, <1>12, <1>13, FundingAlone DEF Funding

LEMMA Retires ==
    ASSUME FanInv, NEW w \in Frontends, RetireFunding(w)
    PROVE  FanInv'
<1> DEFINE f == job[w]
           c == package[f].coin
           label == IF At(w, "save") THEN "failed" ELSE "child"
<1>1. ~Over(w) /\ step[w] \in Undoing /\ f \in Fanouts
  BY OneAttempt DEF RetireFunding, Over, Results, Undoing
<1>2. /\ package[f] # NoPackage /\ package[f].child = Nobody
      /\ retired' = [retired EXCEPT ![c] = [for |-> f, released |-> FALSE]]
      /\ package' = [package EXCEPT ![f] = NoPackage]
      /\ Goto(w, label)
      /\ UNCHANGED <<rowVars, token, dead, job, result, netVars, known, locked, loose, paying>>
  BY DEF RetireFunding, Retire, claimVars, walletVars
<1>3. /\ package \in [Fanouts -> Packages]
      /\ retired \in [Coins -> [for : Fanouts \cup {Nobody}, released : BOOLEAN]]
  BY DEF FanInv, FanTypes, FundTypes
<1>4. c # Nobody /\ c \in Coins
  BY <1>1, <1>2, <1>3, PackageFields DEF FanInv, Funding, CoinsApart
<1>5. /\ NoPackage \in Packages /\ NoPackage.coin = Nobody /\ NoPackage.child = Nobody
  BY DEF NoPackage, Packages
<1>6. package'[f] = NoPackage /\ \A g \in Fanouts \ {f} : package'[g] = package[g]
  BY <1>1, <1>2, <1>3
<1>7. /\ retired'[c].for = f /\ retired'[c].released = FALSE
      /\ \A d \in Coins \ {c} : retired'[d] = retired[d]
  BY <1>2, <1>3, <1>4
<1>8. FundTypes'
  BY <1>1, <1>2, <1>3, <1>5 DEF FanInv, FanTypes, FundTypes
<1>9. \A g \in Fanouts \ {f} : package[g].coin # Nobody => package[g].coin \in Coins \ {c}
  BY <1>1, <1>3, <1>4, PackageFields DEF FanInv, Funding, CoinsApart
<1>10. CoinsApart'
  BY SMTT(30), <1>5, <1>6, <1>7, <1>9 DEF FanInv, Funding, CoinsApart
<1>11. \A g \in Fanouts : package[g].child # Nobody => g # f /\ SignedChild(g)' = SignedChild(g)
  BY <1>2, <1>6 DEF SignedChild
<1>12. KnownSigned' /\ SignedCoinProtected'
  BY SMTT(30), <1>2, <1>5, <1>6, <1>11 DEF FanInv, Funding, KnownSigned, SignedCoinProtected
<1>13. LocksRecorded'
  <2> SUFFICES ASSUME NEW d \in locked
               PROVE  d \in Reserved' \/ (retired'[d].for # Nobody /\ ~retired'[d].released)
    BY <1>2 DEF LocksRecorded
  <2>1. CASE d = c
    BY <1>1, <1>7, <2>1, FanoutAssumption
  <2>2. CASE d # c
    <3>1. d \in Coins \ {c}
      BY <2>2 DEF FanInv, FanTypes, FundTypes
    <3>2. ASSUME NEW g \in Fanouts, d = package[g].coin PROVE d \in Reserved'
      BY <1>6, <2>2, <3>2 DEF Reserved
    <3> QED BY <1>7, <3>1, <3>2 DEF FanInv, Funding, LocksRecorded, Reserved
  <2> QED BY <2>1, <2>2
<1>14. label \in Steps \ {"confirmed"} /\ label \notin {"save", "send", "release"}
  BY DEF Steps
<1>15. step'[w] = label /\ \A v \in Frontends \ {w} : step'[v] = step[v]
  BY <1>2, <1>14, GotoTypes DEF FanInv, FanTypes
<1>16. AttemptFunding'
  BY <1>1, <1>2, <1>6, <1>14, <1>15, OwnPackage
<1> QED BY <1>1, <1>2, <1>8, <1>10, <1>12, <1>13, <1>14, <1>16, FundingGoto DEF Funding

LEMMA Saves ==
    ASSUME FanInv, NEW w \in Frontends, SavePackage(w)
    PROVE  FanInv'
<1> DEFINE f == job[w]
           p == [package[f] EXCEPT !.child = w]
<1>1. ~Over(w) /\ step[w] = "save" /\ step[w] \in Undoing /\ f \in Fanouts
  BY OneAttempt DEF SavePackage, At, Over, Results, Undoing
<1>2. /\ package[f].child = Nobody /\ package' = [package EXCEPT ![f].child = w]
      /\ Goto(w, "send")
      /\ UNCHANGED <<rowVars, token, dead, job, result, netVars, known, retired, locked, loose, paying>>
  BY DEF SavePackage, claimVars, walletVars
<1>3. package \in [Fanouts -> Packages] /\ locked \subseteq Coins /\ loose \subseteq Coins
  BY DEF FanInv, FanTypes, FundTypes
<1>4. p \in Packages /\ p.coin = package[f].coin /\ p.child = w /\ w # Nobody
  BY SMTT(30), <1>1, <1>3, PackageFields, FanoutAssumption
<1>5. package[f].coin \in locked \cup loose /\ package[f].coin # Nobody
  BY <1>1, <1>3, FanoutAssumption DEF FanInv, Funding, AttemptFunding
<1>6. package'[f] = p /\ \A g \in Fanouts \ {f} : package'[g] = package[g]
  BY <1>1, <1>2, <1>3
<1>7. FundTypes'
  BY <1>1, <1>2, <1>3, <1>4 DEF FanInv, FanTypes, FundTypes
<1>8. \A g \in Fanouts : package'[g].coin = package[g].coin
  BY <1>4, <1>6
<1>9. CoinsApart'
  BY SMTT(30), <1>2, <1>5, <1>6, <1>8 DEF FanInv, Funding, CoinsApart
<1>10. \A g \in Fanouts : package[g].child # Nobody => g # f /\ SignedChild(g)' = SignedChild(g)
  BY <1>2, <1>6 DEF SignedChild
<1>11. KnownSigned' /\ SignedCoinProtected'
  BY SMTT(30), <1>2, <1>5, <1>6, <1>8, <1>10 DEF FanInv, Funding, KnownSigned, SignedCoinProtected
<1>12. LocksRecorded'
  <2>1. Reserved' = Reserved
    BY <1>8 DEF Reserved
  <2> QED BY <1>2, <2>1 DEF FanInv, Funding, LocksRecorded
<1>13. "send" \in Steps \ {"confirmed"}
  BY DEF Steps
<1>14. step'[w] = "send" /\ \A v \in Frontends \ {w} : step'[v] = step[v]
  BY <1>2, <1>13, GotoTypes DEF FanInv, FanTypes
<1>15. AttemptFunding'
  BY <1>1, <1>2, <1>4, <1>6, <1>14, OwnPackage
<1> QED BY <1>1, <1>2, <1>7, <1>9, <1>11, <1>12, <1>13, <1>15, FundingGoto DEF Funding

LEMMA Sends ==
    ASSUME FanInv, NEW w \in Frontends, Send(w)
    PROVE  FanInv'
<1> DEFINE f == job[w]
           txs == IF f \in paying THEN {Fanout(f)} ELSE {Fanout(f), SignedChild(f)}
<1>1. ~Over(w) /\ step[w] = "send" /\ f \in Fanouts
  BY OneAttempt DEF Send, At, Over, Results
<1>2. /\ mempool' = mempool \cup txs /\ known' = known \cup (txs \ {Fanout(f)})
      /\ UNCHANGED <<rowVars, token, dead, fundVars, job, chain, branch, locked, loose, paying>>
  BY DEF Send, claimVars
<1>3. f \notin paying => package[f].child # Nobody
  BY <1>1 DEF FanInv, Funding, AttemptFunding
<1>4. /\ FrontTypes' /\ Alone(w)
      /\ step'[w] \in {"submitted", "failed"}
  <2>1. "submitted" \in Steps /\ "failed" \in Steps
    BY DEF Steps, Results
  <2>2. CASE Resulted(w, "submitted", 0, 0)
    BY <1>2, <2>1, <2>2, ResultedTypes DEF FanInv, FanTypes, Alone
  <2>3. CASE Goto(w, "failed") /\ result' = result
    BY <1>2, <2>1, <2>3, GotoTypes DEF FanInv, FanTypes, FrontTypes, Alone
  <2> QED BY <2>2, <2>3 DEF Send
<1>5. FanTypes'
  <2>1. SignedChild(f) \in Txs /\ Fanout(f) \in Txs
    BY <1>1, PackageFields DEF SignedChild, Child, Txs, FanInv, FanTypes, FundTypes
  <2> QED BY <1>2, <1>4, <2>1 DEF FanInv, FanTypes, RowTypes, FundTypes, NetTypes, rowVars, fundVars
<1>6. Holding'
  BY <1>1, <1>2, <1>4, HoldingKept
<1>7. \A g \in Fanouts : SignedChild(g)' = SignedChild(g)
  BY <1>2 DEF SignedChild, fundVars
<1>8. CoinsApart' /\ LocksRecorded' /\ SignedCoinProtected'
  BY <1>2, <1>7
       DEF FanInv, Funding, CoinsApart, LocksRecorded, SignedCoinProtected, Reserved, fundVars
<1>9. KnownSigned'
  BY <1>1, <1>2, <1>3, <1>7 DEF FanInv, Funding, KnownSigned, fundVars
<1>10. AttemptFunding'
  BY <1>2, <1>4 DEF FanInv, Funding, AttemptFunding, SignedChild, Alone, fundVars
<1>11. ChildrenSent'
  BY <1>1, <1>2 DEF FanInv, ChildrenSent, Sent
<1>12. Anchors'
  BY <1>2, AnchorsKept DEF rowVars
<1>13. NotDeep'
  BY <1>1, <1>2, <1>4, NotDeepKept DEF Alone, Undoing, rowVars
<1> QED BY <1>5, <1>6, <1>8, <1>9, <1>10, <1>11, <1>12, <1>13 DEF FanInv, Funding

----------------------------------------------------------------------------
(* The inductive step, one case per operation. *)

LEMMA FanStep ==
    ASSUME FanInv, [FanNext]_fanVars
    PROVE  FanInv'
<1>1. CASE UNCHANGED fanVars
  <2>1. /\ UNCHANGED <<step, job, view, result, token, dead, rowVars, fundVars, paying>>
        /\ UNCHANGED <<netVars, locked, known, loose>>
    BY <1>1 DEF fanVars, frontVars, claimVars, walletVars
  <2> QED BY <2>1, Surroundings
<1>2. ASSUME NEW w \in Frontends, Attempt(w)
      PROVE  FanInv'
  <2>1. CASE \E c \in Coins : UnlockRetired(w, c) \/ ReserveFunding(w, c)
    BY <2>1, UnlocksRetired, Reserves
  <2>2. CASE ClaimFanout(w) \/ ReadView(w)
    BY <2>2, Claims, Views
  <2>3. CASE RetainLock(w) \/ ChildConfirmed(w) \/ LockFunding(w) \/ ReplayPackage(w)
    BY <2>3, Retains
  <2>4. CASE ReleaseLock(w) \/ RetireFunding(w) \/ SavePackage(w) \/ Send(w)
    BY <2>4, Releases, Retires, Saves, Sends
  <2>5. CASE StillConfirmed(w) \/ HaltFanoutReorg(w) \/ Inspect(w) \/ ScanPage(w)
    BY <2>5, Inspections, Scans
  <2>6. CASE FinishFanout(w) \/ RequeueRefused(w) \/ FinishFailed(w)
    BY <2>6, Ends
  <2> QED BY <1>2, <2>1, <2>2, <2>3, <2>4, <2>5, <2>6 DEF Attempt
<1>3. ASSUME NEW w \in Frontends, AttemptFails(w) \/ HandBack(w) \/ Crash(w)
      PROVE  FanInv'
  BY <1>3, Inspections, Ends
<1>4. CASE Environment
  <2>1. CASE (\E f \in Fanouts : FallsDue(f)) \/ ToggleHold \/ (\E c \in Coins : CoinGone(c))
    <3>1. /\ UNCHANGED <<step, job, view, result, token, dead, rowVars, fundVars, paying>>
          /\ UNCHANGED <<netVars, locked, known, loose>>
      BY <2>1 DEF FallsDue, ToggleHold, CoinGone, Fault, frontVars, claimVars, walletVars
    <3> QED BY <3>1, Surroundings
  <2>2. CASE Evict
    <3>1. /\ UNCHANGED <<frontVars, token, dead, rowVars, fundVars, paying, locked, known, loose>>
          /\ UNCHANGED <<chain, branch, scanned>> /\ mempool' = {}
      BY <2>2 DEF Evict, Fault, rowVars, claimVars, walletVars
    <3>2. /\ chain' \in Seq(Blocks) /\ branch' \in Nat \ {0}
          /\ \A h \in DOMAIN chain' : \A tx \in chain'[h].txs : Sent(tx)
      BY <3>1 DEF FanInv, FanTypes, NetTypes, ChildrenSent
    <3>3. Anchors'
      BY <3>1, AnchorsKept
    <3> QED BY <3>1, <3>2, <3>3, ChainMoves
  <2>3. CASE MoveRevision
    BY <2>3, Views
  <2>4. CASE \E txs \in SUBSET mempool : Mine(txs)
    BY <2>4, Mines
  <2>5. CASE \E h \in DOMAIN chain : \E txs \in {{}, Undone(h)} : Reorg(h, txs)
    BY <2>5, Reorgs
  <2>6. CASE \E c \in Coins : UnlockByHand(c)
    BY <2>6, Unlocks
  <2> QED BY <1>4, <2>1, <2>2, <2>3, <2>4, <2>5, <2>6 DEF Environment
<1> QED BY <1>1, <1>2, <1>3, <1>4 DEF FanNext

(* What every reachable state satisfies. *)
LEMMA FanInductive == FanSpec => []FanInv
<1>1. FanInv /\ [FanNext]_fanVars => FanInv'
  BY FanStep
<1> QED BY <1>1, InitInv, PTL DEF FanSpec

----------------------------------------------------------------------------
(* Wallet locks stay backed by a durable record: whatever a frontend does   *)
(* between lockunspent and its ledger write, a locked coin is that of a     *)
(* package or of a retired reservation still to be discharged.              *)
THEOREM LocksAreRecorded == FanSpec => []LocksRecorded
<1>1. FanInv => LocksRecorded
  BY DEF FanInv, Funding
<1> QED BY <1>1, FanInductive, PTL

(* The coin of a signed child is locked, or unlocked by hand, or spent by a *)
(* child the wallet knows, over every takeover, replay and cleanup.         *)
THEOREM SignedCoinsAreProtected == FanSpec => []SignedCoinProtected
<1>1. FanInv => SignedCoinProtected
  BY DEF FanInv, Funding
<1> QED BY <1>1, FanInductive, PTL

(* A known child is the one on record for its fanout. *)
LEMMA KnownFields ==
    ASSUME FanInv, NEW s \in known
    PROVE  /\ s.of \in Fanouts /\ s = SignedChild(s.of)
           /\ s.coin = package[s.of].coin /\ s.coin # Nobody
<1>1. PICK f \in Fanouts : package[f].child # Nobody /\ s = SignedChild(f)
  BY DEF FanInv, Funding, KnownSigned
<1>2. s.of = f /\ s.coin = package[f].coin
  BY <1>1 DEF SignedChild, Child
<1>3. package[f].coin # Nobody
  BY SMTT(30), <1>1 DEF FanInv, Funding, CoinsApart, NoPackage
<1> QED BY <1>1, <1>2, <1>3

(* Of all the children nodes were ever given for a fanout there is one:     *)
(* what is on record is replayed, never signed anew.                        *)
THEOREM OneChildEver == FanSpec => []OneChild
<1>1. FanInv => OneChild
  BY KnownFields DEF OneChild
<1> QED BY <1>1, FanInductive, PTL

(* A coin of the sponsorship wallet pays for one fanout only, the retired   *)
(* and the re-reserved ones included.                                       *)
THEOREM CoinsPayOnce == FanSpec => []OneFanoutPerCoin
<1>1. FanInv => OneFanoutPerCoin
  <2> SUFFICES ASSUME FanInv, NEW s \in known, NEW t \in known, s.coin = t.coin PROVE s = t
    BY DEF OneFanoutPerCoin
  <2>1. s.of = t.of
    BY SMTT(30), KnownFields DEF FanInv, Funding, CoinsApart
  <2> QED BY <2>1, KnownFields
<1> QED BY <1>1, FanInductive, PTL

(* The spend scan never starts above the block that spends the covenant,    *)
(* over every reorganisation: an anchor off the chain restarts it.          *)
THEOREM ScanMissesNothing == FanSpec => []ScanNeverPasses
<1>1. FanInv => ScanNeverPasses
  BY BelowScan
<1> QED BY <1>1, FanInductive, PTL

(* No step takes a deep fanout's confirmation back: the completions that    *)
(* clear one belong to attempts whose claimed fanout was not deep.          *)
THEOREM DeepStaysConfirmed == FanSpec => DeepIsFinal
<1>1. ASSUME FanInv, [FanNext]_fanVars, NEW f \in Fanouts, DeepEnough(f)
      PROVE  status'[f] = "confirmed"
  <2>1. /\ status[f] = "confirmed"
        /\ status \in [Fanouts -> {"broadcastable", "broadcast_submitted", "confirmed", "failed"}]
    BY <1>1 DEF DeepEnough, FanInv, FanTypes, RowTypes
  <2>2. CASE status' = status
    BY <2>1, <2>2
  <2>3. ASSUME NEW w \in Frontends, FinishFanout(w) PROVE status'[f] = "confirmed"
    <3>1. /\ step[w] \in Results /\ Holds(w)
          /\ status' = [status EXCEPT ![job[w]] = StatusOf(step[w])]
      BY <2>3 DEF FinishFanout
    <3>2. CASE f # job[w]
      BY <2>1, <3>1, <3>2
    <3>3. CASE f = job[w]
      <4>1. step[w] = "confirmed"
        BY <1>1, <3>1, <3>3 DEF FanInv, NotDeep, Undoing, Results
      <4> QED BY <2>1, <3>1, <3>3, <4>1 DEF StatusOf
    <3> QED BY <3>2, <3>3
  <2>4. ASSUME NEW w \in Frontends, FinishFailed(w) PROVE status'[f] = "confirmed"
    BY <2>1, <2>4 DEF FinishFailed, Failed
  <2>5. CASE UNCHANGED fanVars
    BY <2>2, <2>5 DEF fanVars, rowVars
  <2>6. CASE Environment
    BY <2>2, <2>6 DEF Environment, FallsDue, MoveRevision, ToggleHold, Evict, Mine, Reorg, CoinGone,
         UnlockByHand, rowVars
  <2>7. ASSUME NEW w \in Frontends, AttemptFails(w) \/ HandBack(w) \/ Crash(w)
        PROVE  status'[f] = "confirmed"
    BY <2>2, <2>7 DEF AttemptFails, HandBack, Crash, rowVars
  <2>8. ASSUME NEW w \in Frontends, Attempt(w), ~FinishFanout(w), ~FinishFailed(w)
        PROVE  status' = status
    BY <2>8 DEF Attempt, ClaimFanout, Claimed, ReadView, RetainLock, ChildConfirmed, ReleaseLock,
         StillConfirmed, HaltFanoutReorg, Inspect, ScanPage, RetireFunding, LockFunding, SavePackage,
         ReplayPackage, Send, RequeueRefused, UnlockRetired, ReserveFunding, rowVars
  <2> QED BY <1>1, <2>2, <2>3, <2>4, <2>5, <2>6, <2>7, <2>8 DEF FanNext
<1>2. FanInv /\ [FanNext]_fanVars =>
        [\A f \in Fanouts : DeepEnough(f) => status'[f] = "confirmed"]_fanVars
  BY <1>1
<1> QED BY <1>2, FanInductive, PTL DEF FanSpec, DeepIsFinal
=============================================================================
