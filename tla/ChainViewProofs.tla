-------------------------- MODULE ChainViewProofs ---------------------------
(***************************************************************************)
(* The observers implement ChainAuthority and spend one move of their node *)
(* for each equal-work replacement, for any frontends, tips and bounds.    *)
(***************************************************************************)
EXTENDS ChainView, TLAPS

USE ZenonT(60)

HasRetry(i) == retryFrom[i].from # NoTip
HasFlight(i) == flight[i].from # NoTip

(* The node has left the tip the frontend knows. *)
Unseen(i) == localTip[i] # NoTip /\ localTip[i] # nodeTip[i]

(* The observation in flight replaces the local tip. *)
Recording(i) == pc[i] = "sent" /\ previous[i] # NoTip /\ previous[i] # proof[i]

(* A witness is in one place, and in flight only with a proof. *)
OneWitness ==
  \A i \in Observers : /\ pc[i] = "sent" => /\ proof[i] \in Tips /\ localTip[i] = proof[i]
                                             /\ ~HasRetry(i)
                       /\ HasFlight(i) => pc[i] = "sent"

(* What was read of the epoch is not ahead of it, and a witness that was   *)
(* overtaken is behind it.                                                 *)
EpochPast ==
  \A i \in Observers :
    /\ captured[i].epoch <= epoch
    /\ HasRetry(i) => retryFrom[i].epoch <= epoch
                      /\ (overtaken[i] => retryFrom[i].epoch < epoch)
    /\ HasFlight(i) => flight[i].epoch <= epoch
                       /\ (overtaken[i] => flight[i].epoch < epoch)

(* Every witness, and every change of the node that was not recorded yet,  *)
(* has a move of the node that no replacement has used.                    *)
MovesCover ==
  \A i \in Observers :
    /\ replaced[i] <= moved[i]
    /\ HasRetry(i) \/ HasFlight(i) \/ Unseen(i) \/ Recording(i) => replaced[i] < moved[i]
    /\ (HasRetry(i) \/ HasFlight(i)) /\ Unseen(i) => replaced[i] + 1 < moved[i]

ViewInv == ViewTypeOK /\ OneWitness /\ EpochPast /\ EpochNamesTip /\ MovesCover

-----------------------------------------------------------------------------
(* Constants of the empty values. *)
LEMMA Empty ==
    /\ NoWitness.from = NoTip /\ NoWitness \in Witnesses \cup {NoWitness}
    /\ NothingRead.tip = NoTip /\ NothingRead.epoch = 0
    /\ NothingRead \in [tip : Tips \cup {NoTip}, epoch : Nat, revision : Nat]
BY DEF NoWitness, NothingRead

(* The initial state satisfies the invariant. *)
LEMMA ViewInitially == ViewInit => ViewInv
<1> SUFFICES ASSUME ViewInit PROVE ViewInv
  OBVIOUS
<1>1. ViewTypeOK
  BY SMTT(30), Empty, ChainAssumption, ViewAssumption
       DEF ViewInit, ViewTypeOK, AuthorityInit, AuthorityTypeOK
<1>2. OneWitness /\ EpochPast /\ EpochNamesTip
  BY SMTT(30), Empty DEF ViewInit, OneWitness, EpochPast, EpochNamesTip, HasRetry, HasFlight
<1>3. MovesCover
  BY SMTT(30), Empty DEF ViewInit, MovesCover, HasRetry, HasFlight, Unseen, Recording
<1> QED BY <1>1, <1>2, <1>3 DEF ViewInv

(* The end of a refresh is well typed. *)
LEMMA RefreshOverType ==
    ASSUME ViewTypeOK, NEW i \in Observers, RefreshOver(i)
    PROVE  /\ pc' \in [Observers -> {"idle", "captured", "sent"}]
           /\ captured' \in [Observers -> [tip : Tips \cup {NoTip}, epoch : Nat, revision : Nat]]
           /\ proof' \in [Observers -> Tips \cup {NoTip}]
           /\ previous' \in [Observers -> Tips \cup {NoTip}]
           /\ flight' \in [Observers -> Witnesses \cup {NoWitness}]
<1>1. /\ captured' \in [Observers -> [tip : Tips \cup {NoTip}, epoch : Nat, revision : Nat]]
      /\ flight' \in [Observers -> Witnesses \cup {NoWitness}]
  BY Empty DEF RefreshOver, ViewTypeOK
<1>2. /\ pc' \in [Observers -> {"idle", "captured", "sent"}]
      /\ proof' \in [Observers -> Tips \cup {NoTip}]
      /\ previous' \in [Observers -> Tips \cup {NoTip}]
  BY DEF RefreshOver, ViewTypeOK
<1> QED BY <1>1, <1>2

(* A written tip keeps the cluster row well typed. *)
LEMMA WriteTipType ==
    ASSUME ViewTypeOK, NEW tip \in Tips, WriteTip(tip)
    PROVE  /\ AuthorityTypeOK' /\ epoch' \in Nat /\ bumps' \in 0..MaxBumps
           /\ overtaken' \in [Observers -> BOOLEAN]
BY SMTT(30) DEF WriteTip, AcceptTip, ViewTypeOK, AuthorityTypeOK

(* Every step keeps every variable's type. *)
LEMMA ViewTypeStep == ViewTypeOK /\ OneWitness /\ [ViewNext]_viewVars => ViewTypeOK'
<1> SUFFICES ASSUME ViewTypeOK, OneWitness, [ViewNext]_viewVars PROVE ViewTypeOK'
  OBVIOUS
<1> USE DEF clusterVars, authorityVars, nodeVars, refreshVars, witnessVars, historyVars
<1>1. ASSUME NEW i \in Observers, Capture(i) PROVE ViewTypeOK'
  <2>1. captured' \in [Observers -> [tip : Tips \cup {NoTip}, epoch : Nat, revision : Nat]]
    BY <1>1 DEF Capture, ViewTypeOK, AuthorityTypeOK
  <2> QED BY <1>1, <2>1 DEF Capture, ViewTypeOK, AuthorityTypeOK
<1>2. ASSUME NEW i \in Observers, Prove(i) PROVE ViewTypeOK'
  <2>1. WitnessOf(i, nodeTip[i]) \in Witnesses \cup {NoWitness}
    <3>1. localTip[i] \in Tips \cup {NoTip} /\ captured[i].epoch \in Nat
      BY DEF ViewTypeOK
    <3>2. retryFrom[i] \in Witnesses \cup {NoWitness}
      BY DEF ViewTypeOK
    <3> QED BY <3>1, <3>2 DEF WitnessOf, Witnesses
  <2>2. /\ flight' \in [Observers -> Witnesses \cup {NoWitness}]
        /\ retryFrom' \in [Observers -> Witnesses \cup {NoWitness}]
    BY <1>2, <2>1, Empty DEF Prove, ViewTypeOK
  <2>3. overtaken' \in [Observers -> BOOLEAN]
    BY <1>2 DEF Prove, ViewTypeOK
  <2>4. /\ pc' \in [Observers -> {"idle", "captured", "sent"}]
        /\ proof' \in [Observers -> Tips \cup {NoTip}]
        /\ previous' \in [Observers -> Tips \cup {NoTip}]
        /\ localTip' \in [Observers -> Tips \cup {NoTip}]
    BY <1>2 DEF Prove, ViewTypeOK
  <2> QED BY <1>2, <2>2, <2>3, <2>4 DEF Prove, ViewTypeOK, AuthorityTypeOK
<1>3. ASSUME NEW i \in Observers, Accepted(i) PROVE ViewTypeOK'
  <2>1. proof[i] \in Tips /\ RefreshOver(i)
    BY <1>3 DEF Accepted, OneWitness
  <2>2. /\ AuthorityTypeOK' /\ epoch' \in Nat /\ bumps' \in 0..MaxBumps
        /\ overtaken' \in [Observers -> BOOLEAN]
    BY <1>3, <2>1, WriteTipType DEF Accepted, ViewTypeOK, AuthorityTypeOK
  <2>3. replaced' \in [Observers -> Nat]
    BY SMTT(30), <1>3 DEF Accepted, ViewTypeOK
  <2> QED BY <1>3, <2>1, <2>2, <2>3, RefreshOverType DEF Accepted, ViewTypeOK
<1>4. ASSUME NEW i \in Observers, RefusedBehind(i) \/ Abort(i) PROVE ViewTypeOK'
  <2>1. /\ RefreshOver(i)
        /\ localTip' \in [Observers -> Tips \cup {NoTip}]
    BY <1>4 DEF RefusedBehind, Abort, ViewTypeOK
  <2> QED BY <1>4, <2>1, RefreshOverType DEF RefusedBehind, Abort, ViewTypeOK, AuthorityTypeOK
<1>5. ASSUME NEW i \in Observers, Refused(i) PROVE ViewTypeOK'
  <2>1. RefreshOver(i) /\ retryFrom' \in [Observers -> Witnesses \cup {NoWitness}]
    BY <1>5, Empty DEF Refused, ViewTypeOK
  <2> QED BY <1>5, <2>1, RefreshOverType DEF Refused, ViewTypeOK, AuthorityTypeOK
<1>6. ASSUME NEW i \in Observers, Restart(i) PROVE ViewTypeOK'
  <2>1. /\ RefreshOver(i) /\ retryFrom' \in [Observers -> Witnesses \cup {NoWitness}]
        /\ localTip' \in [Observers -> Tips \cup {NoTip}]
        /\ candidateTip' \in [Observers -> Tips \cup {NoTip}]
    BY <1>6, Empty DEF Restart, ViewTypeOK
  <2> QED BY <1>6, <2>1, RefreshOverType DEF Restart, ViewTypeOK, AuthorityTypeOK
<1>7. ASSUME NEW i \in Observers, CandidateReads(i) \/ CandidateObserves(i) PROVE ViewTypeOK'
  <2>1. candidateTip' \in [Observers -> Tips \cup {NoTip}]
    BY <1>7 DEF CandidateReads, CandidateObserves, ViewTypeOK
  <2>2. candidateTip[i] # NoTip => candidateTip[i] \in Tips
    BY DEF ViewTypeOK
  <2>3. /\ AuthorityTypeOK' /\ epoch' \in Nat /\ bumps' \in 0..MaxBumps
        /\ overtaken' \in [Observers -> BOOLEAN]
    BY <1>7, <2>2, WriteTipType DEF CandidateReads, CandidateObserves, ViewTypeOK, AuthorityTypeOK
  <2> QED BY <1>7, <2>1, <2>3 DEF CandidateReads, CandidateObserves, ViewTypeOK
<1>8. CASE Settle
  BY SMTT(30), <1>8, ViewAssumption DEF Settle, ViewTypeOK, AuthorityTypeOK
<1>9. ASSUME NEW i \in Observers, NodeMoves(i) PROVE ViewTypeOK'
  <2>1. nodeTip' \in [Observers -> Tips] /\ moved' \in [Observers -> 0..MaxMoves]
    BY SMTT(30), <1>9, ViewAssumption DEF NodeMoves, ViewTypeOK
  <2> QED BY <1>9, <2>1 DEF NodeMoves, ViewTypeOK, AuthorityTypeOK
<1>10. CASE UNCHANGED viewVars
  BY <1>10 DEF viewVars, ViewTypeOK, AuthorityTypeOK
<1> QED BY <1>1, <1>2, <1>3, <1>4, <1>5, <1>6, <1>7, <1>8, <1>9, <1>10 DEF ViewNext, Write

(* Numbers of the state. *)
LEMMA ViewNumbers ==
    ASSUME ViewTypeOK
    PROVE  /\ epoch \in Nat /\ revision \in Nat
           /\ \A j \in Observers : /\ captured[j].epoch \in Nat
                                   /\ replaced[j] \in Nat /\ moved[j] \in Nat
                                   /\ HasRetry(j) => retryFrom[j].epoch \in Nat
                                   /\ HasFlight(j) => flight[j].epoch \in Nat
<1>1. epoch \in Nat /\ revision \in Nat
  BY DEF ViewTypeOK, AuthorityTypeOK
<1>2. ASSUME NEW j \in Observers
      PROVE  captured[j].epoch \in Nat /\ replaced[j] \in Nat /\ moved[j] \in Nat
  BY SMTT(30), ViewAssumption DEF ViewTypeOK
<1>3. ASSUME NEW j \in Observers PROVE HasRetry(j) => retryFrom[j].epoch \in Nat
  BY Empty DEF ViewTypeOK, HasRetry, Witnesses
<1>4. ASSUME NEW j \in Observers PROVE HasFlight(j) => flight[j].epoch \in Nat
  BY Empty DEF ViewTypeOK, HasFlight, Witnesses
<1> QED BY <1>1, <1>2, <1>3, <1>4

(* An accepted tip leaves everything that was read of the epoch behind. *)
LEMMA WriteTipPast ==
    ASSUME ViewInv, ViewTypeOK', NEW tip, WriteTip(tip),
           \A j \in Observers :
             /\ captured'[j] \in {captured[j], NothingRead}
             /\ HasRetry(j)' => HasRetry(j) /\ retryFrom'[j] = retryFrom[j]
             /\ HasFlight(j)' => HasFlight(j) /\ flight'[j] = flight[j]
    PROVE  EpochPast' /\ EpochNamesTip'
<1>1. epoch' = epoch + 1 /\ epoch \in Nat
  BY ViewNumbers DEF WriteTip, ViewInv
<1>2. \A j \in Observers : /\ captured[j].epoch \in Nat /\ captured[j].epoch <= epoch
                           /\ HasRetry(j) => /\ retryFrom[j].epoch \in Nat
                                             /\ retryFrom[j].epoch <= epoch
                           /\ HasFlight(j) => /\ flight[j].epoch \in Nat
                                              /\ flight[j].epoch <= epoch
  BY ViewNumbers DEF ViewInv, EpochPast
<1>3. EpochPast'
  BY SMTT(30), <1>1, <1>2, Empty DEF EpochPast
<1>4. EpochNamesTip'
  BY SMTT(30), <1>1, <1>2, Empty DEF EpochNamesTip, HasRetry
<1> QED BY <1>3, <1>4

(* Without an accepted tip and a new witness the epochs stay in order. *)
LEMMA NoWritePast ==
    ASSUME ViewInv, epoch' = epoch, acceptedTip' = acceptedTip, overtaken' = overtaken,
           \A j \in Observers :
             /\ captured'[j] \in {captured[j], NothingRead}
             /\ HasRetry(j)' => HasRetry(j) /\ retryFrom'[j] = retryFrom[j]
             /\ HasFlight(j)' => HasFlight(j) /\ flight'[j] = flight[j]
    PROVE  EpochPast' /\ EpochNamesTip'
<1>1. epoch \in Nat
  BY ViewNumbers DEF ViewInv
<1>2. EpochPast'
  BY SMTT(30), <1>1, Empty DEF ViewInv, EpochPast
<1>3. EpochNamesTip'
  BY Empty DEF ViewInv, EpochNamesTip, HasRetry
<1> QED BY <1>2, <1>3

(* What the end of a refresh leaves. *)
LEMMA RefreshOverLeaves ==
    ASSUME ViewTypeOK, NEW i \in Observers, RefreshOver(i)
    PROVE  /\ pc'[i] = "idle" /\ captured'[i] = NothingRead /\ flight'[i] = NoWitness
           /\ \A j \in Observers \ {i} : /\ pc'[j] = pc[j] /\ captured'[j] = captured[j]
                                         /\ proof'[j] = proof[j] /\ previous'[j] = previous[j]
                                         /\ flight'[j] = flight[j]
BY DEF RefreshOver, ViewTypeOK

(* The invariant is kept by a refresh that ends, in any way. *)
LEMMA OverStep ==
    ASSUME ViewInv, ViewTypeOK', NEW i \in Observers,
           Accepted(i) \/ RefusedBehind(i) \/ Refused(i) \/ Abort(i) \/ Restart(i)
    PROVE  ViewInv'
<1> USE DEF clusterVars, authorityVars, nodeVars, historyVars
<1>1. RefreshOver(i) /\ nodeTip' = nodeTip /\ moved' = moved
  BY DEF Accepted, RefusedBehind, Refused, Abort, Restart
<1>2. /\ pc'[i] = "idle" /\ captured'[i] = NothingRead /\ flight'[i] = NoWitness
      /\ \A j \in Observers \ {i} : /\ pc'[j] = pc[j] /\ captured'[j] = captured[j]
                                    /\ proof'[j] = proof[j] /\ previous'[j] = previous[j]
                                    /\ flight'[j] = flight[j]
  BY <1>1, RefreshOverLeaves DEF ViewInv
<1>3. \A j \in Observers \ {i} : localTip'[j] = localTip[j] /\ retryFrom'[j] = retryFrom[j]
  BY SMTT(30) DEF Accepted, RefusedBehind, Refused, Abort, Restart, ViewInv, ViewTypeOK
<1>4. /\ \A j \in Observers \ {i} : replaced'[j] = replaced[j]
      /\ replaced'[i] = replaced[i] \/ (replaced'[i] = replaced[i] + 1 /\ Accepted(i) /\ HasFlight(i))
  BY
       DEF Accepted, RefusedBehind, Refused, Abort, Restart, ViewInv, ViewTypeOK, MayReplace, HasFlight
<1>5. /\ \/ localTip'[i] \in {localTip[i], NoTip}
         \/ localTip'[i] = previous[i] /\ pc[i] = "sent" /\ retryFrom' = retryFrom
      /\ Accepted(i) => localTip' = localTip
  BY DEF Accepted, RefusedBehind, Refused, Abort, Restart, ViewInv, ViewTypeOK
<1>6. HasRetry(i)' => \/ HasRetry(i) /\ retryFrom'[i] = retryFrom[i]
                      \/ /\ HasFlight(i) /\ retryFrom'[i] = flight[i] /\ Refused(i)
                         /\ epoch = flight[i].epoch /\ acceptedTip = flight[i].from
  BY Empty DEF Accepted, RefusedBehind, Refused, Abort, Restart, ViewInv, ViewTypeOK, MayRetry,
               SameChainEpoch, HasRetry, HasFlight
<1>7. ~HasFlight(i)'
  BY <1>2, Empty DEF HasFlight
<1>8. OneWitness'
  BY SMTT(30), <1>2, <1>3, <1>7 DEF ViewInv, OneWitness, HasRetry, HasFlight
<1>9. MovesCover'
  <2> SUFFICES ASSUME NEW j \in Observers
      PROVE /\ replaced'[j] <= moved'[j]
            /\ HasRetry(j)' \/ HasFlight(j)' \/ Unseen(j)' \/ Recording(j)' => replaced'[j] < moved'[j]
            /\ (HasRetry(j)' \/ HasFlight(j)') /\ Unseen(j)' => replaced'[j] + 1 < moved'[j]
    BY DEF MovesCover
  <2>1. /\ replaced[j] \in Nat /\ moved[j] \in Nat
        /\ replaced[j] <= moved[j]
        /\ HasRetry(j) \/ HasFlight(j) \/ Unseen(j) \/ Recording(j) => replaced[j] < moved[j]
        /\ (HasRetry(j) \/ HasFlight(j)) /\ Unseen(j) => replaced[j] + 1 < moved[j]
    BY ViewNumbers DEF ViewInv, MovesCover
  <2>2. CASE j # i
    BY <1>1, <1>2, <1>3, <1>4, <2>1, <2>2 DEF HasRetry, HasFlight, Unseen, Recording
  <2>3. CASE j = i /\ replaced'[i] = replaced[i] + 1
    <3>1. /\ HasFlight(i) /\ localTip' = localTip /\ nodeTip' = nodeTip /\ pc'[i] = "idle"
          /\ ~HasRetry(i)'
      BY SMTT(30), <1>1, <1>2, <1>4, <1>5, <1>6, <2>1, <2>3
           DEF ViewInv, OneWitness, Accepted, HasRetry
    <3>2. Unseen(i)' = Unseen(i) /\ ~Recording(i)'
      BY <3>1 DEF Unseen, Recording
    <3> QED BY SMTT(30), <1>1, <1>7, <2>1, <2>3, <3>1, <3>2
  <2>4. CASE j = i /\ replaced'[i] = replaced[i]
    <3>1. ~Recording(i)'
      BY <1>2 DEF Recording
    <3>2. HasRetry(i)' => HasRetry(i) \/ HasFlight(i)
      BY <1>6
    <3>3. Unseen(i)' => Unseen(i) \/ Recording(i)
      BY <1>1, <1>5 DEF Unseen, Recording, ViewInv, OneWitness
    <3>4. HasRetry(i)' /\ Unseen(i)' => Unseen(i)
      BY <1>1, <1>5 DEF Unseen, HasRetry, ViewInv, OneWitness
    <3> QED BY <1>1, <1>7, <2>1, <2>4, <3>1, <3>2, <3>3, <3>4
  <2> QED BY <1>4, <2>2, <2>3, <2>4
<1>10. EpochPast' /\ EpochNamesTip'
  <2>1. \A j \in Observers : /\ captured'[j] \in {captured[j], NothingRead}
                             /\ HasFlight(j)' => HasFlight(j) /\ flight'[j] = flight[j]
    BY <1>2, <1>7 DEF HasFlight
  <2>2. \A j \in Observers \ {i} : HasRetry(j)' => HasRetry(j) /\ retryFrom'[j] = retryFrom[j]
    BY <1>3 DEF HasRetry
  <2>3. CASE HasRetry(i)' => HasRetry(i) /\ retryFrom'[i] = retryFrom[i]
    <3>1. \A j \in Observers : HasRetry(j)' => HasRetry(j) /\ retryFrom'[j] = retryFrom[j]
      BY <2>2, <2>3
    <3>2. CASE Accepted(i) /\ ~UNCHANGED clusterVars
      <4>1. PICK tip : WriteTip(tip)
        BY <3>2 DEF Accepted
      <4> QED BY <2>1, <3>1, <4>1, WriteTipPast
    <3>3. CASE ~(Accepted(i) /\ ~UNCHANGED clusterVars)
      <4>1. epoch' = epoch /\ acceptedTip' = acceptedTip /\ overtaken' = overtaken
        BY <3>3 DEF Accepted, RefusedBehind, Refused, Abort, Restart, WriteTip, AcceptTip
      <4> QED BY <2>1, <3>1, <4>1, NoWritePast
    <3> QED BY <3>2, <3>3
  <2>4. CASE /\ HasFlight(i) /\ retryFrom'[i] = flight[i] /\ Refused(i)
             /\ epoch = flight[i].epoch /\ acceptedTip = flight[i].from
    <3>1. epoch' = epoch /\ acceptedTip' = acceptedTip /\ overtaken' = overtaken
      BY <2>4 DEF Refused
    <3>2. epoch \in Nat
      BY ViewNumbers DEF ViewInv
    <3>3. EpochPast'
      BY SMTT(30), <2>1, <2>2, <2>4, <3>1, <3>2, <1>3, Empty
           DEF ViewInv, EpochPast, HasRetry, HasFlight
    <3>4. EpochNamesTip'
      BY SMTT(30), <2>1, <2>4, <3>1, <1>3, Empty DEF ViewInv, EpochNamesTip
    <3> QED BY <3>3, <3>4
  <2> QED BY <1>6, <2>3, <2>4
<1> QED BY <1>8, <1>9, <1>10 DEF ViewInv

(* A capture keeps the invariant: what it reads is current. *)
LEMMA CaptureStep == ASSUME ViewInv, ViewTypeOK', NEW i \in Observers, Capture(i) PROVE ViewInv'
<1> USE DEF clusterVars, authorityVars, nodeVars, witnessVars, historyVars
<1>1. /\ epoch' = epoch /\ acceptedTip' = acceptedTip /\ overtaken' = overtaken
      /\ retryFrom' = retryFrom /\ flight' = flight /\ localTip' = localTip
      /\ nodeTip' = nodeTip /\ moved' = moved /\ replaced' = replaced
      /\ proof' = proof /\ previous' = previous
  BY DEF Capture
<1>2. /\ pc[i] = "idle" /\ pc'[i] = "captured"
      /\ captured'[i].tip = acceptedTip /\ captured'[i].epoch = epoch
      /\ \A j \in Observers \ {i} : pc'[j] = pc[j] /\ captured'[j] = captured[j]
  BY SMTT(30) DEF Capture, ViewInv, ViewTypeOK
<1>3. epoch \in Nat
  BY ViewNumbers DEF ViewInv
<1>4. OneWitness'
  BY <1>1, <1>2 DEF ViewInv, OneWitness, HasRetry, HasFlight
<1>5. EpochPast'
  BY SMTT(30), <1>1, <1>2, <1>3 DEF ViewInv, EpochPast, HasRetry, HasFlight
<1>6. EpochNamesTip'
  BY <1>1, <1>2 DEF ViewInv, EpochNamesTip
<1>7. MovesCover'
  BY <1>1, <1>2 DEF ViewInv, MovesCover, HasRetry, HasFlight, Unseen, Recording
<1> QED BY <1>4, <1>5, <1>6, <1>7 DEF ViewInv

(* A proof keeps the invariant: it spends the node's unseen move on the    *)
(* witness it makes.                                                       *)
LEMMA ProveStep == ASSUME ViewInv, ViewTypeOK', NEW i \in Observers, Prove(i) PROVE ViewInv'
<1> USE DEF clusterVars, authorityVars, nodeVars
<1>1. /\ epoch' = epoch /\ acceptedTip' = acceptedTip /\ captured' = captured
      /\ nodeTip' = nodeTip /\ moved' = moved /\ replaced' = replaced
  BY DEF Prove
<1>2. /\ pc'[i] = "sent" /\ proof'[i] = nodeTip[i] /\ previous'[i] = localTip[i]
      /\ localTip'[i] = nodeTip[i] /\ flight'[i] = WitnessOf(i, nodeTip[i])
      /\ retryFrom'[i] = NoWitness
      /\ overtaken'[i] = IF localTip[i] = nodeTip[i] THEN overtaken[i]
                         ELSE epoch # captured[i].epoch
  BY SMTT(30) DEF Prove, ViewInv, ViewTypeOK
<1>3. \A j \in Observers \ {i} :
        /\ pc'[j] = pc[j] /\ proof'[j] = proof[j] /\ previous'[j] = previous[j]
        /\ localTip'[j] = localTip[j] /\ flight'[j] = flight[j] /\ retryFrom'[j] = retryFrom[j]
        /\ overtaken'[j] = overtaken[j]
  BY SMTT(30) DEF Prove, ViewInv, ViewTypeOK
<1>4. nodeTip[i] \in Tips /\ epoch \in Nat /\ captured[i].epoch \in Nat /\ ~HasFlight(i)
  BY ViewNumbers DEF Prove, ViewInv, ViewTypeOK, OneWitness
<1>5. /\ ~HasRetry(i)'
      /\ HasFlight(i)' => \/ localTip[i] = nodeTip[i] /\ HasRetry(i) /\ flight'[i] = retryFrom[i]
                          \/ /\ localTip[i] # nodeTip[i] /\ localTip[i] # NoTip
                             /\ flight'[i].epoch = captured[i].epoch
  <2>1. ~HasRetry(i)'
    BY <1>2, Empty DEF HasRetry
  <2>2. CASE localTip[i] = nodeTip[i]
    <3>1. flight'[i] = retryFrom[i]
      BY <1>2, <2>2 DEF WitnessOf
    <3> QED BY <2>1, <2>2, <3>1 DEF HasRetry, HasFlight
  <2>3. CASE localTip[i] # nodeTip[i]
    <3>1. flight'[i] \in {[from |-> localTip[i], epoch |-> captured[i].epoch], NoWitness}
      BY <1>2, <2>3 DEF WitnessOf
    <3>2. \/ flight'[i].from = localTip[i] /\ flight'[i].epoch = captured[i].epoch
          \/ flight'[i].from = NoTip
      BY SMTT(30), <3>1, Empty
    <3> QED BY <2>1, <2>3, <3>2 DEF HasFlight
  <2> QED BY <2>2, <2>3
<1>6. OneWitness'
  BY SMTT(30), <1>2, <1>3, <1>4, <1>5 DEF ViewInv, OneWitness, HasRetry, HasFlight
<1>7. EpochPast'
  <2>1. ASSUME NEW j \in Observers, j # i
        PROVE  /\ captured'[j].epoch <= epoch'
               /\ HasRetry(j)' => retryFrom'[j].epoch <= epoch'
                                  /\ (overtaken'[j] => retryFrom'[j].epoch < epoch')
               /\ HasFlight(j)' => flight'[j].epoch <= epoch'
                                   /\ (overtaken'[j] => flight'[j].epoch < epoch')
    BY <1>1, <1>3, <2>1 DEF ViewInv, EpochPast, HasRetry, HasFlight
  <2>2. captured'[i].epoch <= epoch'
    BY <1>1 DEF ViewInv, EpochPast
  <2>3. HasFlight(i)' => flight'[i].epoch <= epoch'
                         /\ (overtaken'[i] => flight'[i].epoch < epoch')
    <3>1. CASE localTip[i] = nodeTip[i]
      <4>1. overtaken'[i] = overtaken[i]
        BY <1>2, <3>1
      <4>2. HasFlight(i)' => HasRetry(i) /\ flight'[i] = retryFrom[i]
        BY <1>5, <3>1
      <4> QED BY <1>1, <4>1, <4>2 DEF ViewInv, EpochPast
    <3>2. CASE localTip[i] # nodeTip[i]
      <4>1. overtaken'[i] = (epoch # captured[i].epoch)
        BY <1>2, <3>2
      <4>2. HasFlight(i)' => flight'[i].epoch = captured[i].epoch
        BY <1>5, <3>2
      <4>3. captured[i].epoch <= epoch
        BY DEF ViewInv, EpochPast
      <4>4. overtaken'[i] => epoch # captured[i].epoch
        BY <4>1
      <4> QED BY SMTT(30), <1>1, <1>4, <4>2, <4>3, <4>4
    <3> QED BY <3>1, <3>2
  <2> QED BY <1>5, <2>1, <2>2, <2>3 DEF EpochPast
<1>8. EpochNamesTip'
  BY SMTT(30), <1>1, <1>2, <1>3, Empty DEF ViewInv, EpochNamesTip
<1>9. MovesCover'
  <2>1. /\ replaced[i] \in Nat /\ moved[i] \in Nat
        /\ replaced[i] <= moved[i]
        /\ HasRetry(i) \/ Unseen(i) => replaced[i] < moved[i]
    BY ViewNumbers DEF ViewInv, MovesCover
  <2>2. ~Unseen(i)' /\ (Recording(i)' => Unseen(i)) /\ (HasFlight(i)' => HasRetry(i) \/ Unseen(i))
    BY <1>1, <1>2, <1>4, <1>5 DEF Unseen, Recording
  <2>3. ASSUME NEW j \in Observers, j # i
        PROVE  /\ HasRetry(j)' = HasRetry(j) /\ HasFlight(j)' = HasFlight(j)
               /\ Unseen(j)' = Unseen(j) /\ Recording(j)' = Recording(j)
    BY <1>1, <1>3, <2>3 DEF HasRetry, HasFlight, Unseen, Recording
  <2> QED BY <1>1, <1>5, <2>1, <2>2, <2>3 DEF ViewInv, MovesCover
<1> QED BY <1>6, <1>7, <1>8, <1>9 DEF ViewInv

(* The other steps keep the invariant. *)
LEMMA SurroundingStep ==
    ASSUME ViewInv, ViewTypeOK', NEW i \in Observers,
           CandidateReads(i) \/ CandidateObserves(i) \/ NodeMoves(i) \/ Settle
    PROVE  ViewInv'
<1> USE DEF clusterVars, authorityVars, nodeVars, refreshVars, witnessVars, historyVars
<1>1. /\ pc' = pc /\ captured' = captured /\ proof' = proof /\ previous' = previous
      /\ localTip' = localTip /\ retryFrom' = retryFrom /\ flight' = flight
      /\ replaced' = replaced
  BY DEF CandidateReads, CandidateObserves, NodeMoves, Settle
<1>2. OneWitness'
  BY <1>1 DEF ViewInv, OneWitness, HasRetry, HasFlight
<1>3. \A j \in Observers :
        /\ captured'[j] \in {captured[j], NothingRead}
        /\ HasRetry(j)' => HasRetry(j) /\ retryFrom'[j] = retryFrom[j]
        /\ HasFlight(j)' => HasFlight(j) /\ flight'[j] = flight[j]
  BY <1>1 DEF HasRetry, HasFlight
<1>4. EpochPast' /\ EpochNamesTip'
  <2>1. CASE \E tip : WriteTip(tip)
    BY <1>3, <2>1, WriteTipPast
  <2>2. CASE ~\E tip : WriteTip(tip)
    <3>1. epoch' = epoch /\ acceptedTip' = acceptedTip /\ overtaken' = overtaken
      BY <2>2 DEF CandidateReads, CandidateObserves, NodeMoves, Settle
    <3> QED BY <1>3, <3>1, NoWritePast
  <2> QED BY <2>1, <2>2
<1>5. MovesCover'
  <2>1. CASE NodeMoves(i)
    <3>1. /\ moved'[i] = moved[i] + 1
          /\ \A j \in Observers \ {i} : moved'[j] = moved[j] /\ nodeTip'[j] = nodeTip[j]
      BY <2>1 DEF NodeMoves, ViewInv, ViewTypeOK
    <3>2. /\ replaced[i] \in Nat /\ moved[i] \in Nat /\ replaced[i] <= moved[i]
          /\ HasRetry(i) \/ HasFlight(i) => replaced[i] < moved[i]
      BY ViewNumbers DEF ViewInv, MovesCover
    <3>3. \A j \in Observers : HasRetry(j)' = HasRetry(j) /\ HasFlight(j)' = HasFlight(j)
      BY <1>1 DEF HasRetry, HasFlight
    <3>4. \A j \in Observers \ {i} : Unseen(j)' = Unseen(j) /\ Recording(j)' = Recording(j)
      BY <1>1, <3>1 DEF Unseen, Recording
    <3>5. ASSUME NEW j \in Observers
          PROVE /\ replaced'[j] <= moved'[j]
                /\ HasRetry(j)' \/ HasFlight(j)' \/ Unseen(j)' \/ Recording(j)'
                     => replaced'[j] < moved'[j]
                /\ (HasRetry(j)' \/ HasFlight(j)') /\ Unseen(j)' => replaced'[j] + 1 < moved'[j]
      <4>1. CASE j = i
        BY SMTT(30), <1>1, <3>1, <3>2, <3>3, <4>1
      <4>2. CASE j # i
        BY <1>1, <3>1, <3>3, <3>4, <4>2 DEF ViewInv, MovesCover
      <4> QED BY <4>1, <4>2
    <3> QED BY <3>5 DEF MovesCover
  <2>2. CASE ~NodeMoves(i)
    <3>1. nodeTip' = nodeTip /\ moved' = moved
      BY <2>2 DEF CandidateReads, CandidateObserves, Settle
    <3> QED BY <1>1, <3>1 DEF ViewInv, MovesCover, HasRetry, HasFlight, Unseen, Recording
  <2> QED BY <2>1, <2>2
<1> QED BY <1>2, <1>4, <1>5 DEF ViewInv

(* The invariant is inductive. *)
LEMMA ViewStep == ViewInv /\ [ViewNext]_viewVars => ViewInv'
<1> SUFFICES ASSUME ViewInv, [ViewNext]_viewVars PROVE ViewInv'
  OBVIOUS
<1>1. ViewTypeOK'
  BY ViewTypeStep DEF ViewInv
<1>2. ASSUME NEW i \in Observers, Capture(i) \/ Prove(i) PROVE ViewInv'
  BY <1>1, <1>2, CaptureStep, ProveStep
<1>3. ASSUME NEW i \in Observers,
             Accepted(i) \/ RefusedBehind(i) \/ Refused(i) \/ Abort(i) \/ Restart(i)
      PROVE  ViewInv'
  BY <1>1, <1>3, OverStep
<1>4. ASSUME NEW i \in Observers, CandidateReads(i) \/ CandidateObserves(i) \/ NodeMoves(i)
      PROVE  ViewInv'
  BY <1>1, <1>4, SurroundingStep
<1>5. CASE Settle \/ UNCHANGED viewVars
  <2>1. /\ pc' = pc /\ captured' = captured /\ proof' = proof /\ previous' = previous
        /\ localTip' = localTip /\ retryFrom' = retryFrom /\ flight' = flight
        /\ replaced' = replaced /\ epoch' = epoch /\ acceptedTip' = acceptedTip
        /\ overtaken' = overtaken /\ nodeTip' = nodeTip /\ moved' = moved
    BY <1>5 DEF Settle, viewVars, clusterVars, authorityVars, nodeVars, refreshVars, witnessVars,
                historyVars
  <2>2. OneWitness' /\ EpochPast'
    BY <2>1 DEF ViewInv, OneWitness, EpochPast, HasRetry, HasFlight
  <2>3. EpochNamesTip' /\ MovesCover'
    BY <2>1 DEF ViewInv, EpochNamesTip, MovesCover, HasRetry, HasFlight, Unseen, Recording
  <2> QED BY <1>1, <2>2, <2>3 DEF ViewInv
<1> QED BY <1>2, <1>3, <1>4, <1>5 DEF ViewNext, Write

(* ViewInv is an invariant of the observers. *)
THEOREM ViewInvariant == ViewSpec => []ViewInv
BY ViewInitially, ViewStep, PTL DEF ViewSpec

(* The cluster row, the observations and the witnesses are of their types. *)
THEOREM ViewTypeOKHolds == ViewSpec => []ViewTypeOK
<1>1. ViewInv => ViewTypeOK
  BY DEF ViewInv
<1> QED BY <1>1, ViewInvariant, PTL

(* A frontend replaces the accepted tip by an equal-work one at most once  *)
(* for each change of its node's tip (ChainObservation::observe).          *)
THEOREM NoFlipFlopHolds == ViewSpec => []NoFlipFlop
<1>1. ViewInv => NoFlipFlop
  BY DEF ViewInv, MovesCover, NoFlipFlop
<1> QED BY <1>1, ViewInvariant, PTL

(* The epoch identifies the accepted tip (observe_chain_view_checked).     *)
THEOREM EpochNamesTipHolds == ViewSpec => []EpochNamesTip
<1>1. ViewInv => EpochNamesTip
  BY DEF ViewInv
<1> QED BY <1>1, ViewInvariant, PTL

(* An equal-work replacement never reverses what another frontend wrote    *)
(* after the witness was made (observe_chain_transition).                  *)
THEOREM NoReversalHolds == ViewSpec => NoReversal
<1> DEFINE A == \A i \in Observers : replaced'[i] # replaced[i] => ~overtaken[i]
<1>1. ViewInv /\ [ViewNext]_viewVars => [A]_viewVars
  <2> SUFFICES ASSUME ViewInv, ViewNext, NEW i \in Observers, replaced'[i] # replaced[i]
               PROVE  ~overtaken[i]
    OBVIOUS
  <2>1. PICK j \in Observers : Accepted(j)
    BY DEF ViewNext, Write, Settle, Capture, Prove, Abort, Restart, CandidateReads,
           CandidateObserves, NodeMoves, RefusedBehind, Refused, historyVars
  <2>2. /\ j = i /\ MayReplace(proof[i], flight[i], captured[i])
    BY <2>1 DEF Accepted, historyVars, ViewInv, ViewTypeOK
  <2>3. HasFlight(i) /\ flight[i].epoch = epoch
    BY <2>2 DEF MayReplace, SameChainEpoch, HasFlight
  <2>4. epoch \in Nat
    BY ViewNumbers DEF ViewInv
  <2> QED BY SMTT(30), <2>3, <2>4 DEF ViewInv, EpochPast
<1>2. [][A]_viewVars => NoReversal
  BY DEF NoReversal
<1> QED BY <1>1, <1>2, ViewInvariant, PTL DEF ViewSpec

(* The observers implement the authority: the accepted tip never loses     *)
(* work and moves only with the revision (observe_chain_view_checked).     *)
THEOREM ViewImplementsAuthority == ViewSpec => AuthoritySpec
<1>1. ViewInit => AuthorityInit
  BY DEF ViewInit
<1>2. ViewInv /\ [ViewNext]_viewVars => [AuthorityNext]_authorityVars
  <2> SUFFICES ASSUME ViewInv, [ViewNext]_viewVars PROVE [AuthorityNext]_authorityVars
    OBVIOUS
  <2>1. ASSUME NEW tip \in Tips, WriteTip(tip) PROVE AuthorityNext
    BY <2>1 DEF WriteTip, AuthorityNext
  <2>2. ASSUME NEW i \in Observers, Accepted(i) PROVE [AuthorityNext]_authorityVars
    <3>1. proof[i] \in Tips
      BY <2>2 DEF Accepted, ViewInv, OneWitness
    <3> QED BY <2>1, <2>2, <3>1 DEF Accepted, clusterVars
  <2>3. ASSUME NEW i \in Observers, CandidateObserves(i) PROVE [AuthorityNext]_authorityVars
    <3>1. candidateTip[i] \in Tips
      BY <2>3 DEF CandidateObserves, ViewInv, ViewTypeOK
    <3> QED BY <2>1, <2>3, <3>1 DEF CandidateObserves, clusterVars
  <2>4. CASE Settle
    <3>1. revision \in Nat
      BY ViewNumbers DEF ViewInv
    <3> QED BY SMTT(30), <2>4, <3>1 DEF Settle, AuthorityNext, BumpRevision
  <2>5. ASSUME NEW i \in Observers,
               \/ Capture(i) \/ Prove(i) \/ RefusedBehind(i) \/ Refused(i) \/ Abort(i)
               \/ Restart(i) \/ CandidateReads(i) \/ NodeMoves(i)
        PROVE  UNCHANGED authorityVars
    BY <2>5 DEF Capture, Prove, RefusedBehind, Refused, Abort, Restart, CandidateReads,
                NodeMoves, clusterVars
  <2>6. CASE UNCHANGED viewVars
    BY <2>6 DEF viewVars, clusterVars
  <2> QED BY <2>2, <2>3, <2>4, <2>5, <2>6 DEF ViewNext, Write
<1> QED BY <1>1, <1>2, ViewInvariant, PTL DEF ViewSpec, AuthoritySpec
=============================================================================
