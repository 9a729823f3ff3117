------------------------------ MODULE ChainView ------------------------------
(***************************************************************************)
(* How the frontends move the accepted tip.  Every frontend's refresh loop *)
(* reads the cluster row, then proves the tip of its own node, then writes *)
(* the observation.  More work always wins.  A tip with the same work only *)
(* replaces the accepted one when the frontend has watched its own node    *)
(* leave the accepted tip for it (the witness, ChainTransition): a node    *)
(* that merely prefers another tip must not make the cluster flip at every *)
(* poll.  A witness is consumed before the write and comes back only when  *)
(* the ledger refused it definitely and for an accounting change alone.    *)
(*                                                                         *)
(* The submit loop observes as well, always on the strict path.            *)
(***************************************************************************)
EXTENDS ChainAuthority

CONSTANTS
  Observers,   \* frontends
  Height,      \* of each tip
  NoTip,
  MaxMoves,    \* bound: tip changes of one node
  MaxBumps     \* bound: settlements

ASSUME ViewAssumption ==
  /\ Height \in [Tips -> Nat]
  /\ NoTip \notin Tips
  /\ MaxMoves \in Nat
  /\ MaxBumps \in Nat

VARIABLES
  epoch,       \* qbit_prism_cluster.chain_epoch
  bumps,
  nodeTip,     \* the active tip of each frontend's node
  moved,       \* history: tip changes of each node
  pc,          \* where the refresh is suspended
  captured,    \* the cluster row it read before its node I/O
  proof,       \* the tip it proved
  previous,    \* the local tip before this observation
  localTip,    \* ChainObservation.tip
  retryFrom,   \* ChainObservation.retry_from
  flight,      \* the witness of the write in flight
  candidateTip,\* the tip a candidate observation read
  replaced,    \* history: equal-work replacements by each frontend
  overtaken    \* history: a tip was accepted since the witness was made

clusterVars == <<authorityVars, epoch, bumps>>
nodeVars == <<nodeTip, moved>>
refreshVars == <<pc, captured, proof, previous>>
witnessVars == <<localTip, retryFrom, flight>>
historyVars == <<replaced, overtaken>>
viewVars == <<clusterVars, nodeVars, refreshVars, witnessVars, candidateTip, historyVars>>

Witnesses == [from : Tips, epoch : Nat]
NoWitness == [from |-> NoTip, epoch |-> 0]
NothingRead == [tip |-> NoTip, epoch |-> 0, revision |-> 0]

(***************************************************************************)
(* observe_chain_view_checked, its outcomes.                               *)
(***************************************************************************)
Behind(tip) == Work[tip] < Work[acceptedTip]

\* An equal-work tip other than the accepted one.
Sibling(tip) == Work[tip] = Work[acceptedTip] /\ tip # acceptedTip

SameChainEpoch(w, c) == epoch = w.epoch /\ c.epoch = w.epoch /\ c.tip = w.from

\* Mutant: the witness is not bound to the epoch it was made in.
MayReplaceInAnyEpoch(tip, w, c) ==
  /\ w.from # NoTip /\ c.tip = w.from
  /\ revision = c.revision /\ acceptedTip = w.from
  /\ Height[tip] = Height[acceptedTip]

MayReplace(tip, w, c) ==
  /\ w.from # NoTip /\ SameChainEpoch(w, c)
  /\ revision = c.revision /\ acceptedTip = w.from
  /\ Height[tip] = Height[acceptedTip]

\* ChainObservationRetry: only the accounting moved.
MayRetry(tip, w, c) ==
  /\ w.from # NoTip /\ SameChainEpoch(w, c)
  /\ revision # c.revision /\ acceptedTip = w.from
  /\ Height[tip] = Height[acceptedTip]

\* Mutant: a new tip with the old epoch.
WriteTipInEpoch(tip) ==
  /\ AcceptTip(tip)
  /\ overtaken' = [i \in Observers |-> TRUE]
  /\ UNCHANGED <<epoch, bumps>>

\* Mutant: a new tip with the old revision.
WriteTipAtRevision(tip) ==
  /\ acceptedTip' = tip
  /\ epoch' = epoch + 1
  /\ overtaken' = [i \in Observers |-> TRUE]
  /\ UNCHANGED <<revision, bumps>>

\* The UPDATE.
WriteTip(tip) ==
  /\ AcceptTip(tip)
  /\ epoch' = epoch + 1
  /\ overtaken' = [i \in Observers |-> TRUE]
  /\ UNCHANGED bumps

(***************************************************************************)
(* A refresh: capture, prove, observe.                                     *)
(***************************************************************************)
Capture(i) ==
  /\ pc[i] = "idle"
  /\ pc' = [pc EXCEPT ![i] = "captured"]
  /\ captured' = [captured EXCEPT ![i] =
       [tip |-> acceptedTip, epoch |-> epoch, revision |-> revision]]
  /\ UNCHANGED <<clusterVars, nodeVars, proof, previous, witnessVars,
                 candidateTip, historyVars>>

\* Mutant: a preference counts as a transition.
WitnessOfPreference(i, tip) ==
  IF captured[i].tip = tip THEN NoWitness
  ELSE [from |-> captured[i].tip, epoch |-> captured[i].epoch]

\* The transition the proof shows: the node left the tip which the cluster
\* had accepted when the refresh began.
WitnessOf(i, tip) ==
  IF localTip[i] = tip THEN retryFrom[i]
  ELSE IF localTip[i] # NoTip /\ captured[i].tip = localTip[i]
       THEN [from |-> localTip[i], epoch |-> captured[i].epoch]
       ELSE NoWitness

\* The node's tip is proved, recorded, and the witness taken.
Prove(i) ==
  /\ pc[i] = "captured"
  /\ pc' = [pc EXCEPT ![i] = "sent"]
  /\ proof' = [proof EXCEPT ![i] = nodeTip[i]]
  /\ previous' = [previous EXCEPT ![i] = localTip[i]]
  /\ localTip' = [localTip EXCEPT ![i] = nodeTip[i]]
  /\ flight' = [flight EXCEPT ![i] = WitnessOf(i, nodeTip[i])]
  /\ retryFrom' = [retryFrom EXCEPT ![i] = NoWitness]
  /\ overtaken' = [overtaken EXCEPT ![i] =
       IF localTip[i] = nodeTip[i] THEN @ ELSE epoch # captured[i].epoch]
  /\ UNCHANGED <<clusterVars, nodeVars, captured, candidateTip, replaced>>

RefreshOver(i) ==
  /\ pc' = [pc EXCEPT ![i] = "idle"]
  /\ captured' = [captured EXCEPT ![i] = NothingRead]
  /\ proof' = [proof EXCEPT ![i] = NoTip]
  /\ previous' = [previous EXCEPT ![i] = NoTip]
  /\ flight' = [flight EXCEPT ![i] = NoWitness]

\* Mutant: more work needs a witness too.
AcceptedByWitness(i) ==
  /\ pc[i] = "sent"
  /\ \/ /\ proof[i] # acceptedTip /\ MayReplace(proof[i], flight[i], captured[i])
        /\ WriteTip(proof[i]) /\ UNCHANGED replaced
     \/ /\ proof[i] = acceptedTip
        /\ UNCHANGED <<clusterVars, historyVars>>
  /\ RefreshOver(i)
  /\ UNCHANGED <<nodeVars, localTip, retryFrom, candidateTip>>

\* The observation is written, or changes nothing.
Accepted(i) ==
  /\ pc[i] = "sent"
  /\ \/ /\ Work[proof[i]] > Work[acceptedTip]
        /\ WriteTip(proof[i]) /\ UNCHANGED replaced
     \/ /\ Sibling(proof[i]) /\ MayReplace(proof[i], flight[i], captured[i])
        /\ WriteTip(proof[i])
        /\ replaced' = [replaced EXCEPT ![i] = @ + 1]
     \/ /\ proof[i] = acceptedTip
        /\ UNCHANGED <<clusterVars, historyVars>>
  /\ RefreshOver(i)
  /\ UNCHANGED <<nodeVars, localTip, retryFrom, candidateTip>>

\* A tip with less work does not become the local predecessor.
RefusedBehind(i) ==
  /\ pc[i] = "sent" /\ Behind(proof[i])
  /\ localTip' = [localTip EXCEPT ![i] = previous[i]]
  /\ RefreshOver(i)
  /\ UNCHANGED <<clusterVars, nodeVars, retryFrom, candidateTip, historyVars>>

\* The witness survives when only the accounting moved.
Refused(i) ==
  /\ pc[i] = "sent" /\ Sibling(proof[i])
  /\ ~MayReplace(proof[i], flight[i], captured[i])
  /\ retryFrom' = [retryFrom EXCEPT ![i] =
       IF MayRetry(proof[i], flight[i], captured[i]) THEN flight[i] ELSE NoWitness]
  /\ RefreshOver(i)
  /\ UNCHANGED <<clusterVars, nodeVars, localTip, candidateTip, historyVars>>

\* The refresh fails or is dropped before the write, in its node I/O or in a
\* ledger that does not answer.  Dropped after the write it is Accepted.
Abort(i) ==
  /\ pc[i] # "idle"
  /\ RefreshOver(i)
  /\ UNCHANGED <<clusterVars, nodeVars, localTip, retryFrom, candidateTip,
                 historyVars>>

\* A new process knows no tip and has no witness.
Restart(i) ==
  /\ localTip' = [localTip EXCEPT ![i] = NoTip]
  /\ retryFrom' = [retryFrom EXCEPT ![i] = NoWitness]
  /\ candidateTip' = [candidateTip EXCEPT ![i] = NoTip]
  /\ RefreshOver(i)
  /\ UNCHANGED <<clusterVars, nodeVars, historyVars>>

(***************************************************************************)
(* observe_candidate: the strict observation of the submit loop.           *)
(***************************************************************************)
\* A tip without more work than the accepted one will not have more later:
\* reading it changes nothing and is left out.
CandidateReads(i) ==
  /\ candidateTip[i] = NoTip
  /\ Work[nodeTip[i]] > Work[acceptedTip]
  /\ candidateTip' = [candidateTip EXCEPT ![i] = nodeTip[i]]
  /\ UNCHANGED <<clusterVars, nodeVars, refreshVars, witnessVars, historyVars>>

CandidateObserves(i) ==
  /\ candidateTip[i] # NoTip
  /\ \/ /\ Work[candidateTip[i]] > Work[acceptedTip]
        /\ WriteTip(candidateTip[i])
     \/ /\ ~(Work[candidateTip[i]] > Work[acceptedTip])
        /\ UNCHANGED <<clusterVars, overtaken>>
  /\ candidateTip' = [candidateTip EXCEPT ![i] = NoTip]
  /\ UNCHANGED <<nodeVars, refreshVars, witnessVars, replaced>>

(***************************************************************************)
(* The surroundings: settlements, and nodes that follow any chain, through *)
(* tips with less work while they reorganise.                              *)
(***************************************************************************)
Settle ==
  /\ bumps < MaxBumps
  /\ bumps' = bumps + 1
  /\ revision' = revision + 1
  /\ UNCHANGED <<acceptedTip, epoch, nodeVars, refreshVars, witnessVars,
                 candidateTip, historyVars>>

NodeMoves(i) ==
  /\ moved[i] < MaxMoves
  /\ \E tip \in Tips \ {nodeTip[i]} : nodeTip' = [nodeTip EXCEPT ![i] = tip]
  /\ moved' = [moved EXCEPT ![i] = @ + 1]
  /\ UNCHANGED <<clusterVars, refreshVars, witnessVars, candidateTip, historyVars>>

-----------------------------------------------------------------------------
ViewInit ==
  /\ AuthorityInit
  /\ epoch = 0 /\ bumps = 0
  /\ nodeTip \in [Observers -> Tips]
  /\ moved = [i \in Observers |-> 0]
  /\ pc = [i \in Observers |-> "idle"]
  /\ captured = [i \in Observers |-> NothingRead]
  /\ proof = [i \in Observers |-> NoTip]
  /\ previous = [i \in Observers |-> NoTip]
  /\ localTip = [i \in Observers |-> NoTip]
  /\ retryFrom = [i \in Observers |-> NoWitness]
  /\ flight = [i \in Observers |-> NoWitness]
  /\ candidateTip = [i \in Observers |-> NoTip]
  /\ replaced = [i \in Observers |-> 0]
  /\ overtaken = [i \in Observers |-> FALSE]

Write(i) == Accepted(i) \/ RefusedBehind(i) \/ Refused(i)

ViewNext ==
  \/ Settle
  \/ \E i \in Observers :
       \/ Capture(i) \/ Prove(i) \/ Write(i) \/ Abort(i) \/ Restart(i)
       \/ CandidateReads(i) \/ CandidateObserves(i) \/ NodeMoves(i)

ViewSpec == ViewInit /\ [][ViewNext]_viewVars

(***************************************************************************)
(* ViewFairness.  The refresh loop runs on a timer, and a refresh that reaches *)
(* the ledger again and again is answered at some point.                   *)
(***************************************************************************)
ViewFairness ==
  \A i \in Observers : WF_viewVars(Capture(i)) /\ SF_viewVars(Prove(i)) /\ SF_viewVars(Write(i))

LiveViewSpec == ViewSpec /\ ViewFairness

-----------------------------------------------------------------------------
\* The type of every variable.
ViewTypeOK ==
  /\ AuthorityTypeOK
  /\ epoch \in Nat /\ bumps \in 0..MaxBumps
  /\ nodeTip \in [Observers -> Tips]
  /\ moved \in [Observers -> 0..MaxMoves]
  /\ pc \in [Observers -> {"idle", "captured", "sent"}]
  /\ captured \in [Observers -> [tip : Tips \cup {NoTip}, epoch : Nat, revision : Nat]]
  /\ proof \in [Observers -> Tips \cup {NoTip}]
  /\ previous \in [Observers -> Tips \cup {NoTip}]
  /\ localTip \in [Observers -> Tips \cup {NoTip}]
  /\ retryFrom \in [Observers -> Witnesses \cup {NoWitness}]
  /\ flight \in [Observers -> Witnesses \cup {NoWitness}]
  /\ candidateTip \in [Observers -> Tips \cup {NoTip}]
  /\ replaced \in [Observers -> Nat]
  /\ overtaken \in [Observers -> BOOLEAN]

\* "A repeated local preference is not a new fork-choice transition"
\* (chain_observation.rs): a frontend replaces the accepted tip by one with
\* the same work at most once for every time its node changed its tip,
\* however its observations are cancelled, refused, retried or repeated.
NoFlipFlop == \A i \in Observers : replaced[i] <= moved[i]

\* "A delayed observation must not reverse a replacement another observer
\* committed" (observe_chain_transition): since the frontend saw its node
\* leave the accepted tip, nobody has accepted another one, not even one
\* that was replaced again.
NoReversal ==
  [][ \A i \in Observers : replaced'[i] # replaced[i] => ~overtaken[i] ]_viewVars

\* Whoever finds its epoch unchanged finds its tip unchanged: the epoch moves
\* with the tip and never comes back, while settlements move the revision.
EpochNamesTip ==
  \A i \in Observers :
    /\ captured[i].tip # NoTip /\ captured[i].epoch = epoch => captured[i].tip = acceptedTip
    /\ retryFrom[i].from # NoTip /\ retryFrom[i].epoch = epoch => retryFrom[i].from = acceptedTip

\* A node that stays on a tip brings the cluster at least to its work.
MoreWorkIsAccepted ==
  \A i \in Observers, tip \in Tips :
    nodeTip[i] = tip ~> (Work[acceptedTip] >= Work[tip] \/ nodeTip[i] # tip)
=============================================================================
