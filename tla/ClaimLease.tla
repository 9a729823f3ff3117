----------------------------- MODULE ClaimLease -----------------------------
(***************************************************************************)
(* Who owns a row of the candidate outbox, and for how long.  A frontend   *)
(* claims the row with a fresh token, keeps the claim alive with a         *)
(* heartbeat that renews it, and works on the row while its own monotonic  *)
(* clock says the lease it last renewed has not ended.  Another frontend   *)
(* takes the row over once it has itself watched one version of the claim, *)
(* the pair (claim_token, claim_renewals), go unrenewed for a whole lease. *)
(*                                                                         *)
(* No two clocks are ever compared.  A monotonic clock is modelled by      *)
(* countdowns and ages that every tick moves together: left (how much of   *)
(* the lease a holder believes it still has), hbAge, began, the age of a   *)
(* watched version.  Between two ticks processes are interleaved freely    *)
(* and any of them may be stalled for any number of ticks.  What the       *)
(* database clock reads decides nothing, except for an operator who asks   *)
(* for it.                                                                 *)
(*                                                                         *)
(* A statement sent to the database and its reply are different steps: a   *)
(* renewal or a release may be executed after its caller gave up on it     *)
(* (stray, relPending), or its reply may be lost.                          *)
(*                                                                         *)
(* One row is modelled: claims of different rows share nothing but the     *)
(* poll that reads them.                                                   *)
(***************************************************************************)
EXTENDS Naturals

CONSTANTS
  Procs,            \* processes that poll the outbox
  Operators,        \* those of them that are operator recovery commands
  Lease,            \* the lease each process claims and renews for
  UnrecordedLease,  \* how long a claim that recorded no lease is timed
  MaxClaims,        \* bound: claims ever made
  MaxRenewals,      \* bound: renewals of one claim
  MaxCrashes        \* bound: processes that stop or die

(***************************************************************************)
(* Every lease is at least one tick and no longer than the one assumed for *)
(* a claim that recorded none (claim and renewal accept 1 to 600 s).       *)
(***************************************************************************)
ASSUME LeaseAssumption ==
  /\ UnrecordedLease \in Nat \ {0}
  /\ Lease \in [Procs -> 1..UnrecordedLease]
  /\ Operators \subseteq Procs

ASSUME BoundAssumption ==
  /\ MaxClaims \in Nat \ {0}
  /\ MaxRenewals \in Nat
  /\ MaxCrashes \in Nat

VARIABLES
  row,        \* the claim columns of the row
  rowAge,     \* history: time since the row's claim version was committed
  issued,     \* tokens generated so far: 1..issued
  stage,      \* what became of each claim, in the process that made it
  owner,      \* the process that made it
  left,       \* the rest of the lease, on the owner's clock (LeaseHorizon)
  hb,         \* the heartbeat of the claim
  hbAge,      \* time since the renewal in flight was started
  stray,      \* a renewal nobody waits for may still be executed
  relPending, \* a release was sent and has not been executed
  up,         \* running processes
  crashes,
  poll,       \* claim_candidate's progress
  seen,       \* the claim its survey read
  began,      \* time since the poll started (claimed_at)
  watched     \* the ClaimObserver's entry for the row

rowVars == <<row, rowAge>>
claimVars == <<issued, owner>>
attemptVars == <<stage, left, hb, hbAge, stray>>
pollVars == <<poll, seen, began, watched>>
procVars == <<up, crashes>>
vars == <<rowVars, claimVars, attemptVars, relPending, procVars, pollVars>>

Tokens == 1..MaxClaims
NoToken == 0
\* claim_lease_seconds is NULL on a claim older than migration 021.
NullLease == 0

LeaseOf(recorded) == IF recorded = NullLease THEN UnrecordedLease ELSE recorded

\* Nothing was read, or nothing is claimed.
NoClaim == [token |-> NoToken, renewals |-> 0, lease |-> NullLease, due |-> FALSE]

\* What a survey reads of the row; a finished row is not in it.
ClaimOf(r) ==
  IF r.open /\ r.token # NoToken
  THEN [token |-> r.token, renewals |-> r.renewals, lease |-> r.lease,
        due |-> ~r.parked]
  ELSE NoClaim

NotWatching == [token |-> NoToken, renewals |-> 0, age |-> 0]

SameVersion(v, w) == v.token = w.token /\ v.renewals = w.renewals

\* The token holds the row: the fence of every write under a claim.
Holds(t) == row.token = t /\ row.open

Working == {"claimed", "working"}

\* claim_expires_at has passed, on a database clock that is not stepped.
DatabaseLeaseOver == rowAge >= LeaseOf(row.lease)

\* The owner believes its lease has not ended.
Live(t) == stage[t] \in Working /\ left[t] > 0

Busy(i) == \E t \in Tokens : owner[t] = i /\ stage[t] \in Working

(***************************************************************************)
(* Clocks.                                                                 *)
(***************************************************************************)
\* An age grows up to the longest lease: no comparison looks further.
Aged(a) == IF a < UnrecordedLease THEN a + 1 ELSE a

\* saturating_duration_since: a deadline that has passed is no time away.
CountedDown(d) == IF d > 0 THEN d - 1 ELSE 0

\* started + lease, seen from an instant `age` later.
Remaining(lease, age) == IF age < lease THEN lease - age ELSE 0

Tick ==
  /\ rowAge' = Aged(rowAge)
  /\ left' = [t \in Tokens |-> CountedDown(left[t])]
  /\ hbAge' = [t \in Tokens |->
                IF hb[t] \in {"sent", "renewed"} THEN Aged(hbAge[t]) ELSE 0]
  /\ began' = [i \in Procs |->
                IF poll[i] # "idle" THEN Aged(began[i]) ELSE 0]
  /\ watched' = [i \in Procs |->
                  [token |-> watched[i].token, renewals |-> watched[i].renewals,
                   age |-> Aged(watched[i].age)]]
  /\ UNCHANGED <<row, claimVars, stage, hb, stray, relPending, procVars, poll,
                 seen>>

(***************************************************************************)
(* Statements executed by the database on the claim columns.               *)
(***************************************************************************)
\* A claim or a renewal: a new version, committed now.
WriteClaim(t, renewals, lease) ==
  /\ row' = [token |-> t, renewals |-> renewals, lease |-> lease,
             open |-> row.open, parked |-> row.parked]
  /\ rowAge' = 0

ClearClaim(open, parked) ==
  /\ row' = [token |-> NoToken, renewals |-> 0, lease |-> NullLease,
             open |-> open, parked |-> parked]
  /\ rowAge' = 0

(***************************************************************************)
(* The observer.  A version not watched before starts its clock when the   *)
(* reply that shows it arrives; a row no longer claimed is forgotten.      *)
(***************************************************************************)
\* Mutant: every survey starts the clock again.
RecordAfresh(w, claim) ==
  IF claim.token = NoToken THEN NotWatching
  ELSE [token |-> claim.token, renewals |-> claim.renewals, age |-> 0]

Record(w, claim) ==
  IF claim.token = NoToken THEN NotWatching
  ELSE IF SameVersion(w, claim) THEN w
  ELSE [token |-> claim.token, renewals |-> claim.renewals, age |-> 0]

Expired(i) ==
  /\ SameVersion(watched[i], seen[i])
  /\ watched[i].age >= LeaseOf(seen[i].lease)

\* An operator's recovery claim ignores the schedule, a frontend never takes
\* a parked row.
MayTake(i, parked) == i \in Operators \/ ~parked

(***************************************************************************)
(* claim_candidate: one poll of the submit loop.  The transaction reads    *)
(* the claims, times them, then takes over one that is over or claims an   *)
(* unclaimed row.                                                          *)
(***************************************************************************)
Survey(i) ==
  /\ up[i] /\ poll[i] = "idle" /\ ~Busy(i)
  /\ poll' = [poll EXCEPT ![i] = "asked"]
  /\ seen' = [seen EXCEPT ![i] = ClaimOf(row)]
  /\ began' = [began EXCEPT ![i] = 0]
  /\ UNCHANGED <<rowVars, claimVars, attemptVars, relPending, procVars, watched>>

SurveyReply(i) ==
  /\ poll[i] = "asked"
  /\ watched' = [watched EXCEPT ![i] = Record(@, seen[i])]
  /\ poll' = [poll EXCEPT ![i] = "replied"]
  /\ UNCHANGED <<rowVars, claimVars, attemptVars, relPending, procVars, seen,
                 began>>

PollOver(i) ==
  /\ poll' = [poll EXCEPT ![i] = "idle"]
  /\ seen' = [seen EXCEPT ![i] = NoClaim]
  /\ began' = [began EXCEPT ![i] = 0]

\* The poll ends without a claim: nothing was takeable or due, the row was
\* locked, or the database did not answer.
EndPoll(i) ==
  /\ poll[i] # "idle"
  /\ PollOver(i)
  /\ UNCHANGED <<rowVars, claimVars, attemptVars, relPending, procVars, watched>>

\* The claim commits with a fresh token.  When its reply is lost, or the row
\* cannot be decoded, no attempt runs and the claim waits for its lease.
Claim(i) ==
  LET t == issued + 1 IN
  /\ t \in Tokens
  /\ issued' = t
  /\ owner' = [owner EXCEPT ![t] = i]
  /\ \/ /\ stage' = [stage EXCEPT ![t] = "claimed"]
        /\ left' = [left EXCEPT ![t] = Remaining(Lease[i], began[i])]
     \/ stage' = [stage EXCEPT ![t] = "gone"] /\ UNCHANGED left
  /\ WriteClaim(t, 0, Lease[i])
  /\ PollOver(i)
  /\ UNCHANGED <<hb, hbAge, stray, relPending, procVars, watched>>

\* Mutant: the compare and set forgets the renewals.
TakeOverByToken(i) ==
  /\ poll[i] = "replied"
  /\ seen[i].token # NoToken /\ MayTake(i, ~seen[i].due) /\ Expired(i)
  /\ row.open /\ row.token = seen[i].token /\ MayTake(i, row.parked)
  /\ Claim(i)

\* take_over_claim: compare and set on the version the observer timed.
TakeOver(i) ==
  /\ poll[i] = "replied"
  /\ seen[i].token # NoToken /\ MayTake(i, ~seen[i].due) /\ Expired(i)
  /\ row.open /\ SameVersion(row, seen[i]) /\ MayTake(i, row.parked)
  /\ Claim(i)

\* claim_candidate_lane, and a recovery command on an unclaimed row.
ClaimUnclaimed(i) ==
  /\ poll[i] = "replied"
  /\ row.open /\ row.token = NoToken /\ MayTake(i, row.parked)
  /\ Claim(i)

\* RecoveryTakeover::DatabaseClock takes a claim whose claim_expires_at has
\* passed.  It is for an operator who knows that the clock has not stepped:
\* then that is a lease after the commit which wrote the version.
RecoverByDatabaseClock(i) ==
  /\ poll[i] = "replied" /\ i \in Operators
  /\ row.open /\ row.token # NoToken /\ DatabaseLeaseOver
  /\ Claim(i)

(***************************************************************************)
(* with_tracked_heartbeat.                                                 *)
(***************************************************************************)
\* The attempt's futures are dropped.  A renewal in flight goes on without
\* them: it may still be executed, or never reach the database.
Drop(t, s) ==
  /\ stage' = [stage EXCEPT ![t] = s]
  /\ hb' = [hb EXCEPT ![t] = "none"]
  /\ \E sent \in {stray[t], stray[t] \/ hb[t] = "sent"} :
       stray' = [stray EXCEPT ![t] = sent]
  /\ left' = [left EXCEPT ![t] = IF s = "gone" THEN 0 ELSE @]
  /\ hbAge' = [hbAge EXCEPT ![t] = 0]

\* The attempt is over.  It counts as done when the row is terminal: its own
\* last write won against the heartbeat's failure.
Fail(t) ==
  /\ \E s \in {"failed", "gone"} : (s = "gone" => ~row.open) /\ Drop(t, s)
  /\ UNCHANGED <<rowVars, claimVars, relPending, procVars, pollVars>>

\* The first renewal establishes ownership before any work; a later one is
\* started only within the lease.
StartRenewal(t) ==
  /\ stage[t] = "claimed" \/ (stage[t] = "working" /\ left[t] > 0)
  /\ hb[t] = "none"
  /\ hb' = [hb EXCEPT ![t] = "sent"]
  /\ hbAge' = [hbAge EXCEPT ![t] = 0]
  /\ UNCHANGED <<rowVars, claimVars, stage, left, stray, relPending, procVars,
                 pollVars>>

\* renew_candidate_claim, fenced on the token alone.
Renewed(t) ==
  /\ Holds(t) /\ row.renewals < MaxRenewals
  /\ WriteClaim(t, row.renewals + 1, Lease[owner[t]])

\* The statement is executed.  A refusal ends the attempt.
ExecuteRenewal(t) ==
  /\ hb[t] = "sent"
  /\ \/ /\ Renewed(t)
        /\ hb' = [hb EXCEPT ![t] = "renewed"]
        /\ UNCHANGED <<claimVars, stage, left, hbAge, stray, relPending,
                       procVars, pollVars>>
     \/ ~Holds(t) /\ Fail(t)

\* valid_until is measured from the instant the renewal was started.
RenewalAnswered(t) ==
  /\ hb[t] = "renewed"
  /\ left' = [left EXCEPT ![t] = Remaining(Lease[owner[t]], hbAge[t])]
  /\ stage' = [stage EXCEPT ![t] = "working"]
  /\ hb' = [hb EXCEPT ![t] = "none"]
  /\ hbAge' = [hbAge EXCEPT ![t] = 0]
  /\ UNCHANGED <<rowVars, claimVars, stray, relPending, procVars, pollVars>>

\* A first renewal that gets no answer in time fails the attempt; a later one
\* is followed by a read of the token.
RenewalTimedOut(t) ==
  /\ hb[t] \in {"sent", "renewed"}
  /\ \/ stage[t] = "claimed" /\ Fail(t)
     \/ /\ stage[t] = "working"
        /\ hb' = [hb EXCEPT ![t] = "checking"]
        /\ hbAge' = [hbAge EXCEPT ![t] = 0]
        /\ \E sent \in {stray[t], stray[t] \/ hb[t] = "sent"} :
             stray' = [stray EXCEPT ![t] = sent]
        /\ UNCHANGED <<rowVars, claimVars, stage, left, relPending, procVars,
                       pollVars>>

\* The attempt goes on when the read shows the token and the lease has not
\* ended; a read that shows something else, or nothing in time, ends it.
ReadToken(t) ==
  /\ hb[t] = "checking"
  /\ \/ /\ Holds(t) /\ left[t] > 0
        /\ hb' = [hb EXCEPT ![t] = "none"]
        /\ UNCHANGED <<rowVars, claimVars, stage, left, hbAge, stray,
                       relPending, procVars, pollVars>>
     \/ Fail(t)

\* "candidate lease expired before renewal": the heartbeat drops the work.
LeaseOver(t) ==
  /\ stage[t] = "working" /\ hb[t] = "none" /\ left[t] = 0
  /\ Fail(t)

(***************************************************************************)
(* The work under the claim.  Its writes that keep the claim are in module *)
(* CandidateOutbox; here it ends, with the write that gives the claim up   *)
(* (finished, rescheduled or parked) or with an error.                     *)
(***************************************************************************)
WorkCommits(t) ==
  /\ stage[t] = "working" /\ Holds(t)
  /\ \E open, parked \in BOOLEAN :
       (parked => open) /\ ClearClaim(open, parked)
  /\ \E s \in {"gone", "failed"} : Drop(t, s)
  /\ UNCHANGED <<claimVars, relPending, procVars, pollVars>>

WorkFails(t) == stage[t] \in Working /\ Fail(t)

(***************************************************************************)
(* claim_release: the release of a failed attempt's claim, retried while   *)
(* the lease has not ended.                                                *)
(***************************************************************************)
SendRelease(t) ==
  /\ stage[t] = "failed" /\ left[t] > 0 /\ ~relPending[t]
  /\ poll[owner[t]] = "idle"
  /\ relPending' = [relPending EXCEPT ![t] = TRUE]
  /\ UNCHANGED <<rowVars, claimVars, attemptVars, procVars, pollVars>>

\* The owner has nothing left to do with the claim.
Released(t) ==
  /\ stage' = [stage EXCEPT ![t] = "gone"]
  /\ left' = [left EXCEPT ![t] = 0]

\* Mutant: the release does not compare the token.
ExecuteReleaseUnfenced(t) ==
  /\ relPending[t]
  /\ \/ row.open /\ ClearClaim(TRUE, row.parked)
     \/ ~row.open /\ UNCHANGED rowVars
  /\ relPending' = [relPending EXCEPT ![t] = FALSE]
  /\ Released(t) \/ UNCHANGED <<stage, left>>
  /\ UNCHANGED <<claimVars, hb, hbAge, stray, procVars, pollVars>>

\* release_candidate_claim, fenced on the token.  Its answer may be lost.
ExecuteRelease(t) ==
  /\ relPending[t]
  /\ \/ Holds(t) /\ ClearClaim(TRUE, row.parked)
     \/ ~Holds(t) /\ UNCHANGED rowVars
  /\ relPending' = [relPending EXCEPT ![t] = FALSE]
  /\ Released(t) \/ UNCHANGED <<stage, left>>
  /\ UNCHANGED <<claimVars, hb, hbAge, stray, procVars, pollVars>>

\* A deferred release ends with its lease.
ReleaseExpired(t) ==
  /\ stage[t] = "failed" /\ left[t] = 0
  /\ Released(t)
  /\ UNCHANGED <<rowVars, claimVars, hb, hbAge, stray, relPending, procVars,
                 pollVars>>

(***************************************************************************)
(* Statements whose caller no longer waits are executed late, or lost.     *)
(***************************************************************************)
ExecuteStray(t) ==
  /\ stray[t]
  /\ stray' = [stray EXCEPT ![t] = FALSE]
  /\ Renewed(t) \/ UNCHANGED rowVars
  /\ UNCHANGED <<claimVars, stage, left, hb, hbAge, relPending, procVars,
                 pollVars>>

LoseRelease(t) ==
  /\ relPending[t]
  /\ relPending' = [relPending EXCEPT ![t] = FALSE]
  /\ UNCHANGED <<rowVars, claimVars, attemptVars, procVars, pollVars>>

(***************************************************************************)
(* Processes stop, die and start.                                          *)
(***************************************************************************)
Own(i) == {t \in Tokens : owner[t] = i /\ stage[t] # "unused"}

\* Everything the process knew is gone; what it had sent is not.
Halt(i) ==
  /\ up' = [up EXCEPT ![i] = FALSE]
  /\ stage' = [t \in Tokens |-> IF t \in Own(i) THEN "gone" ELSE stage[t]]
  /\ left' = [t \in Tokens |-> IF t \in Own(i) THEN 0 ELSE left[t]]
  /\ hb' = [t \in Tokens |-> IF t \in Own(i) THEN "none" ELSE hb[t]]
  /\ hbAge' = [t \in Tokens |-> IF t \in Own(i) THEN 0 ELSE hbAge[t]]
  /\ stray' \in {[t \in Tokens |-> stray[t]],
                 [t \in Tokens |-> stray[t] \/ (t \in Own(i) /\ hb[t] = "sent")]}
  /\ PollOver(i)
  /\ watched' = [watched EXCEPT ![i] = NotWatching]
  /\ UNCHANGED <<rowVars, claimVars>>

Crash(i) ==
  /\ up[i] /\ crashes < MaxCrashes
  /\ crashes' = crashes + 1
  /\ Halt(i)
  /\ UNCHANGED relPending

\* A shutdown hands back the claim of the attempt it drops and, once more,
\* releases the failed attempts whose lease has not ended.
Shutdown(i) ==
  /\ up[i] /\ crashes < MaxCrashes
  /\ crashes' = crashes + 1
  /\ relPending' = [t \in Tokens |->
       relPending[t] \/ (/\ t \in Own(i)
                         /\ \/ stage[t] \in Working
                            \/ stage[t] = "failed" /\ left[t] > 0)]
  /\ Halt(i)

Start(i) ==
  /\ ~up[i]
  /\ up' = [up EXCEPT ![i] = TRUE]
  /\ UNCHANGED <<rowVars, claimVars, attemptVars, relPending, crashes, pollVars>>

-----------------------------------------------------------------------------
\* The row is unclaimed, or an earlier process left a claim on it, with a
\* lease or (before migration 021) without one.
Init ==
  /\ row \in [token : {NoToken, 1}, renewals : {0},
              lease : {NullLease} \cup {Lease[i] : i \in Procs},
              open : {TRUE}, parked : BOOLEAN]
  /\ row.token = NoToken => row.lease = NullLease
  /\ rowAge = 0
  /\ issued = row.token
  /\ stage = [t \in Tokens |-> IF t <= issued THEN "gone" ELSE "unused"]
  /\ \E i \in Procs : owner = [t \in Tokens |-> i]
  /\ left = [t \in Tokens |-> 0]
  /\ hb = [t \in Tokens |-> "none"]
  /\ hbAge = [t \in Tokens |-> 0]
  /\ stray = [t \in Tokens |-> FALSE]
  /\ relPending = [t \in Tokens |-> FALSE]
  /\ up = [i \in Procs |-> TRUE]
  /\ crashes = 0
  /\ poll = [i \in Procs |-> "idle"]
  /\ seen = [i \in Procs |-> NoClaim]
  /\ began = [i \in Procs |-> 0]
  /\ watched = [i \in Procs |-> NotWatching]

Heartbeat(t) ==
  \/ StartRenewal(t) \/ ExecuteRenewal(t) \/ RenewalAnswered(t)
  \/ RenewalTimedOut(t) \/ ReadToken(t) \/ LeaseOver(t)

Release(t) ==
  SendRelease(t) \/ ExecuteRelease(t) \/ LoseRelease(t) \/ ReleaseExpired(t)

Poll(i) ==
  \/ Survey(i) \/ SurveyReply(i) \/ EndPoll(i)
  \/ TakeOver(i) \/ ClaimUnclaimed(i) \/ RecoverByDatabaseClock(i)

Next ==
  \/ Tick
  \/ \E i \in Procs : Poll(i) \/ Crash(i) \/ Shutdown(i) \/ Start(i)
  \/ \E t \in Tokens : \/ Heartbeat(t) \/ WorkCommits(t) \/ WorkFails(t)
                       \/ Release(t) \/ ExecuteStray(t)

Spec == Init /\ [][Next]_vars

(***************************************************************************)
(* Fairness.  Time passes and a running process goes on: its polls and its *)
(* heartbeats are loops on timers, and a stopped process is started again. *)
(* A survey that is asked again and again is answered at some point, and a *)
(* takeover that is possible at poll after poll is made at one of them:    *)
(* the database is not failing for ever.  Nothing is assumed of the work,  *)
(* of releases or of stray statements.                                     *)
(***************************************************************************)
Fairness ==
  /\ WF_vars(Tick)
  /\ \A i \in Procs : /\ WF_vars(Start(i) \/ Survey(i) \/ EndPoll(i))
                      /\ SF_vars(SurveyReply(i)) /\ SF_vars(TakeOver(i))
  /\ \A t \in Tokens : WF_vars(Heartbeat(t))

FairSpec == Spec /\ Fairness

-----------------------------------------------------------------------------
Claims == [token : Tokens \cup {NoToken}, renewals : 0..MaxRenewals,
           lease : 0..UnrecordedLease, due : BOOLEAN]

\* The type of every variable.
TypeOK ==
  /\ row \in [token : Tokens \cup {NoToken}, renewals : 0..MaxRenewals,
              lease : 0..UnrecordedLease, open : BOOLEAN, parked : BOOLEAN]
  /\ rowAge \in 0..UnrecordedLease
  /\ issued \in 0..MaxClaims
  /\ stage \in [Tokens -> {"unused", "claimed", "working", "failed",
                           "gone"}]
  /\ owner \in [Tokens -> Procs]
  /\ left \in [Tokens -> 0..UnrecordedLease]
  /\ hb \in [Tokens -> {"none", "sent", "renewed", "checking"}]
  /\ hbAge \in [Tokens -> 0..UnrecordedLease]
  /\ stray \in [Tokens -> BOOLEAN]
  /\ relPending \in [Tokens -> BOOLEAN]
  /\ up \in [Procs -> BOOLEAN]
  /\ crashes \in 0..MaxCrashes
  /\ poll \in [Procs -> {"idle", "asked", "replied"}]
  /\ seen \in [Procs -> Claims]
  /\ began \in [Procs -> 0..UnrecordedLease]
  /\ watched \in [Procs -> [token : Tokens \cup {NoToken},
                            renewals : 0..MaxRenewals,
                            age : 0..UnrecordedLease]]

\* "So the holder's lease always ends first, whatever either clock reads"
\* (claim_observer.rs): as long as a process believes the lease of its
\* attempt has not ended, the row still carries its token, whatever delayed
\* polls, takeovers, late renewals and late releases the others make.
LiveLeaseHoldsRow == \A t \in Tokens : Live(t) => row.token = t

\* A takeover "can come up to one lease later than the claim's true end,
\* never earlier" (claim_observer.rs): a claim is replaced by another one
\* only when its last claim or renewal was committed at least its whole
\* lease ago.
TakenOverNeverEarlier ==
  [][ (row.token # NoToken /\ row'.token \notin {NoToken, row.token})
      => rowAge >= LeaseOf(row.lease) ]_vars

\* A claim whose holder is gone does not keep its row: another process takes
\* it over (while the bound on claims lets one), a late release of the dead
\* holder frees it, or an operator parked it.  And an attempt outlives its
\* lease by no more than its process's stall: once its lease has ended, its
\* work is dropped, or a renewal started before the end extends it.
LeasesEnd ==
  \A t \in Tokens :
    /\ (row.token = t /\ stage[t] = "gone" /\ ~row.parked /\ issued < MaxClaims)
         ~> row.token # t
    /\ (stage[t] = "working" /\ left[t] = 0) ~> (stage[t] # "working" \/ left[t] > 0)

\* "Every write under a claim is fenced on its token and on a live database
\* lease" (claim_release.rs): what a claim's holder writes to the claim is
\* written before claim_expires_at has passed.
WritesUnderLiveDatabaseLease ==
  [][ (row.token # NoToken /\ row' # row /\ issued' = issued)
      => ~DatabaseLeaseOver ]_vars
=============================================================================
