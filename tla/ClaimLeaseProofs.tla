-------------------------- MODULE ClaimLeaseProofs --------------------------
(***************************************************************************)
(* The holder's lease ends first, for every number of processes, claims    *)
(* and renewals and for all leases.  The inductive invariant compares      *)
(* everybody's clock with the age of the row's version: an observer has    *)
(* watched the version for no longer than it exists, and the holder        *)
(* started the renewal it counts from before the version was committed.    *)
(***************************************************************************)
EXTENDS ClaimLease, TLAPS

USE ZenonT(60)

(* Tokens are used once: nothing is known of one that was not issued. *)
Fresh ==
  /\ row.token <= issued
  /\ \A i \in Procs : watched[i].token <= issued /\ seen[i].token <= issued
  /\ \A t \in Tokens : t > issued =>
       stage[t] = "unused" /\ hb[t] = "none" /\ ~relPending[t]

(* A heartbeat runs under an attempt, a release after it. *)
Phases ==
  \A t \in Tokens : /\ hb[t] # "none" => stage[t] \in Working
                    /\ relPending[t] => stage[t] \notin Working

(* A version never comes back: what was read of the claim is not newer. *)
Versions ==
  row.token # NoToken =>
    \A i \in Procs :
      /\ watched[i].token = row.token => watched[i].renewals <= row.renewals
      /\ seen[i].token = row.token => seen[i].renewals <= row.renewals
      /\ SameVersion(seen[i], row) => seen[i].lease = row.lease

(* Nobody has watched the version for longer than it exists. *)
ObserversLate ==
  row.token # NoToken =>
    \A i \in Procs : SameVersion(watched[i], row) => watched[i].age <= rowAge

(* The holder of the row counts its lease from before the commit of the    *)
(* version, and so will it from a renewal that was executed.               *)
HolderEarly ==
  \A t \in Tokens :
    row.token = t /\ stage[t] \in Working =>
      /\ row.lease = Lease[owner[t]]
      /\ left[t] > 0 => left[t] + rowAge <= Lease[owner[t]]
      /\ hb[t] = "renewed" => rowAge <= hbAge[t]

(* A renewal that was executed and would still extend the lease when it is *)
(* answered holds the row.                                                 *)
RenewalHoldsRow ==
  \A t \in Tokens :
    hb[t] = "renewed" /\ hbAge[t] < Lease[owner[t]] => row.token = t

LeaseInv ==
  /\ TypeOK /\ Fresh /\ Phases /\ Versions /\ ObserversLate
  /\ HolderEarly /\ RenewalHoldsRow /\ LiveLeaseHoldsRow

-----------------------------------------------------------------------------
(* Types. *)

(* The initial state is well typed. *)
LEMMA LeaseInitType == Init => TypeOK
<1> SUFFICES ASSUME Init PROVE TypeOK
  OBVIOUS
<1>1. /\ row \in [token : Tokens \cup {NoToken}, renewals : 0..MaxRenewals,
                  lease : 0..UnrecordedLease, open : BOOLEAN, parked : BOOLEAN]
      /\ issued \in 0..MaxClaims
  <2>1. /\ {NoToken, 1} \subseteq Tokens \cup {NoToken}
        /\ {NoToken, 1} \subseteq 0..MaxClaims
        /\ {0} \subseteq 0..MaxRenewals
    BY SMTT(30), BoundAssumption DEF Tokens, NoToken
  <2>2. {NullLease} \cup {Lease[i] : i \in Procs} \subseteq 0..UnrecordedLease
    BY SMTT(30), LeaseAssumption DEF NullLease
  <2>3. /\ row \in [token : {NoToken, 1}, renewals : {0},
                    lease : {NullLease} \cup {Lease[i] : i \in Procs},
                    open : {TRUE}, parked : BOOLEAN]
        /\ issued = row.token
    BY DEF Init
  <2> QED BY <2>1, <2>2, <2>3
<1>2. /\ NoClaim \in Claims
      /\ NotWatching \in [token : Tokens \cup {NoToken}, renewals : 0..MaxRenewals,
                          age : 0..UnrecordedLease]
  BY SMTT(30), LeaseAssumption, BoundAssumption DEF NoClaim, NotWatching, Claims, NoToken, NullLease
<1>3. /\ rowAge \in 0..UnrecordedLease
      /\ stage \in [Tokens -> {"unused", "claimed", "working", "failed", "gone"}]
      /\ owner \in [Tokens -> Procs]
      /\ left \in [Tokens -> 0..UnrecordedLease]
      /\ hb \in [Tokens -> {"none", "sent", "renewed", "checking"}]
      /\ hbAge \in [Tokens -> 0..UnrecordedLease]
      /\ crashes \in 0..MaxCrashes
  BY SMTT(30), LeaseAssumption, BoundAssumption DEF Init
<1>4. /\ stray \in [Tokens -> BOOLEAN] /\ relPending \in [Tokens -> BOOLEAN]
      /\ up \in [Procs -> BOOLEAN]
      /\ poll \in [Procs -> {"idle", "asked", "replied"}]
      /\ began \in [Procs -> 0..UnrecordedLease]
  BY SMTT(30), LeaseAssumption DEF Init
<1>5. /\ seen \in [Procs -> Claims]
      /\ watched \in [Procs -> [token : Tokens \cup {NoToken}, renewals : 0..MaxRenewals,
                                age : 0..UnrecordedLease]]
  BY <1>2 DEF Init
<1> QED BY <1>1, <1>3, <1>4, <1>5 DEF TypeOK

(* Clocks stay in range. *)
LEMMA ClockRange ==
    ASSUME NEW a \in 0..UnrecordedLease, NEW l \in 0..UnrecordedLease
    PROVE  /\ Aged(a) \in 0..UnrecordedLease /\ a <= Aged(a) /\ Aged(a) <= a + 1
           /\ CountedDown(a) \in 0..UnrecordedLease
           /\ Remaining(l, a) \in 0..UnrecordedLease
           /\ Remaining(l, a) > 0 => Remaining(l, a) + a = l
BY SMTT(30), LeaseAssumption DEF Aged, CountedDown, Remaining

(* A claim is written with a value of every column's type. *)
LEMMA ClaimType == ASSUME TypeOK, NEW i \in Procs, Claim(i) PROVE TypeOK'
<1>1. /\ Remaining(Lease[i], began[i]) \in 0..UnrecordedLease
      /\ Lease[i] \in 0..UnrecordedLease
  BY SMTT(30), LeaseAssumption, ClockRange DEF TypeOK
<1>2. row' \in [token : Tokens \cup {NoToken}, renewals : 0..MaxRenewals,
                lease : 0..UnrecordedLease, open : BOOLEAN, parked : BOOLEAN]
  BY SMTT(30), <1>1, BoundAssumption DEF Claim, WriteClaim, TypeOK
<1>3. /\ rowAge' \in 0..UnrecordedLease
      /\ issued' \in 0..MaxClaims
      /\ owner' \in [Tokens -> Procs]
  BY SMTT(30), LeaseAssumption, BoundAssumption DEF Claim, WriteClaim, TypeOK, Tokens
<1>4. /\ stage' \in [Tokens -> {"unused", "claimed", "working", "failed", "gone"}]
      /\ left' \in [Tokens -> 0..UnrecordedLease]
  <2>1. issued + 1 \in Tokens
    BY DEF Claim
  <2>2. stage' \in [Tokens -> {"unused", "claimed", "working", "failed", "gone"}]
    BY <2>1 DEF Claim, TypeOK
  <2>3. left' = left \/ left' = [left EXCEPT ![issued + 1] = Remaining(Lease[i], began[i])]
    BY DEF Claim
  <2> QED BY SMTT(30), <1>1, <2>1, <2>2, <2>3 DEF TypeOK
<1>5. NoClaim \in Claims
  BY SMTT(30), LeaseAssumption, BoundAssumption DEF NoClaim, Claims, NoToken, NullLease
<1>6. /\ poll' \in [Procs -> {"idle", "asked", "replied"}]
      /\ seen' \in [Procs -> Claims]
      /\ began' \in [Procs -> 0..UnrecordedLease]
  BY SMTT(30), <1>5, LeaseAssumption DEF Claim, PollOver, TypeOK
<1> QED BY <1>2, <1>3, <1>4, <1>6 DEF Claim, TypeOK, Claims, procVars

(* The end of an attempt is well typed. *)
LEMMA DropType ==
    ASSUME TypeOK, NEW t \in Tokens, NEW s \in {"failed", "gone"}, Drop(t, s)
    PROVE  /\ stage' \in [Tokens -> {"unused", "claimed", "working", "failed", "gone"}]
           /\ left' \in [Tokens -> 0..UnrecordedLease]
           /\ hb' \in [Tokens -> {"none", "sent", "renewed", "checking"}]
           /\ hbAge' \in [Tokens -> 0..UnrecordedLease]
           /\ stray' \in [Tokens -> BOOLEAN]
<1>1. /\ stage' \in [Tokens -> {"unused", "claimed", "working", "failed", "gone"}]
      /\ hb' \in [Tokens -> {"none", "sent", "renewed", "checking"}]
  BY DEF Drop, TypeOK
<1>2. /\ left' \in [Tokens -> 0..UnrecordedLease]
      /\ hbAge' \in [Tokens -> 0..UnrecordedLease]
  BY SMTT(30), LeaseAssumption DEF Drop, TypeOK
<1>3. PICK sent \in {stray[t], stray[t] \/ hb[t] = "sent"} :
        stray' = [stray EXCEPT ![t] = sent]
  BY DEF Drop
<1>4. stray[t] \in BOOLEAN
  BY DEF TypeOK
<1>5. sent \in BOOLEAN
  BY <1>3, <1>4
<1> QED BY <1>1, <1>2, <1>3, <1>5 DEF TypeOK

(* A failed attempt is well typed. *)
LEMMA FailType == ASSUME TypeOK, NEW t \in Tokens, Fail(t) PROVE TypeOK'
BY SMTT(30), DropType DEF Fail, TypeOK, rowVars, claimVars, procVars, pollVars

(* A stopped process leaves well typed state behind. *)
LEMMA HaltType ==
    ASSUME TypeOK, NEW i \in Procs, Halt(i), relPending' \in [Tokens -> BOOLEAN],
           crashes' = crashes + 1, crashes < MaxCrashes
    PROVE  TypeOK'
<1>1. /\ stage' \in [Tokens -> {"unused", "claimed", "working", "failed", "gone"}]
      /\ left' \in [Tokens -> 0..UnrecordedLease]
      /\ hb' \in [Tokens -> {"none", "sent", "renewed", "checking"}]
      /\ hbAge' \in [Tokens -> 0..UnrecordedLease]
  BY SMTT(30), LeaseAssumption DEF Halt, TypeOK
<1>2. stray' \in [Tokens -> BOOLEAN]
  BY DEF Halt, TypeOK
<1>3. /\ NoClaim \in Claims
      /\ NotWatching \in [token : Tokens \cup {NoToken}, renewals : 0..MaxRenewals,
                          age : 0..UnrecordedLease]
  BY SMTT(30), LeaseAssumption, BoundAssumption DEF NoClaim, NotWatching, Claims, NoToken, NullLease
<1>4. /\ seen' \in [Procs -> Claims]
      /\ watched' \in [Procs -> [token : Tokens \cup {NoToken}, renewals : 0..MaxRenewals,
                                 age : 0..UnrecordedLease]]
  BY <1>3 DEF Halt, PollOver, TypeOK
<1>5. /\ poll' \in [Procs -> {"idle", "asked", "replied"}]
      /\ began' \in [Procs -> 0..UnrecordedLease]
      /\ up' \in [Procs -> BOOLEAN]
      /\ crashes' \in 0..MaxCrashes
  BY SMTT(30), LeaseAssumption, BoundAssumption DEF Halt, PollOver, TypeOK
<1> QED BY <1>1, <1>2, <1>4, <1>5 DEF Halt, TypeOK, rowVars, claimVars

(* A renewed row is well typed. *)
LEMMA RenewedType ==
    ASSUME TypeOK, NEW t \in Tokens, Renewed(t)
    PROVE  /\ row' \in [token : Tokens \cup {NoToken}, renewals : 0..MaxRenewals,
                        lease : 0..UnrecordedLease, open : BOOLEAN, parked : BOOLEAN]
           /\ rowAge' \in 0..UnrecordedLease
BY SMTT(30), LeaseAssumption, BoundAssumption DEF Renewed, WriteClaim, TypeOK

(* A cleared row is well typed. *)
LEMMA ClearType ==
    ASSUME TypeOK, NEW o \in BOOLEAN, NEW p \in BOOLEAN, ClearClaim(o, p)
    PROVE  /\ row' \in [token : Tokens \cup {NoToken}, renewals : 0..MaxRenewals,
                        lease : 0..UnrecordedLease, open : BOOLEAN, parked : BOOLEAN]
           /\ rowAge' \in 0..UnrecordedLease
BY SMTT(30), LeaseAssumption, BoundAssumption DEF ClearClaim, TypeOK, NoToken, NullLease

(* Every step keeps every variable's type. *)
LEMMA LeaseTypeStep == TypeOK /\ [Next]_vars => TypeOK'
<1> SUFFICES ASSUME TypeOK, [Next]_vars PROVE TypeOK'
  OBVIOUS
<1>1. CASE Tick
  BY SMTT(30), <1>1, LeaseAssumption DEF Tick, TypeOK, Aged, CountedDown, claimVars, procVars
<1>2. ASSUME NEW i \in Procs, Survey(i) PROVE TypeOK'
  BY SMTT(30), <1>2, LeaseAssumption, BoundAssumption
     DEF Survey, TypeOK, ClaimOf, Claims, NoClaim, NoToken, NullLease, rowVars, claimVars,
         attemptVars, procVars
<1>3. ASSUME NEW i \in Procs, SurveyReply(i) PROVE TypeOK'
  BY SMTT(30), <1>3, LeaseAssumption, BoundAssumption
     DEF SurveyReply, TypeOK, Record, Claims, NotWatching, NoToken, rowVars, claimVars,
         attemptVars, procVars
<1>4. ASSUME NEW i \in Procs, EndPoll(i) PROVE TypeOK'
  BY SMTT(30), <1>4, LeaseAssumption, BoundAssumption
     DEF EndPoll, PollOver, TypeOK, Claims, NoClaim, NoToken, NullLease, rowVars, claimVars,
         attemptVars, procVars
<1>5. ASSUME NEW i \in Procs, TakeOver(i) \/ ClaimUnclaimed(i) \/ RecoverByDatabaseClock(i)
      PROVE  TypeOK'
  BY <1>5, ClaimType DEF TakeOver, ClaimUnclaimed, RecoverByDatabaseClock
<1>6. ASSUME NEW i \in Procs, Crash(i) \/ Shutdown(i) PROVE TypeOK'
  <2>1. Halt(i) /\ crashes' = crashes + 1 /\ crashes < MaxCrashes
    BY <1>6 DEF Crash, Shutdown
  <2>2. relPending' \in [Tokens -> BOOLEAN]
    BY SMTT(30), <1>6 DEF Crash, Shutdown, TypeOK
  <2> QED BY <2>1, <2>2, HaltType DEF TypeOK
<1>7. ASSUME NEW i \in Procs, Start(i) PROVE TypeOK'
  BY <1>7 DEF Start, TypeOK, rowVars, claimVars, attemptVars, pollVars
<1>8. ASSUME NEW t \in Tokens, StartRenewal(t) PROVE TypeOK'
  <2>1. /\ hb' \in [Tokens -> {"none", "sent", "renewed", "checking"}]
        /\ hbAge' \in [Tokens -> 0..UnrecordedLease]
    BY SMTT(30), <1>8, LeaseAssumption DEF StartRenewal, TypeOK
  <2> QED BY <1>8, <2>1
             DEF StartRenewal, TypeOK, Claims, rowVars, claimVars, procVars, pollVars
<1>9. ASSUME NEW t \in Tokens, ExecuteRenewal(t) PROVE TypeOK'
  <2>1. CASE Fail(t)
    BY <2>1, FailType
  <2>2. CASE /\ Renewed(t)
             /\ hb' = [hb EXCEPT ![t] = "renewed"]
             /\ UNCHANGED <<claimVars, stage, left, hbAge, stray, relPending, procVars, pollVars>>
    <3>1. hb' \in [Tokens -> {"none", "sent", "renewed", "checking"}]
      BY <2>2 DEF TypeOK
    <3> QED BY <2>2, <3>1, RenewedType DEF TypeOK, Claims, claimVars, procVars, pollVars
  <2> QED BY <1>9, <2>1, <2>2 DEF ExecuteRenewal
<1>10. ASSUME NEW t \in Tokens, RenewalAnswered(t) PROVE TypeOK'
  <2>1. Lease[owner[t]] \in 0..UnrecordedLease /\ hbAge[t] \in 0..UnrecordedLease
    BY SMTT(30), LeaseAssumption DEF TypeOK
  <2>2. Remaining(Lease[owner[t]], hbAge[t]) \in 0..UnrecordedLease
    BY <2>1, ClockRange
  <2>3. /\ left' \in [Tokens -> 0..UnrecordedLease]
        /\ hbAge' \in [Tokens -> 0..UnrecordedLease]
        /\ stage' \in [Tokens -> {"unused", "claimed", "working", "failed", "gone"}]
        /\ hb' \in [Tokens -> {"none", "sent", "renewed", "checking"}]
    BY SMTT(30), <1>10, <2>2, LeaseAssumption DEF RenewalAnswered, TypeOK
  <2> QED BY <1>10, <2>3
             DEF RenewalAnswered, TypeOK, Claims, rowVars, claimVars, procVars, pollVars
<1>11. ASSUME NEW t \in Tokens, RenewalTimedOut(t) PROVE TypeOK'
  <2>1. CASE Fail(t)
    BY <2>1, FailType
  <2>2. CASE /\ hb' = [hb EXCEPT ![t] = "checking"]
             /\ hbAge' = [hbAge EXCEPT ![t] = 0]
             /\ \E sent \in {stray[t], stray[t] \/ hb[t] = "sent"} :
                  stray' = [stray EXCEPT ![t] = sent]
             /\ UNCHANGED <<rowVars, claimVars, stage, left, relPending, procVars, pollVars>>
    <3>1. /\ hb' \in [Tokens -> {"none", "sent", "renewed", "checking"}]
          /\ hbAge' \in [Tokens -> 0..UnrecordedLease]
      BY SMTT(30), <2>2, LeaseAssumption DEF TypeOK
    <3>2. PICK sent \in {stray[t], stray[t] \/ hb[t] = "sent"} :
            stray' = [stray EXCEPT ![t] = sent]
      BY <2>2
    <3>3. stray[t] \in BOOLEAN
      BY DEF TypeOK
    <3>4. sent \in BOOLEAN
      BY <3>2, <3>3
    <3>5. stray' \in [Tokens -> BOOLEAN]
      BY <3>2, <3>4 DEF TypeOK
    <3> QED BY <2>2, <3>1, <3>5
               DEF TypeOK, Claims, rowVars, claimVars, procVars, pollVars
  <2> QED BY <1>11, <2>1, <2>2 DEF RenewalTimedOut
<1>12. ASSUME NEW t \in Tokens, ReadToken(t) PROVE TypeOK'
  BY SMTT(30), <1>12, FailType DEF ReadToken, TypeOK, rowVars, claimVars, procVars, pollVars
<1>13. ASSUME NEW t \in Tokens, LeaseOver(t) \/ WorkFails(t) PROVE TypeOK'
  BY <1>13, FailType DEF LeaseOver, WorkFails
<1>14. ASSUME NEW t \in Tokens, WorkCommits(t) PROVE TypeOK'
  BY SMTT(30), <1>14, ClearType, DropType DEF WorkCommits, TypeOK, claimVars, procVars, pollVars
<1>15. ASSUME NEW t \in Tokens, SendRelease(t) \/ LoseRelease(t) PROVE TypeOK'
  <2>1. CASE SendRelease(t)
    BY <2>1
    DEF SendRelease, TypeOK, rowVars, claimVars, attemptVars, procVars, pollVars
  <2>2. CASE LoseRelease(t)
    BY <2>2
    DEF LoseRelease, TypeOK, rowVars, claimVars, attemptVars, procVars, pollVars
  <2> QED BY <1>15, <2>1, <2>2
<1>16. ASSUME NEW t \in Tokens, ExecuteRelease(t) PROVE TypeOK'
  <2>1. row.parked \in BOOLEAN
    BY DEF TypeOK
  <2>2. /\ row' \in [token : Tokens \cup {NoToken}, renewals : 0..MaxRenewals,
                     lease : 0..UnrecordedLease, open : BOOLEAN, parked : BOOLEAN]
        /\ rowAge' \in 0..UnrecordedLease
    BY <1>16, <2>1, ClearType DEF ExecuteRelease, TypeOK, rowVars
  <2> QED BY SMTT(30), <1>16, <2>2, LeaseAssumption
             DEF ExecuteRelease, Released, TypeOK, claimVars, procVars, pollVars
<1>17. ASSUME NEW t \in Tokens, ReleaseExpired(t) PROVE TypeOK'
  BY <1>17, LeaseAssumption
     DEF ReleaseExpired, Released, TypeOK, rowVars, claimVars, procVars, pollVars
<1>18. ASSUME NEW t \in Tokens, ExecuteStray(t) PROVE TypeOK'
  BY SMTT(30), <1>18, RenewedType DEF ExecuteStray, TypeOK, rowVars, claimVars, procVars, pollVars
<1>19. CASE UNCHANGED vars
  BY <1>19 DEF vars, TypeOK, rowVars, claimVars, attemptVars, procVars, pollVars
<1> QED BY <1>1, <1>2, <1>3, <1>4, <1>5, <1>6, <1>7, <1>8, <1>9, <1>10, <1>11, <1>12, <1>13,
           <1>14, <1>15, <1>16, <1>17, <1>18, <1>19
        DEF Next, Poll, Heartbeat, Release

(***************************************************************************)
(* The inductive step of LeaseInv, one group of actions at a time, and the *)
(* theorems.                                                               *)
(***************************************************************************)
(* The numbers of the state are numbers. *)
LEMMA Numbers ==
    ASSUME TypeOK
    PROVE  /\ UnrecordedLease \in Nat /\ rowAge \in Nat /\ issued \in Nat
           /\ row.token \in Nat /\ row.renewals \in Nat
           /\ \A t \in Tokens : /\ t \in Nat /\ t # NoToken
                                /\ left[t] \in Nat /\ hbAge[t] \in Nat
                                /\ Lease[owner[t]] \in Nat /\ Lease[owner[t]] > 0
           /\ \A i \in Procs : watched[i].token \in Nat /\ seen[i].token \in Nat
<1>1. UnrecordedLease \in Nat /\ MaxClaims \in Nat /\ MaxRenewals \in Nat
  BY LeaseAssumption, BoundAssumption
<1>2. rowAge \in Nat /\ issued \in Nat
  BY SMTT(30), <1>1 DEF TypeOK
<1>3. Tokens \cup {NoToken} \subseteq Nat
  BY SMTT(30), <1>1 DEF Tokens, NoToken
<1>4. row.token \in Tokens \cup {NoToken} /\ row.renewals \in 0..MaxRenewals
  BY DEF TypeOK
<1>5. ASSUME NEW t \in Tokens
      PROVE  /\ t \in Nat /\ t # NoToken
             /\ left[t] \in Nat /\ hbAge[t] \in Nat
             /\ Lease[owner[t]] \in Nat /\ Lease[owner[t]] > 0
  <2>1. t \in Nat /\ t # NoToken
    BY SMTT(30), <1>1 DEF Tokens, NoToken
  <2>2. left[t] \in 0..UnrecordedLease /\ hbAge[t] \in 0..UnrecordedLease
    BY DEF TypeOK
  <2>3. owner[t] \in Procs
    BY DEF TypeOK
  <2>4. Lease[owner[t]] \in 1..UnrecordedLease
    BY <2>3, LeaseAssumption
  <2> QED BY SMTT(30), <1>1, <2>1, <2>2, <2>4
<1>6. ASSUME NEW i \in Procs
      PROVE  watched[i].token \in Tokens \cup {NoToken} /\ seen[i].token \in Tokens \cup {NoToken}
  BY DEF TypeOK, Claims
<1>7. \A i \in Procs : watched[i].token \in Nat /\ seen[i].token \in Nat
  BY <1>3, <1>6
<1> QED BY SMTT(30), <1>1, <1>2, <1>3, <1>4, <1>5, <1>7

(* The initial state satisfies the invariant. *)
LEMMA LeaseInitInv == Init => LeaseInv
<1> SUFFICES ASSUME Init PROVE LeaseInv
  OBVIOUS
<1>1. TypeOK
  BY LeaseInitType
<1>2. /\ row.token = issued /\ issued \in Nat /\ row.token \in Nat
      /\ \A t \in Tokens : /\ stage[t] = IF t <= issued THEN "gone" ELSE "unused"
                           /\ hb[t] = "none" /\ ~relPending[t]
  BY SMTT(30), <1>1 DEF Init, TypeOK, Tokens, NoToken
<1>3. \A i \in Procs : watched[i].token = 0 /\ seen[i].token = 0
  <2>1. NotWatching.token = 0 /\ NoClaim.token = 0
    BY DEF NotWatching, NoClaim, NoToken
  <2> QED BY <2>1 DEF Init
<1>4. Fresh
  BY SMTT(30), <1>2, <1>3 DEF Fresh, Tokens
<1>5. Versions /\ ObserversLate
  BY <1>2, <1>3 DEF Versions, ObserversLate, SameVersion, NoToken
<1>6. Phases /\ HolderEarly /\ RenewalHoldsRow /\ LiveLeaseHoldsRow
  BY <1>2 DEF Phases, HolderEarly, RenewalHoldsRow, LiveLeaseHoldsRow, Live, Working
<1> QED BY <1>1, <1>4, <1>5, <1>6 DEF LeaseInv

(* Steps that leave the row alone, extend no lease and start no attempt:   *)
(* what is left of the attempts keeps the invariant.                       *)
LEMMA FewerAttempts ==
    ASSUME LeaseInv, TypeOK',
           row' = row, rowAge' = rowAge, issued' = issued, owner' = owner,
           \A i \in Procs : /\ watched'[i] \in {watched[i], NotWatching}
                            /\ seen'[i] \in {seen[i], NoClaim},
           \A t \in Tokens :
             /\ stage'[t] \in Working => stage[t] \in Working /\ left'[t] = left[t]
             /\ hb'[t] # "none" => stage'[t] \in Working
             /\ hb'[t] = "renewed" => hb[t] = "renewed" /\ hbAge'[t] = hbAge[t]
             /\ relPending'[t] => stage'[t] \notin Working
             /\ t > issued => stage'[t] = "unused" /\ hb'[t] = "none" /\ ~relPending'[t]
    PROVE  LeaseInv'
<1>1. Phases'
  BY DEF Phases
<1>2. NotWatching.token = 0 /\ NoClaim.token = 0
  BY DEF NotWatching, NoClaim, NoToken
<1>3. Fresh'
  <2>1. issued \in Nat
    BY SMTT(30) DEF LeaseInv, TypeOK
  <2>2. \A i \in Procs : watched'[i].token <= issued /\ seen'[i].token <= issued
    BY SMTT(30), <1>2, <2>1 DEF Fresh, LeaseInv
  <2> QED BY <2>2 DEF Fresh, LeaseInv
<1>4. Versions'
  BY SMTT(30), <1>2 DEF Versions, LeaseInv, SameVersion, NoToken
<1>5. ObserversLate'
  BY SMTT(30), <1>2 DEF ObserversLate, LeaseInv, SameVersion, NoToken
<1>6. HolderEarly' /\ RenewalHoldsRow'
  BY DEF HolderEarly, RenewalHoldsRow, LeaseInv
<1>7. LiveLeaseHoldsRow'
  BY DEF LiveLeaseHoldsRow, Live, LeaseInv
<1> QED BY <1>1, <1>3, <1>4, <1>5, <1>6, <1>7 DEF LeaseInv

(* A failed attempt keeps the invariant. *)
LEMMA FailInv ==
    ASSUME LeaseInv, TypeOK', NEW t \in Tokens, stage[t] \in Working, Fail(t)
    PROVE  LeaseInv'
<1>1. /\ row' = row /\ rowAge' = rowAge /\ issued' = issued /\ owner' = owner
      /\ watched' = watched /\ seen' = seen /\ relPending' = relPending
  BY DEF Fail, rowVars, claimVars, pollVars
<1>2. PICK s \in {"failed", "gone"} : Drop(t, s)
  BY DEF Fail
<1>3. \A u \in Tokens \ {t} : /\ stage'[u] = stage[u] /\ left'[u] = left[u]
                              /\ hb'[u] = hb[u] /\ hbAge'[u] = hbAge[u]
  BY SMTT(30), <1>2 DEF Drop, LeaseInv, TypeOK
<1>4. stage'[t] = s /\ s \notin Working /\ hb'[t] = "none"
  BY SMTT(30), <1>2 DEF Drop, LeaseInv, TypeOK, Working
<1>5. ~(t > issued)
  BY DEF LeaseInv, Fresh, Working
<1>6. \A u \in Tokens :
        /\ stage'[u] \in Working => stage[u] \in Working /\ left'[u] = left[u]
        /\ hb'[u] # "none" => stage'[u] \in Working
        /\ hb'[u] = "renewed" => hb[u] = "renewed" /\ hbAge'[u] = hbAge[u]
        /\ relPending'[u] => stage'[u] \notin Working
        /\ u > issued => stage'[u] = "unused" /\ hb'[u] = "none" /\ ~relPending'[u]
  BY <1>1, <1>3, <1>4, <1>5 DEF LeaseInv, Fresh, Phases
<1> QED BY <1>1, <1>6, FewerAttempts

(* A step that changes an attempt's heartbeat only, and no renewal that    *)
(* was executed, keeps the invariant.                                      *)
LEMMA HeartbeatInv ==
    ASSUME LeaseInv, TypeOK', NEW t \in Tokens, stage[t] \in Working,
           UNCHANGED <<rowVars, claimVars, stage, left, relPending, pollVars>>,
           hb'[t] # "renewed",
           \A u \in Tokens \ {t} : hb'[u] = hb[u] /\ hbAge'[u] = hbAge[u]
    PROVE  LeaseInv'
<1>1. /\ row' = row /\ rowAge' = rowAge /\ issued' = issued /\ owner' = owner
      /\ watched' = watched /\ seen' = seen /\ relPending' = relPending
      /\ stage' = stage /\ left' = left
  BY DEF rowVars, claimVars, pollVars
<1>2. ~(t > issued)
  BY DEF LeaseInv, Fresh, Working
<1>3. \A u \in Tokens :
        /\ stage'[u] \in Working => stage[u] \in Working /\ left'[u] = left[u]
        /\ hb'[u] # "none" => stage'[u] \in Working
        /\ hb'[u] = "renewed" => hb[u] = "renewed" /\ hbAge'[u] = hbAge[u]
        /\ relPending'[u] => stage'[u] \notin Working
        /\ u > issued => stage'[u] = "unused" /\ hb'[u] = "none" /\ ~relPending'[u]
  BY <1>1, <1>2 DEF LeaseInv, Fresh, Phases
<1> QED BY <1>1, <1>3, FewerAttempts

(* A process that stops keeps the invariant. *)
LEMMA HaltInv ==
    ASSUME LeaseInv, TypeOK', NEW i \in Procs, Crash(i) \/ Shutdown(i)
    PROVE  LeaseInv'
<1>1. Halt(i)
  BY DEF Crash, Shutdown
<1>2. row' = row /\ rowAge' = rowAge /\ issued' = issued /\ owner' = owner
  BY <1>1 DEF Halt, rowVars, claimVars
<1>3. \A j \in Procs : /\ watched'[j] \in {watched[j], NotWatching}
                       /\ seen'[j] \in {seen[j], NoClaim}
  BY SMTT(30), <1>1 DEF Halt, PollOver, LeaseInv, TypeOK
<1>4. ASSUME NEW t \in Tokens
      PROVE  /\ stage'[t] \in Working => stage[t] \in Working /\ left'[t] = left[t]
             /\ hb'[t] # "none" => stage'[t] \in Working
             /\ hb'[t] = "renewed" => hb[t] = "renewed" /\ hbAge'[t] = hbAge[t]
             /\ relPending'[t] => stage'[t] \notin Working
             /\ t > issued => stage'[t] = "unused" /\ hb'[t] = "none" /\ ~relPending'[t]
  <2>1. CASE t \in Own(i)
    <3>1. stage'[t] = "gone" /\ hb'[t] = "none"
      BY <1>1, <2>1 DEF Halt
    <3>2. ~(t > issued)
      BY <2>1 DEF Own, LeaseInv, Fresh
    <3> QED BY <3>1, <3>2 DEF Working
  <2>2. CASE t \notin Own(i)
    <3>1. /\ stage'[t] = stage[t] /\ hb'[t] = hb[t] /\ left'[t] = left[t]
          /\ hbAge'[t] = hbAge[t]
      BY <1>1, <2>2 DEF Halt
    <3>2. relPending'[t] => relPending[t]
      BY <2>2 DEF Crash, Shutdown
    <3> QED BY <3>1, <3>2 DEF LeaseInv, Fresh, Phases
  <2> QED BY <2>1, <2>2
<1> QED BY <1>2, <1>3, <1>4, FewerAttempts

(* What a step reads of the row, and when, keeps the invariant.            *)
LEMMA PollInv ==
    ASSUME LeaseInv, TypeOK', NEW i \in Procs, Survey(i) \/ SurveyReply(i) \/ EndPoll(i)
    PROVE  LeaseInv'
<1>1. /\ row' = row /\ rowAge' = rowAge /\ issued' = issued /\ owner' = owner
      /\ relPending' = relPending /\ stage' = stage /\ left' = left /\ hb' = hb
      /\ hbAge' = hbAge
  BY DEF Survey, SurveyReply, EndPoll, rowVars, claimVars, attemptVars
<1>2. Phases' /\ HolderEarly' /\ RenewalHoldsRow' /\ LiveLeaseHoldsRow'
  BY <1>1 DEF LeaseInv, Phases, HolderEarly, RenewalHoldsRow, LiveLeaseHoldsRow, Live
<1>3. NotWatching.token = 0 /\ NoClaim.token = 0 /\ NoToken = 0
  BY DEF NotWatching, NoClaim, NoToken
<1>4. ASSUME NEW j \in Procs
      PROVE  /\ \/ seen'[j] = seen[j] \/ seen'[j].token = 0
                \/ /\ seen'[j].token = row.token /\ seen'[j].renewals = row.renewals
                   /\ seen'[j].lease = row.lease
             /\ \/ watched'[j] = watched[j] \/ watched'[j].token = 0
                \/ /\ watched'[j].token = seen[j].token
                   /\ watched'[j].renewals = seen[j].renewals
                   /\ watched'[j].age = 0
  <2>1. CASE Survey(i)
    <3>1. watched' = watched /\ seen' = [seen EXCEPT ![i] = ClaimOf(row)]
      BY <2>1 DEF Survey
    <3>2. \/ ClaimOf(row).token = 0
          \/ /\ ClaimOf(row).token = row.token /\ ClaimOf(row).renewals = row.renewals
             /\ ClaimOf(row).lease = row.lease
      BY <1>3 DEF ClaimOf
    <3> QED BY SMTT(30), <3>1, <3>2 DEF LeaseInv, TypeOK
  <2>2. CASE SurveyReply(i)
    <3>1. seen' = seen /\ watched' = [watched EXCEPT ![i] = Record(watched[i], seen[i])]
      BY <2>2 DEF SurveyReply
    <3>2. \/ Record(watched[i], seen[i]) = watched[i]
          \/ Record(watched[i], seen[i]).token = 0
          \/ /\ Record(watched[i], seen[i]).token = seen[i].token
             /\ Record(watched[i], seen[i]).renewals = seen[i].renewals
             /\ Record(watched[i], seen[i]).age = 0
      BY <1>3 DEF Record
    <3> QED BY SMTT(30), <3>1, <3>2 DEF LeaseInv, TypeOK
  <2>3. CASE EndPoll(i)
    <3>1. watched' = watched /\ seen' = [seen EXCEPT ![i] = NoClaim]
      BY <2>3 DEF EndPoll, PollOver
    <3> QED BY SMTT(30), <1>3, <3>1 DEF LeaseInv, TypeOK
  <2> QED BY <2>1, <2>2, <2>3
<1>5. issued \in Nat /\ row.token \in Nat /\ row.renewals \in Nat /\ rowAge \in Nat
  BY Numbers DEF LeaseInv
<1>6. Fresh'
  BY SMTT(30), <1>1, <1>4, <1>5 DEF LeaseInv, Fresh
<1>7. Versions'
  BY SMTT(30), <1>1, <1>3, <1>4, <1>5 DEF LeaseInv, Versions, SameVersion
<1>8. ObserversLate'
  BY SMTT(30), <1>1, <1>3, <1>4, <1>5 DEF LeaseInv, ObserversLate, SameVersion
<1> QED BY <1>2, <1>6, <1>7, <1>8 DEF LeaseInv

(* Time moves every clock together: an age that was not larger is not      *)
(* larger, and a rest that fitted in the lease still fits.                 *)
LEMMA TickInv == ASSUME LeaseInv, TypeOK', Tick PROVE LeaseInv'
<1>1. /\ row' = row /\ issued' = issued /\ owner' = owner /\ relPending' = relPending
      /\ stage' = stage /\ hb' = hb /\ seen' = seen /\ rowAge' = Aged(rowAge)
      /\ \A t \in Tokens :
           /\ left'[t] = CountedDown(left[t])
           /\ hb[t] = "renewed" => hbAge'[t] = Aged(hbAge[t])
      /\ \A i \in Procs :
           /\ watched'[i].token = watched[i].token
           /\ watched'[i].renewals = watched[i].renewals
           /\ watched'[i].age = Aged(watched[i].age)
  BY DEF Tick, claimVars
<1>2. /\ UnrecordedLease \in Nat /\ rowAge \in 0..UnrecordedLease
      /\ \A t \in Tokens : /\ left[t] \in 0..UnrecordedLease
                           /\ hbAge[t] \in 0..UnrecordedLease
                           /\ Lease[owner[t]] \in 1..UnrecordedLease
      /\ \A i \in Procs : watched[i].age \in 0..UnrecordedLease
  BY SMTT(30), LeaseAssumption DEF LeaseInv, TypeOK
<1>3. Fresh' /\ Phases' /\ Versions'
  BY <1>1 DEF LeaseInv, Fresh, Phases, Versions, SameVersion
<1>4. ObserversLate'
  BY SMTT(30), <1>1, <1>2 DEF LeaseInv, ObserversLate, SameVersion, Aged
<1>5. HolderEarly'
  <2> SUFFICES ASSUME NEW t \in Tokens, row.token = t, stage[t] \in Working
               PROVE  /\ row.lease = Lease[owner[t]]
                      /\ left'[t] > 0 => left'[t] + rowAge' <= Lease[owner[t]]
                      /\ hb[t] = "renewed" => rowAge' <= hbAge'[t]
    BY <1>1 DEF HolderEarly
  <2> QED BY SMTT(30), <1>1, <1>2 DEF LeaseInv, HolderEarly, Aged, CountedDown
<1>6. RenewalHoldsRow'
  BY SMTT(30), <1>1, <1>2 DEF LeaseInv, RenewalHoldsRow, Aged
<1>7. LiveLeaseHoldsRow'
  BY SMTT(30), <1>1, <1>2 DEF LeaseInv, LiveLeaseHoldsRow, Live, CountedDown
<1> QED BY <1>3, <1>4, <1>5, <1>6, <1>7 DEF LeaseInv

(* When the row's version is a lease old, its holder knows that its lease  *)
(* has ended, and a renewal still to be answered will not extend it.       *)
LEMMA OldVersionIsOver ==
    ASSUME LeaseInv, row.token = NoToken \/ DatabaseLeaseOver
    PROVE  \A t \in Tokens : /\ ~Live(t)
                             /\ hb[t] = "renewed" => hbAge[t] >= Lease[owner[t]]
<1> SUFFICES ASSUME NEW t \in Tokens
             PROVE  ~Live(t) /\ (hb[t] = "renewed" => hbAge[t] >= Lease[owner[t]])
  OBVIOUS
<1>1. /\ rowAge \in Nat /\ left[t] \in Nat /\ hbAge[t] \in Nat
      /\ Lease[owner[t]] \in Nat \ {0} /\ t # NoToken
  BY SMTT(30), Numbers DEF LeaseInv
<1>2. CASE row.token # t
  BY SMTT(30), <1>1, <1>2 DEF LeaseInv, LiveLeaseHoldsRow, RenewalHoldsRow
<1>3. CASE row.token = t /\ stage[t] \in Working
  <2>1. rowAge >= Lease[owner[t]]
    BY <1>1, <1>3 DEF DatabaseLeaseOver, LeaseOf, NullLease, LeaseInv, HolderEarly
  <2> QED BY SMTT(30), <1>1, <1>3, <2>1 DEF LeaseInv, HolderEarly, Live
<1>4. CASE stage[t] \notin Working
  BY <1>4 DEF LeaseInv, Phases, Live
<1> QED BY <1>2, <1>3, <1>4

(* A claim made when nobody's lease is live keeps the invariant: the token *)
(* is new to everybody, and the lease is counted from before the commit.   *)
LEMMA ClaimInv ==
    ASSUME LeaseInv, TypeOK', NEW i \in Procs, Claim(i),
           row.token = NoToken \/ DatabaseLeaseOver
    PROVE  LeaseInv'
<1> DEFINE n == issued + 1
<1>1. /\ n \in Tokens /\ issued \in Nat /\ n > issued /\ issued' = n
      /\ row'.token = n /\ row'.renewals = 0 /\ row'.lease = Lease[i] /\ rowAge' = 0
      /\ owner'[n] = i /\ hb' = hb /\ hbAge' = hbAge /\ relPending' = relPending
      /\ watched' = watched
  BY SMTT(30) DEF Claim, WriteClaim, LeaseInv, TypeOK, Tokens
<1>2. \A t \in Tokens \ {n} : /\ owner'[t] = owner[t] /\ stage'[t] = stage[t]
                              /\ left'[t] = left[t]
  BY SMTT(30), <1>1 DEF Claim, LeaseInv, TypeOK
<1>3. /\ \A j \in Procs : seen'[j] \in {seen[j], NoClaim}
      /\ NoClaim.token = 0 /\ NoToken = 0
  BY SMTT(30) DEF Claim, PollOver, NoClaim, NoToken, LeaseInv, TypeOK
<1>4. \A j \in Procs : /\ watched[j].token <= issued /\ watched[j].token \in Nat
                       /\ seen'[j].token <= issued /\ seen'[j].token \in Nat
  <2>1. \A j \in Procs : /\ watched[j].token <= issued /\ watched[j].token \in Nat
                         /\ seen[j].token <= issued /\ seen[j].token \in Nat
    BY Numbers DEF LeaseInv, Fresh
  <2> QED BY SMTT(30), <1>1, <1>3, <2>1
<1>5. /\ \A t \in Tokens : t \in Nat /\ (t > n => t > issued /\ t # n)
      /\ stage'[n] \in {"claimed", "gone"}
      /\ hb[n] = "none" /\ ~relPending[n]
  BY SMTT(30), <1>1 DEF Claim, LeaseInv, Fresh, TypeOK, Tokens
<1>6. Fresh'
  BY SMTT(30), <1>1, <1>2, <1>4, <1>5 DEF LeaseInv, Fresh
<1>7. Phases'
  BY <1>1, <1>2, <1>5 DEF LeaseInv, Phases
<1>8. Versions' /\ ObserversLate'
  BY SMTT(30), <1>1, <1>4 DEF Versions, ObserversLate, SameVersion
<1>9. HolderEarly'
  <2>1. Lease[i] \in 1..UnrecordedLease /\ began[i] \in 0..UnrecordedLease
    BY SMTT(30), LeaseAssumption DEF LeaseInv, TypeOK
  <2>2. stage'[n] \in Working => left'[n] = Remaining(Lease[i], began[i])
    BY SMTT(30), <1>1 DEF Claim, LeaseInv, TypeOK, Working
  <2>3. Remaining(Lease[i], began[i]) + 0 <= Lease[i]
    BY SMTT(30), <2>1, LeaseAssumption DEF Remaining
  <2> QED BY <1>1, <1>5, <2>2, <2>3 DEF HolderEarly
<1>10. RenewalHoldsRow'
  <2>1. \A t \in Tokens : /\ hb[t] = "renewed" => hbAge[t] >= Lease[owner[t]]
                          /\ hbAge[t] \in Nat /\ Lease[owner[t]] \in Nat
    BY OldVersionIsOver, Numbers DEF LeaseInv
  <2> QED BY SMTT(30), <1>1, <1>2, <1>5, <2>1 DEF RenewalHoldsRow
<1>11. LiveLeaseHoldsRow'
  BY <1>1, <1>2, OldVersionIsOver DEF LiveLeaseHoldsRow, Live
<1> QED BY <1>6, <1>7, <1>8, <1>9, <1>10, <1>11 DEF LeaseInv

(* A renewal makes a version nobody has read yet.  The lease of its holder *)
(* is counted from an instant before this commit, now as much as before.   *)
LEMMA RenewedInv ==
    ASSUME LeaseInv, TypeOK', NEW t \in Tokens, Renewed(t),
           UNCHANGED <<claimVars, stage, left, hbAge, relPending, pollVars>>,
           hb'[t] = hb[t] \/ (hb[t] # "none" /\ hb'[t] = "renewed"),
           \A u \in Tokens \ {t} : hb'[u] = hb[u]
    PROVE  LeaseInv'
<1>1. /\ issued' = issued /\ owner' = owner /\ stage' = stage /\ left' = left
      /\ hbAge' = hbAge /\ relPending' = relPending /\ seen' = seen /\ watched' = watched
  BY DEF claimVars, pollVars
<1>2. /\ row.token = t /\ row'.token = t /\ row'.renewals = row.renewals + 1
      /\ row'.lease = Lease[owner[t]] /\ rowAge' = 0
  BY DEF Renewed, Holds, WriteClaim
<1>3. /\ issued \in Nat /\ row.renewals \in Nat /\ rowAge \in Nat /\ t # NoToken
      /\ \A u \in Tokens : left[u] \in Nat /\ hbAge[u] \in Nat /\ Lease[owner[u]] \in Nat
  BY Numbers DEF LeaseInv
<1>4. Fresh'
  BY SMTT(30), <1>1, <1>2 DEF LeaseInv, Fresh
<1>5. Phases'
  BY <1>1 DEF LeaseInv, Phases
<1>6. \A i \in Procs :
        /\ watched[i].token = t => watched[i].renewals <= row.renewals
        /\ seen[i].token = t => seen[i].renewals <= row.renewals
  BY <1>2, <1>3 DEF LeaseInv, Versions
<1>7. \A i \in Procs : watched[i].renewals \in Nat /\ seen[i].renewals \in Nat
  BY SMTT(30), BoundAssumption DEF LeaseInv, TypeOK, Claims
<1>8. Versions'
  BY SMTT(30), <1>1, <1>2, <1>3, <1>6, <1>7 DEF Versions, SameVersion
<1>9. ObserversLate'
  BY SMTT(30), <1>1, <1>2, <1>3, <1>6, <1>7 DEF ObserversLate, SameVersion
<1>10. HolderEarly'
  BY SMTT(30), <1>1, <1>2, <1>3 DEF LeaseInv, HolderEarly
<1>11. RenewalHoldsRow' /\ LiveLeaseHoldsRow'
  BY <1>1, <1>2 DEF LeaseInv, RenewalHoldsRow, LiveLeaseHoldsRow, Live
<1> QED BY <1>4, <1>5, <1>8, <1>9, <1>10, <1>11 DEF LeaseInv

(* A claim is given up, by an attempt that ends or a release after it.     *)
LEMMA ClearedInv ==
    ASSUME LeaseInv, TypeOK', NEW t \in Tokens, row.token = t, row'.token = NoToken,
           UNCHANGED <<claimVars, pollVars>>,
           stage'[t] \notin Working, hb'[t] = "none", ~(t > issued),
           relPending' = relPending \/ relPending' = [relPending EXCEPT ![t] = FALSE],
           \A u \in Tokens \ {t} : /\ stage'[u] = stage[u] /\ left'[u] = left[u]
                                   /\ hb'[u] = hb[u] /\ hbAge'[u] = hbAge[u]
    PROVE  LeaseInv'
<1>1. /\ issued' = issued /\ owner' = owner /\ seen' = seen /\ watched' = watched
  BY DEF claimVars, pollVars
<1>2. \A u \in Tokens \ {t} : relPending'[u] = relPending[u]
  BY SMTT(30) DEF LeaseInv, TypeOK
<1>3. /\ issued \in Nat /\ NoToken = 0 /\ \A u \in Tokens : u # NoToken
  BY Numbers DEF LeaseInv, NoToken
<1>4. Fresh'
  BY SMTT(30), <1>1, <1>2, <1>3 DEF LeaseInv, Fresh
<1>5. Phases'
  BY <1>1, <1>2 DEF LeaseInv, Phases
<1>6. Versions' /\ ObserversLate' /\ HolderEarly'
  BY <1>3 DEF Versions, ObserversLate, HolderEarly
<1>7. RenewalHoldsRow'
  BY SMTT(30), <1>1 DEF LeaseInv, RenewalHoldsRow
<1>8. LiveLeaseHoldsRow'
  BY <1>1 DEF LeaseInv, LiveLeaseHoldsRow, Live
<1> QED BY <1>4, <1>5, <1>6, <1>7, <1>8 DEF LeaseInv

(* An answered renewal extends the lease to its end counted from the start *)
(* of the renewal: if that is still ahead, the row carries the renewal.    *)
LEMMA AnsweredInv ==
    ASSUME LeaseInv, TypeOK', NEW t \in Tokens, RenewalAnswered(t)
    PROVE  LeaseInv'
<1>1. /\ row' = row /\ rowAge' = rowAge /\ issued' = issued /\ owner' = owner
      /\ watched' = watched /\ seen' = seen /\ relPending' = relPending
  BY DEF RenewalAnswered, rowVars, claimVars, pollVars
<1>2. /\ stage'[t] = "working" /\ hb'[t] = "none"
      /\ left'[t] = Remaining(Lease[owner[t]], hbAge[t])
  BY SMTT(30) DEF RenewalAnswered, LeaseInv, TypeOK
<1>3. \A u \in Tokens \ {t} : /\ stage'[u] = stage[u] /\ left'[u] = left[u]
                              /\ hb'[u] = hb[u] /\ hbAge'[u] = hbAge[u]
  BY SMTT(30) DEF RenewalAnswered, LeaseInv, TypeOK
<1>4. hb[t] = "renewed" /\ stage[t] \in Working /\ ~relPending[t] /\ ~(t > issued)
  BY DEF RenewalAnswered, LeaseInv, Phases, Fresh, Working
<1>5. /\ rowAge \in Nat /\ hbAge[t] \in Nat /\ Lease[owner[t]] \in Nat
  BY Numbers DEF LeaseInv
<1>6. Fresh'
  BY <1>1, <1>3, <1>4 DEF LeaseInv, Fresh
<1>7. Phases'
  BY <1>1, <1>2, <1>3, <1>4 DEF LeaseInv, Phases
<1>8. Versions' /\ ObserversLate'
  BY <1>1 DEF LeaseInv, Versions, ObserversLate
<1>9. HolderEarly'
  <2>1. row.token = t => /\ row.lease = Lease[owner[t]]
                         /\ left'[t] > 0 => left'[t] + rowAge <= Lease[owner[t]]
    BY SMTT(30), <1>2, <1>4, <1>5 DEF LeaseInv, HolderEarly, Remaining
  <2> QED BY SMTT(30), <1>1, <1>2, <1>3, <2>1 DEF LeaseInv, HolderEarly
<1>10. RenewalHoldsRow'
  BY <1>1, <1>2, <1>3 DEF LeaseInv, RenewalHoldsRow
<1>11. LiveLeaseHoldsRow'
  <2>1. left'[t] > 0 => row.token = t
    BY SMTT(30), <1>2, <1>4, <1>5 DEF LeaseInv, RenewalHoldsRow, Remaining
  <2> QED BY <1>1, <1>3, <2>1 DEF LeaseInv, LiveLeaseHoldsRow, Live
<1> QED BY <1>6, <1>7, <1>8, <1>9, <1>10, <1>11 DEF LeaseInv

(* The steps of a release that do not write the row keep the invariant. *)
LEMMA ReleaseStepInv ==
    ASSUME LeaseInv, TypeOK', NEW t \in Tokens,
           SendRelease(t) \/ LoseRelease(t) \/ ReleaseExpired(t)
    PROVE  LeaseInv'
<1>1. /\ row' = row /\ rowAge' = rowAge /\ issued' = issued /\ owner' = owner
      /\ watched' = watched /\ seen' = seen /\ hb' = hb /\ hbAge' = hbAge
  BY DEF SendRelease, LoseRelease, ReleaseExpired, rowVars, claimVars, attemptVars, pollVars
<1>2. \A u \in Tokens \ {t} : /\ stage'[u] = stage[u] /\ left'[u] = left[u]
                              /\ relPending'[u] = relPending[u]
  BY SMTT(30) DEF SendRelease, LoseRelease, ReleaseExpired, Released, attemptVars, LeaseInv, TypeOK
<1>3. /\ (stage[t] \notin Working /\ hb[t] = "none" /\ stage[t] # "unused") \/ ~relPending'[t]
      /\ stage'[t] \notin Working \/ (stage'[t] = stage[t] /\ left'[t] = left[t])
      /\ stage'[t] # stage[t] => stage[t] = "failed" /\ stage'[t] = "gone"
      /\ relPending'[t] => relPending[t] \/ stage[t] = "failed"
  BY SMTT(30) DEF SendRelease, LoseRelease, ReleaseExpired, Released, attemptVars, LeaseInv, TypeOK,
         Phases, Fresh, Working
<1>4. \A u \in Tokens :
        /\ stage'[u] \in Working => stage[u] \in Working /\ left'[u] = left[u]
        /\ hb'[u] # "none" => stage'[u] \in Working
        /\ hb'[u] = "renewed" => hb[u] = "renewed" /\ hbAge'[u] = hbAge[u]
        /\ relPending'[u] => stage'[u] \notin Working
        /\ u > issued => stage'[u] = "unused" /\ hb'[u] = "none" /\ ~relPending'[u]
  BY SMTT(30), <1>1, <1>2, <1>3 DEF LeaseInv, Fresh, Phases, Working
<1> QED BY <1>1, <1>4, FewerAttempts

(* A release that is executed keeps the invariant: its attempt is over. *)
LEMMA ExecuteReleaseInv ==
    ASSUME LeaseInv, TypeOK', NEW t \in Tokens, ExecuteRelease(t)
    PROVE  LeaseInv'
<1>1. /\ UNCHANGED <<claimVars, pollVars>> /\ hb' = hb /\ hbAge' = hbAge
      /\ relPending' = [relPending EXCEPT ![t] = FALSE]
  BY DEF ExecuteRelease
<1>2. stage[t] \notin Working /\ hb[t] = "none" /\ ~(t > issued)
  BY DEF ExecuteRelease, LeaseInv, Phases, Fresh
<1>3. /\ stage'[t] \in {"gone", stage[t]}
      /\ \A u \in Tokens \ {t} : stage'[u] = stage[u] /\ left'[u] = left[u]
  BY SMTT(30) DEF ExecuteRelease, Released, LeaseInv, TypeOK
<1>4. stage'[t] \notin Working
  BY <1>2, <1>3 DEF Working
<1>5. CASE Holds(t) /\ ClearClaim(TRUE, row.parked)
  <2>1. row.token = t /\ row'.token = NoToken
    BY <1>5 DEF Holds, ClearClaim
  <2> QED BY <1>1, <1>2, <1>3, <1>4, <2>1, ClearedInv
<1>6. CASE UNCHANGED rowVars
  <2>1. /\ row' = row /\ rowAge' = rowAge /\ issued' = issued /\ owner' = owner
        /\ watched' = watched /\ seen' = seen
    BY <1>1, <1>6 DEF rowVars, claimVars, pollVars
  <2>2. \A u \in Tokens \ {t} : relPending'[u] = relPending[u]
    BY SMTT(30), <1>1 DEF LeaseInv, TypeOK
  <2>3. \A u \in Tokens :
          /\ stage'[u] \in Working => stage[u] \in Working /\ left'[u] = left[u]
          /\ hb'[u] # "none" => stage'[u] \in Working
          /\ hb'[u] = "renewed" => hb[u] = "renewed" /\ hbAge'[u] = hbAge[u]
          /\ relPending'[u] => stage'[u] \notin Working
          /\ u > issued => stage'[u] = "unused" /\ hb'[u] = "none" /\ ~relPending'[u]
    BY <1>1, <1>2, <1>3, <1>4, <2>2 DEF LeaseInv, Fresh, Phases
  <2> QED BY <2>1, <2>3, FewerAttempts
<1> QED BY <1>5, <1>6 DEF ExecuteRelease

(* A version an observer has timed for a lease is at least a lease old. *)
LEMMA TimedVersionIsOld ==
    ASSUME LeaseInv, NEW i \in Procs, TakeOver(i)
    PROVE  DatabaseLeaseOver
<1>1. /\ seen[i].token # NoToken /\ SameVersion(row, seen[i])
      /\ SameVersion(watched[i], seen[i]) /\ watched[i].age >= LeaseOf(seen[i].lease)
  BY DEF TakeOver, Expired
<1>2. seen[i].lease = row.lease
  BY <1>1 DEF LeaseInv, Versions, SameVersion
<1>3. watched[i].age <= rowAge
  BY <1>1 DEF LeaseInv, ObserversLate, SameVersion
<1>4. watched[i].age \in 0..UnrecordedLease /\ row.lease \in 0..UnrecordedLease
  BY DEF LeaseInv, TypeOK
<1>5. rowAge \in Nat /\ UnrecordedLease \in Nat
  BY Numbers DEF LeaseInv
<1> QED BY SMTT(30), <1>1, <1>2, <1>3, <1>4, <1>5 DEF DatabaseLeaseOver, LeaseOf

(* Every claim is made of a row that is unclaimed or a lease old. *)
LEMMA ClaimsAreOld ==
    ASSUME LeaseInv, NEW i \in Procs,
           TakeOver(i) \/ ClaimUnclaimed(i) \/ RecoverByDatabaseClock(i)
    PROVE  Claim(i) /\ (row.token = NoToken \/ DatabaseLeaseOver)
BY TimedVersionIsOld DEF TakeOver, ClaimUnclaimed, RecoverByDatabaseClock

(* The invariant is inductive. *)
LEMMA LeaseStep == LeaseInv /\ [Next]_vars => LeaseInv'
<1> SUFFICES ASSUME LeaseInv, [Next]_vars PROVE LeaseInv'
  OBVIOUS
<1>0. TypeOK'
  BY LeaseTypeStep DEF LeaseInv
<1>1. CASE Tick
  BY <1>0, <1>1, TickInv
<1>2. ASSUME NEW i \in Procs, Survey(i) \/ SurveyReply(i) \/ EndPoll(i) PROVE LeaseInv'
  BY <1>0, <1>2, PollInv
<1>3. ASSUME NEW i \in Procs, TakeOver(i) \/ ClaimUnclaimed(i) \/ RecoverByDatabaseClock(i)
      PROVE  LeaseInv'
  BY <1>0, <1>3, ClaimInv, ClaimsAreOld
<1>4. ASSUME NEW i \in Procs, Crash(i) \/ Shutdown(i) PROVE LeaseInv'
  BY <1>0, <1>4, HaltInv
<1>5. CASE \/ \E i \in Procs : Start(i)
           \/ UNCHANGED vars
  <2>1. /\ row' = row /\ rowAge' = rowAge /\ issued' = issued /\ owner' = owner
        /\ watched' = watched /\ seen' = seen /\ relPending' = relPending
        /\ stage' = stage /\ left' = left /\ hb' = hb /\ hbAge' = hbAge
    BY <1>5 DEF Start, vars, rowVars, claimVars, attemptVars, pollVars
  <2> QED BY <1>0, <2>1 DEF LeaseInv, Fresh, Phases, Versions, ObserversLate, HolderEarly,
             RenewalHoldsRow, LiveLeaseHoldsRow, Live
<1>6. ASSUME NEW t \in Tokens, StartRenewal(t) PROVE LeaseInv'
  <2>1. stage[t] \in Working
    BY <1>6 DEF StartRenewal, Working
  <2>2. /\ hb'[t] # "renewed"
        /\ \A u \in Tokens \ {t} : hb'[u] = hb[u] /\ hbAge'[u] = hbAge[u]
    BY <1>6 DEF StartRenewal, LeaseInv, TypeOK
  <2>3. UNCHANGED <<rowVars, claimVars, stage, left, relPending, pollVars>>
    BY <1>6 DEF StartRenewal
  <2> QED BY <1>0, <2>1, <2>2, <2>3, HeartbeatInv
<1>7. ASSUME NEW t \in Tokens, ExecuteRenewal(t) PROVE LeaseInv'
  <2>1. hb[t] = "sent" /\ stage[t] \in Working
    BY <1>7 DEF ExecuteRenewal, LeaseInv, Phases
  <2>2. CASE Fail(t)
    BY <1>0, <2>1, <2>2, FailInv
  <2>3. CASE /\ Renewed(t)
             /\ hb' = [hb EXCEPT ![t] = "renewed"]
             /\ UNCHANGED <<claimVars, stage, left, hbAge, stray, relPending, procVars, pollVars>>
    <3>1. hb'[t] = "renewed" /\ \A u \in Tokens \ {t} : hb'[u] = hb[u]
      BY <2>3 DEF LeaseInv, TypeOK
    <3> QED BY <1>0, <2>1, <2>3, <3>1, RenewedInv
  <2> QED BY <1>7, <2>2, <2>3 DEF ExecuteRenewal
<1>8. ASSUME NEW t \in Tokens, RenewalAnswered(t) PROVE LeaseInv'
  BY <1>0, <1>8, AnsweredInv
<1>9. ASSUME NEW t \in Tokens, RenewalTimedOut(t) PROVE LeaseInv'
  <2>1. stage[t] \in Working
    BY <1>9 DEF RenewalTimedOut, LeaseInv, Phases
  <2>2. CASE Fail(t)
    BY <1>0, <2>1, <2>2, FailInv
  <2>3. CASE ~Fail(t)
    <3>1. /\ UNCHANGED <<rowVars, claimVars, stage, left, relPending, pollVars>>
          /\ hb' = [hb EXCEPT ![t] = "checking"]
          /\ hbAge' = [hbAge EXCEPT ![t] = 0]
      BY <1>9, <2>3 DEF RenewalTimedOut
    <3>2. /\ hb'[t] # "renewed"
          /\ \A u \in Tokens \ {t} : hb'[u] = hb[u] /\ hbAge'[u] = hbAge[u]
      BY SMTT(30), <3>1 DEF LeaseInv, TypeOK
    <3> QED BY <1>0, <2>1, <3>1, <3>2, HeartbeatInv
  <2> QED BY <2>2, <2>3
<1>10. ASSUME NEW t \in Tokens, ReadToken(t) PROVE LeaseInv'
  <2>1. stage[t] \in Working
    BY <1>10 DEF ReadToken, LeaseInv, Phases
  <2>2. CASE Fail(t)
    BY <1>0, <2>1, <2>2, FailInv
  <2>3. CASE ~Fail(t)
    <3>1. /\ UNCHANGED <<rowVars, claimVars, stage, left, relPending, pollVars>>
          /\ hb' = [hb EXCEPT ![t] = "none"]
          /\ hbAge' = hbAge
      BY <1>10, <2>3 DEF ReadToken
    <3>2. /\ hb'[t] # "renewed"
          /\ \A u \in Tokens \ {t} : hb'[u] = hb[u] /\ hbAge'[u] = hbAge[u]
      BY <3>1 DEF LeaseInv, TypeOK
    <3> QED BY <1>0, <2>1, <3>1, <3>2, HeartbeatInv
  <2> QED BY <2>2, <2>3
<1>11. ASSUME NEW t \in Tokens, LeaseOver(t) \/ WorkFails(t) PROVE LeaseInv'
  BY <1>0, <1>11, FailInv DEF LeaseOver, WorkFails, Working
<1>12. ASSUME NEW t \in Tokens, WorkCommits(t) PROVE LeaseInv'
  <2>1. /\ row.token = t /\ row'.token = NoToken
        /\ UNCHANGED <<claimVars, pollVars>> /\ relPending' = relPending
    BY SMTT(30), <1>12 DEF WorkCommits, Holds, ClearClaim
  <2>2. PICK s \in {"gone", "failed"} : Drop(t, s)
    BY <1>12 DEF WorkCommits
  <2>3. /\ stage'[t] \notin Working /\ hb'[t] = "none"
        /\ \A u \in Tokens \ {t} : /\ stage'[u] = stage[u] /\ left'[u] = left[u]
                                   /\ hb'[u] = hb[u] /\ hbAge'[u] = hbAge[u]
    BY SMTT(30), <2>2 DEF Drop, LeaseInv, TypeOK, Working
  <2>4. ~(t > issued)
    BY <1>12 DEF WorkCommits, LeaseInv, Fresh
  <2> QED BY <1>0, <2>1, <2>3, <2>4, ClearedInv
<1>13. ASSUME NEW t \in Tokens, SendRelease(t) \/ LoseRelease(t) \/ ReleaseExpired(t)
       PROVE  LeaseInv'
  BY <1>0, <1>13, ReleaseStepInv
<1>14. ASSUME NEW t \in Tokens, ExecuteRelease(t) PROVE LeaseInv'
  BY <1>0, <1>14, ExecuteReleaseInv
<1>15. ASSUME NEW t \in Tokens, ExecuteStray(t) PROVE LeaseInv'
  <2>1. UNCHANGED <<claimVars, stage, left, hb, hbAge, relPending, pollVars>>
    BY <1>15 DEF ExecuteStray
  <2>2. CASE Renewed(t)
    BY <1>0, <2>1, <2>2, RenewedInv
  <2>3. CASE UNCHANGED rowVars
    <3>1. /\ row' = row /\ rowAge' = rowAge /\ issued' = issued /\ owner' = owner
          /\ watched' = watched /\ seen' = seen /\ relPending' = relPending
          /\ stage' = stage /\ left' = left /\ hb' = hb /\ hbAge' = hbAge
      BY <2>1, <2>3 DEF rowVars, claimVars, pollVars
    <3> QED BY <1>0, <3>1 DEF LeaseInv, Fresh, Phases, Versions, ObserversLate, HolderEarly,
               RenewalHoldsRow, LiveLeaseHoldsRow, Live
  <2> QED BY <1>15, <2>2, <2>3 DEF ExecuteStray
<1> QED BY <1>1, <1>2, <1>3, <1>4, <1>5, <1>6, <1>7, <1>8, <1>9, <1>10, <1>11, <1>12, <1>13,
           <1>14, <1>15
        DEF Next, Poll, Heartbeat, Release

(* LeaseInv is an invariant of the claim leases. *)
THEOREM LeaseInvariant == Spec => []LeaseInv
BY LeaseInitInv, LeaseStep, PTL DEF Spec

(* The state of the claims always has its type: no clock runs past its     *)
(* range and a lease never goes below zero (saturating_duration_since).    *)
THEOREM LeaseTypes == Spec => []TypeOK
<1>1. LeaseInv => TypeOK
  BY DEF LeaseInv
<1> QED BY <1>1, LeaseInvariant, PTL

(* "The holder's lease always ends first" (claim_observer.rs): while a     *)
(* process believes its lease has not ended the row carries its token, for *)
(* all leases, processes, stalls, late renewals and late releases.         *)
THEOREM HolderEndsFirst == Spec => []LiveLeaseHoldsRow
<1>1. LeaseInv => LiveLeaseHoldsRow
  BY DEF LeaseInv
<1> QED BY <1>1, LeaseInvariant, PTL

(* A takeover comes "never earlier" than the end of the claim it replaces  *)
(* (take_over_claim, claim_candidate_for_recovery).                        *)
THEOREM NeverEarlier == Spec => TakenOverNeverEarlier
<1> DEFINE A == (row.token # NoToken /\ row'.token \notin {NoToken, row.token})
                  => rowAge >= LeaseOf(row.lease)
<1>1. LeaseInv /\ [Next]_vars => [A]_vars
  <2> SUFFICES ASSUME LeaseInv, Next, row.token # NoToken,
                      row'.token \notin {NoToken, row.token}
               PROVE  DatabaseLeaseOver
    BY DEF DatabaseLeaseOver
  <2>1. CASE \E i \in Procs : TakeOver(i) \/ ClaimUnclaimed(i) \/ RecoverByDatabaseClock(i)
    BY <2>1, ClaimsAreOld
  <2>2. ASSUME NEW i \in Procs, \/ Survey(i) \/ SurveyReply(i) \/ EndPoll(i)
                                \/ Crash(i) \/ Shutdown(i) \/ Start(i)
        PROVE  row' = row
    BY <2>2 DEF Survey, SurveyReply, EndPoll, Crash, Shutdown, Halt, Start, rowVars
  <2>3. ASSUME NEW t \in Tokens, ExecuteRenewal(t) \/ ExecuteStray(t)
        PROVE  row'.token = row.token
    BY SMTT(30), <2>3 DEF ExecuteRenewal, ExecuteStray, Renewed, Holds, WriteClaim, Fail, rowVars
  <2>4. ASSUME NEW t \in Tokens, \/ StartRenewal(t) \/ RenewalAnswered(t)
                                 \/ RenewalTimedOut(t) \/ ReadToken(t) \/ LeaseOver(t)
                                 \/ WorkFails(t)
        PROVE  row' = row
    BY <2>4 DEF StartRenewal, RenewalAnswered, RenewalTimedOut, ReadToken, LeaseOver,
                WorkFails, Fail, rowVars
  <2>5. ASSUME NEW t \in Tokens, WorkCommits(t) \/ Release(t)
        PROVE  row'.token \in {NoToken, row.token}
    BY SMTT(30), <2>5 DEF WorkCommits, Release, SendRelease, ExecuteRelease, LoseRelease,
                ReleaseExpired, ClearClaim, rowVars
  <2>6. CASE Tick
    BY <2>6 DEF Tick
  <2> QED BY <2>1, <2>2, <2>3, <2>4, <2>5, <2>6 DEF Next, Poll, Heartbeat
<1>2. [][A]_vars => TakenOverNeverEarlier
  BY DEF TakenOverNeverEarlier
<1> QED BY <1>1, <1>2, LeaseInvariant, PTL DEF Spec
=============================================================================
