---------------------------- MODULE MCClaimLease ----------------------------
(***************************************************************************)
(* Instances of ClaimLease: two frontends on one row, and one process that *)
(* stops and comes back.                                                   *)
(***************************************************************************)
EXTENDS ClaimLease, TLC

CONSTANTS f1, f2

\* Frontends with one lease are interchangeable.
Frontends == Permutations(Procs)

EqualLeases == [i \in Procs |-> 1]
=============================================================================
