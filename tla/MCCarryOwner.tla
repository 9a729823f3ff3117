---------------------------- MODULE MCCarryOwner ----------------------------
(***************************************************************************)
(* Scenes of CarryOwner: a pair that is first seeded, whatever its         *)
(* settings; an owner that releases and is restored from a backup; two     *)
(* transfers at once; work mined across a transfer; and work mined while   *)
(* the nodes' coinbase layouts come to differ.                              *)
(***************************************************************************)
EXTENDS CarryOwner

SeedRow(n, epoch, owner) ==
  [origin |-> n, epoch |-> epoch, owner |-> owner, action |-> "seed", tip |-> -1, peer |-> 0]

FirstSeeded ==
  [rows |-> {}, clock |-> 1, settings |-> [Nodes -> BOOLEAN], miners |-> {}, movers |-> {},
   backups |-> {0}, mismatches |-> {FALSE}, epochs |-> 2, height |-> 0, faults |-> 1]
Owned ==
  [rows |-> {SeedRow(0, 1, TRUE), SeedRow(1, 2, FALSE)}, clock |-> 3,
   settings |-> {[n \in Nodes |-> TRUE]}, miners |-> {}, movers |-> {1},
   backups |-> {0, 1}, mismatches |-> BOOLEAN, epochs |-> 4, height |-> 2, faults |-> 1]
Contested ==
  [Owned EXCEPT !.movers = {0, 1}, !.backups = {}, !.mismatches = {FALSE}, !.epochs = 5,
                !.faults = 0]
Mined ==
  [Owned EXCEPT !.miners = {0, 1}, !.backups = {}, !.mismatches = {FALSE}, !.height = 3,
                !.faults = 0]
Unlike ==
  [Owned EXCEPT !.miners = {0}, !.movers = {}, !.backups = {}, !.height = 1, !.faults = 0]

AllScenes == {FirstSeeded, Owned, Contested, Mined, Unlike}
=============================================================================
