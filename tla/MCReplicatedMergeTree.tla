----------------------- MODULE MCReplicatedMergeTree -----------------------
(* Two replicas; three of the inserts carry the same block.  A scenario    *)
(* says how many blocks are stored at the start and how many of each query *)
(* and fault follow.                                                       *)
EXTENDS ReplicatedMergeTree, TLC

CONSTANTS r1, r2, i1, i2, i3, i4, d1, d2

MCHomeOf == i1 :> r1 @@ i2 :> r2 @@ i3 :> r1 @@ i4 :> r2
MCDataOf == i1 :> d1 @@ i2 :> d2 @@ i3 :> d1 @@ i4 :> d1

Scenario(stored, inserts, selections, drops, reconnects, restarts) ==
    [stored |-> stored, inserts |-> inserts, selections |-> selections,
     drops |-> drops, reconnects |-> reconnects, restarts |-> restarts]

MCScenarios ==
    {Scenario(1, {i1, i2}, 1, 0, 0, 0),   \* two inserts and a merge
     Scenario(2, {i1}, 2, 0, 0, 0),       \* two merges
     Scenario(1, {i1}, 1, 1, 0, 0),       \* a merge and a drop
     Scenario(0, {i1}, 0, 2, 0, 0),       \* two drops over an insert
     Scenario(1, {}, 0, 2, 1, 0),         \* two drops and a lost session
     Scenario(2, {}, 1, 1, 0, 1),         \* a merge, a drop and a restart
     Scenario(1, {i1}, 0, 1, 1, 1),       \* a drop, a lost session and a restart
     Scenario(1, {i1}, 1, 0, 1, 1),       \* a merge, a lost session and a restart
     Scenario(0, {i1, i4}, 0, 1, 0, 0),   \* a repeated block and a drop
     Scenario(0, {i1, i4}, 0, 0, 1, 1),   \* a repeated block with both faults
     Scenario(0, {i1, i4}, 0, 0, 2, 0)}   \* a repeated block and two lost sessions

MCDropScenarios == {Scenario(1, {i1}, 0, 1, 0, 0)}

MCForgetScenarios == {Scenario(0, {i1, i3, i4}, 0, 2, 0, 0)}

(* Behaviours end with the race behind NoPartRemainsAfterDrop.             *)
Explored == ~DropMissedPreActivePart
=============================================================================
