--------------------------- MODULE MCKillSequence ---------------------------
(* Small instances of KillSequence for TLC. *)
EXTENDS KillSequence, TLC

DefaultList  == <<"snapshot", "verify-snapshot", "isolate", "nuke">>
HastyList    == <<"snapshot", "nuke">>
RotateList   == <<"rotate-credentials">>

MCSafeLists   == {<<>>, DefaultList, HastyList}
MCProtocolLists == {<<>>, DefaultList, RotateList}

MCOnCloudSQL == [t \in Targets |-> "cloud-sql-postgres"]

(* One Atlas cluster beside a Redis instance that only acknowledges. *)
CONSTANTS d1, r1
MCMixed == d1 :> "mongodb-atlas" @@ r1 :> "redis"

MCSymmetry == Permutations(Callers) \cup Permutations(SnapIds)
=============================================================================
