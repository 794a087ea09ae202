-------------------------- MODULE MC_HwFenceTable --------------------------
(* Instances of HwFenceTable for TLC: two fences whose hashes collide, two *)
(* arrays that share the second of them and an empty array, in a table of  *)
(* four entries.  MCConfigs has a fence with two parents and, with room    *)
(* for fewer, one that is refused its second; the configurations with      *)
(* resets have one fence.  In HoleConfigs an array can fail after it was   *)
(* linked to the shared fence, in ResetConfigs a fence can be reset away   *)
(* and in ParentConfigs it is in three arrays, the driver's limit.         *)
EXTENDS HwFenceTable, TLC

CONSTANTS p, c1, c2, x, y, A, B, E

Shared == A :> <<x, y>> @@ B :> <<y>> @@ E :> << >>
Pair == A :> <<y, y>> @@ B :> <<y>> @@ E :> <<A>>
Triple == A :> <<y>> @@ B :> <<y>> @@ E :> <<y>>
SharedFirst == A :> <<y, x>> @@ B :> <<y>> @@ E :> << >>
MCConfigs == {[fences |-> {x, y}, children |-> Shared, maxParents |-> 3, maxResets |-> 0],
              [fences |-> {y}, children |-> Shared, maxParents |-> 3, maxResets |-> 1],
              [fences |-> {y}, children |-> Pair, maxParents |-> 2, maxResets |-> 2]}
HoleConfigs == {[fences |-> {x, y}, children |-> SharedFirst, maxParents |-> 3, maxResets |-> 0]}
ResetConfigs == {[fences |-> {y}, children |-> Shared, maxParents |-> 3, maxResets |-> 1]}
ParentConfigs == {[fences |-> {y}, children |-> Triple, maxParents |-> 3, maxResets |-> 0]}
MCHash == x :> 0 @@ y :> 0 @@ A :> 1 @@ B :> 2 @@ E :> 3 @@ NoKey :> 0
=============================================================================
