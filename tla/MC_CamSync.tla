---------------------------- MODULE MC_CamSync ----------------------------
(* Instances of CamSync for TLC. *)
EXTENDS CamSync, TLC

CONSTANTS t1, t2, cb1, cb2, pl1

Symmetric == Permutations({t1, t2})

(* The bound of the wild run: a behaviour makes groups or registers        *)
(* callbacks, not both.                                                    *)
GroupsOrCallbacks ==
    (\A o \in Objs : type[o] = "INDV") \/ (\A cb \in Cbs : cbLife[cb] = "free")
============================================================================
