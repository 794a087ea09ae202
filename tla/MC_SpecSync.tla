---------------------------- MODULE MC_SpecSync ----------------------------
(* Instances of SpecSync for TLC.  User space also asks for an array with  *)
(* no fences and for one with too many.                                    *)
EXTENDS SpecSync, TLC

CONSTANTS t1, t2, w1, a1, a2, f1, f2

MCShapes == a1 :> {<<2, TRUE>>, <<2, FALSE>>} @@ a2 :> {<<1, FALSE>>, <<0, TRUE>>, <<3, FALSE>>}
MCFdLists == a1 :> {<<f1, f2>>, <<f1, BadFd>>} @@ a2 :> {<<f1>>}
=============================================================================
