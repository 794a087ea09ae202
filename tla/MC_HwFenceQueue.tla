-------------------------- MODULE MC_HwFenceQueue --------------------------
(* Instance of HwFenceQueue for TLC: an Rx queue written by two drivers    *)
(* and the Fence CTL, one written by a driver and the Fence CTL long       *)
(* enough for its contents to wrap around the ring, a Tx queue with        *)
(* indexes of its client's own, and one that its client publishes itself.  *)
EXTENDS HwFenceQueue, TLC

CONSTANTS d1, d2, svm, p1, p2

MCConfigs ==
    {[tx |-> FALSE, skip |-> FALSE, start |-> 0, factor |-> 1,
       writers |-> {d1, d2, svm}, maxWrites |-> 3],
     [tx |-> FALSE, skip |-> FALSE, start |-> 0, factor |-> 1,
       writers |-> {d1, svm}, maxWrites |-> 4],
     [tx |-> TRUE, skip |-> FALSE, start |-> 1, factor |-> 2,
       writers |-> {d1}, maxWrites |-> 5],
     [tx |-> TRUE, skip |-> TRUE, start |-> 1, factor |-> 2,
       writers |-> {d1}, maxWrites |-> 5]}
=============================================================================
