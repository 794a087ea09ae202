------------------------- MODULE HwFenceLockProofs -------------------------
(***************************************************************************)
(* Mutual exclusion of the lock word shared by drivers and Fence CTL, for  *)
(* any number of drivers.                                                  *)
(***************************************************************************)
EXTENDS HwFenceLock, TLAPS

(* A bit of the word stands for its owner: bit 0 is set exactly while one  *)
(* driver is inside, bit 1 exactly while the SVM is inside or asleep on    *)
(* the lock, and an SVM that is inside shares the word with no driver.     *)
WordOwned ==
    /\ \A d \in Drivers : lpc[d] = "in" => "pvm" \in word
    /\ \A d, e \in Drivers : lpc[d] = "in" /\ lpc[e] = "in" => d = e
    /\ lpc[Svm] \in {"in", "wfi"} => "svm" \in word
    /\ lpc[Svm] = "in" => "pvm" \notin word

LockInv == LockTypeOK /\ WordOwned

(* Initially nobody is inside and no bit is set. *)
LEMMA LockInvInit == LockInit => LockInv
BY SvmAssumption DEF LockInit, LockInv, LockTypeOK, WordOwned

(* Every step of a driver or of the SVM keeps each bit its owner's. *)
LEMMA LockInvNext == LockInv /\ [LockNext]_lockVars => LockInv'
<1> SUFFICES ASSUME LockInv, [LockNext]_lockVars PROVE LockInv'
    OBVIOUS
<1> USE SvmAssumption DEF LockInv, LockTypeOK, WordOwned
<1>1. ASSUME NEW d \in Drivers, Lock(d) PROVE LockInv'
    BY <1>1 DEF Lock
<1>2. ASSUME NEW d \in Drivers, Unlock(d) PROVE LockInv'
    BY <1>2 DEF Unlock
<1>3. ASSUME NEW d \in Drivers, CheckWake(d) PROVE LockInv'
    BY <1>3 DEF CheckWake
<1>4. CASE SvmLock
    BY <1>4 DEF SvmLock
<1>5. CASE SvmWake
    BY <1>5 DEF SvmWake
<1>6. CASE SvmUnlock
    BY <1>6 DEF SvmUnlock
<1>7. CASE UNCHANGED lockVars
    BY <1>7 DEF lockVars
<1> QED
    BY <1>1, <1>2, <1>3, <1>4, <1>5, <1>6, <1>7 DEF LockNext

(* _lock and _unlock exclude drivers and the Fence CTL from one another,   *)
(* however many driver contexts there are.                                 *)
THEOREM LockExcludes == LockSpec => []LockExclusion
<1>1. LockInv => LockExclusion
    BY DEF LockInv, WordOwned, LockExclusion, LockTypeOK
<1> QED
    BY <1>1, LockInvInit, LockInvNext, PTL DEF LockSpec
=============================================================================
