---------------------------- MODULE HwFenceLock ----------------------------
(***************************************************************************)
(* A lock of the hardware-fence driver: one word in memory shared with the *)
(* virtual machine of the Fence CTL (the SVM).  Bit 0 is the drivers', bit *)
(* 1 the SVM's.  A driver spins until the whole word is zero.  The SVM     *)
(* sets its bit whoever holds the lock and, if a driver does, sleeps until *)
(* the driver that unlocks sees the bit and sends it an interrupt.  The    *)
(* SVM side is not in the repository: it is what the comments and the      *)
(* test in _unlock take it to be.                                          *)
(***************************************************************************)

CONSTANTS
    Drivers,  \* driver contexts
    Svm       \* the Fence CTL

ASSUME SvmAssumption == Svm \notin Drivers

VARIABLES
    word,     \* the bits of the lock word that are set
    lpc,      \* "out", "wfi" (SVM asleep), "in", "check" (unlocked, not yet looked back)
    wakeup    \* the SVM's pending interrupt

lockVars == <<word, lpc, wakeup>>

----------------------------------------------------------------------------
(* _lock: exclusive load until the word is zero, exclusive store of bit 0. *)
Lock_IgnoresSvm(d) ==
    /\ lpc[d] = "out"
    /\ "pvm" \notin word
    /\ word' = word \cup {"pvm"}
    /\ lpc' = [lpc EXCEPT ![d] = "in"]
    /\ UNCHANGED wakeup
Lock(d) ==
    /\ lpc[d] = "out"
    /\ word = {}
    /\ word' = {"pvm"}
    /\ lpc' = [lpc EXCEPT ![d] = "in"]
    /\ UNCHANGED wakeup

(* _unlock, first half: clear bit 0 and nothing else. *)
Unlock_StoresZero(d) ==
    /\ lpc[d] = "in"
    /\ word' = {}
    /\ lpc' = [lpc EXCEPT ![d] = "check"]
    /\ UNCHANGED wakeup
Unlock(d) ==
    /\ lpc[d] = "in"
    /\ word' = word \ {"pvm"}
    /\ lpc' = [lpc EXCEPT ![d] = "check"]
    /\ UNCHANGED wakeup

(* _unlock, second half: read the word again, by now perhaps the lock of   *)
(* another, and send the interrupt if the SVM's bit is in it.              *)
CheckWake(d) ==
    /\ lpc[d] = "check"
    /\ wakeup' = (wakeup \/ "svm" \in word)
    /\ lpc' = [lpc EXCEPT ![d] = "out"]
    /\ UNCHANGED word

(* The SVM sets its bit, and owns the lock if no driver does. *)
SvmLock ==
    /\ lpc[Svm] = "out"
    /\ word' = word \cup {"svm"}
    /\ lpc' = [lpc EXCEPT ![Svm] = IF "pvm" \in word THEN "wfi" ELSE "in"]
    /\ UNCHANGED wakeup

(* An interrupt wakes it; one sent for an earlier wait may come late, so   *)
(* it looks at the word before it goes on.                                 *)
SvmWake ==
    /\ lpc[Svm] = "wfi"
    /\ wakeup
    /\ wakeup' = FALSE
    /\ lpc' = [lpc EXCEPT ![Svm] = IF "pvm" \in word THEN "wfi" ELSE "in"]
    /\ UNCHANGED word

SvmUnlock ==
    /\ lpc[Svm] = "in"
    /\ word' = word \ {"svm"}
    /\ lpc' = [lpc EXCEPT ![Svm] = "out"]
    /\ UNCHANGED wakeup

----------------------------------------------------------------------------
LockInit ==
    /\ word = {}
    /\ lpc = [p \in Drivers \cup {Svm} |-> "out"]
    /\ wakeup = FALSE

LockNext ==
    \/ \E d \in Drivers : Lock(d) \/ Unlock(d) \/ CheckWake(d)
    \/ SvmLock \/ SvmWake \/ SvmUnlock

LockSpec == LockInit /\ [][LockNext]_lockVars

----------------------------------------------------------------------------
LockTypeOK ==
    /\ word \subseteq {"pvm", "svm"}
    /\ lpc \in [Drivers \cup {Svm} -> {"out", "wfi", "in", "check"}]
    /\ wakeup \in BOOLEAN

(* At most one of the drivers and the SVM is between lock and unlock, also *)
(* when the SVM announces itself while a driver holds the lock and when an *)
(* interrupt of an earlier round wakes it.                                 *)
LockExclusion ==
    \A p, q \in Drivers \cup {Svm} : lpc[p] = "in" /\ lpc[q] = "in" => p = q

(* An SVM that went to sleep on the lock gets it: the driver that unlocks  *)
(* keeps the SVM's bit, sees it and wakes it.                              *)
SvmGetsLock == lpc[Svm] = "wfi" ~> lpc[Svm] = "in"
=============================================================================
