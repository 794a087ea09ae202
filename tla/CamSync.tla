------------------------------ MODULE CamSync ------------------------------
(***************************************************************************)
(* The camera sync driver (camera-kernel/drivers/cam_sync): a table of     *)
(* sync objects, individual ones that a producer signals and groups that   *)
(* are signaled when their last child is.  Any number of kernel threads    *)
(* and ioctl callers run its operations concurrently.                      *)
(*                                                                         *)
(* Grain: every critical section of a row spinlock is one step.  The one   *)
(* operation that keeps a row locked while it takes others is              *)
(* cam_sync_merge; RowLocked says which row that is.  Reads the code makes *)
(* without a lock (cam_sync_check_valid, cam_sync_wait, cam_sync_close)    *)
(* are steps of their own that no lock blocks.                             *)
(***************************************************************************)
EXTENDS Integers, FiniteSets

CONSTANTS
    N,            \* rows 1..N; CAM_SYNC_MAX_OBJS - 1 (row 0 is never used)
    Threads,      \* contexts that call into the driver
    NoThread,     \* a model value outside Threads
    Cbs,          \* sync_callback_info nodes, one per registration
    Payloads,     \* user payloads (the two words of payload_data)
    Statuses,     \* statuses callers signal with
    U32,          \* modulus of the unsigned counter "remaining"
    MaxRef,       \* bound on |ref_cnt|
    MaxAllocs,    \* bound: no call that claims a row begins after so many
    Ops,          \* operations the callers use
    Disciplined   \* TRUE: callers keep the protocol stated at MayDestroy

Objs == 1..N
AllOps == {"create", "merge", "signal", "getref", "putref", "destroy", "register",
           "deregister", "wait", "payload", "unpayload", "close", "nomem", "inline"}
Signaled == {"SUCCESS", "ERROR", "CANCEL"}
BadStates == {"ERROR", "CANCEL"}
States == {"INVALID", "ACTIVE"} \cup Signaled

ASSUME NAssumption == N \in Nat \ {0}
ASSUME ThreadsAssumption == NoThread \notin Threads
ASSUME FiniteAssumption == IsFiniteSet(Cbs)
ASSUME StatusAssumption == Statuses \subseteq Signaled
ASSUME U32Assumption == U32 \in Nat /\ U32 > N
ASSUME BoundsAssumption == MaxRef \in Nat /\ MaxAllocs \in Nat
ASSUME OpsAssumption == Ops \subseteq AllOps /\ Disciplined \in BOOLEAN

VARIABLES
    bitmap,      \* rows whose allocation bit is set
    allocs,      \* rows claimed so far
    state, type, remaining, refCnt, parents, children,
    callbacks,   \* callback_list of each row
    payloads,    \* user_payload_list of each row
    signaled,    \* the completion of each row is done
    workq,       \* callback nodes queued on HIPRIO_SYNC_WORK_QUEUE
    cbObj, cbSts,\* sync_obj and status of each callback node
    cbLife,      \* where each callback node is in its life
    calls,       \* history: how often each callback function ran
    openCnt, eventq, closer, phase, cursor, flushing,
    events,      \* history: V4L2 events sent to user space
    bad,         \* history: groups with a member that failed or was cancelled
    pc, obj, sts, todo, args

rowBits  == <<bitmap, allocs>>
linkVars == <<remaining, parents, children>>
cbVars   == <<callbacks, workq, cbObj, cbSts, cbLife>>
payVars  == <<payloads, events>>
devVars  == <<openCnt, eventq, closer, phase, cursor, flushing>>
locVars  == <<obj, sts, todo, args>>
vars == <<rowBits, state, type, linkVars, refCnt, cbVars, calls, payVars, signaled,
          devVars, bad, pc, locVars>>

Pcs == {"idle", "check", "find", "claim", "init", "group", "child", "unlink",
        "signal", "parents", "destroy", "dchild", "dparent", "dfinal", "wait",
        "close", "closed"}
Lives == {"free", "listed", "queued", "ran", "dropped"}

----------------------------------------------------------------------------
(* cam_sync_merge holds the spinlock of the group's row from its           *)
(* initialisation to its return, and only merge holds one across steps.    *)
RowLocked(o) == \E t \in Threads : pc[t] \in {"child", "unlink"} /\ obj[t] = o

Live(o) == state[o] # "INVALID"

(* Where a thread goes when the operation it runs returns: back to its     *)
(* caller, which for the operations of cam_sync_close is the close itself. *)
(* Its local variables end there.                                          *)
Goto(t, p) == pc' = [pc EXCEPT ![t] = p]
Return(t) ==
    /\ Goto(t, IF closer = t THEN "close" ELSE "idle")
    /\ obj' = [obj EXCEPT ![t] = 1]
    /\ sts' = [sts EXCEPT ![t] = "SUCCESS"]
    /\ todo' = [todo EXCEPT ![t] = {}]
    /\ args' = [args EXCEPT ![t] = {}]

Idle(t, op) == op \in Ops /\ pc[t] = "idle"

(* The rows a call in progress was given by its caller or is building.     *)
(* The parents loop of cam_sync_signal uses only its private list.         *)
Uses(u) ==
    args[u] \cup (IF pc[u] \in {"init", "group", "child", "unlink", "signal", "wait",
                                "destroy", "dchild", "dparent", "dfinal"}
                  THEN {obj[u]} ELSE {})

(* The protocol of the driver's callers: an object is destroyed only after *)
(* it was signaled and while no other call on it is in progress; only      *)
(* individual objects that exist are merged;                               *)
(* a driver signals, or puts back, only with a reference it took.          *)
MayDestroy(t, o) ==
    Disciplined => signaled[o] /\ \A u \in Threads \ {t} : o \notin Uses(u)
MayMerge(S) ==
    Disciplined => \A c \in S : Live(c) /\ type[c] = "INDV"
OwnsRef(o) ==
    Disciplined => refCnt[o] > Cardinality({u \in Threads : pc[u] = "signal" /\ obj[u] = o})

----------------------------------------------------------------------------
(* The lists of a row's registrations end empty. *)
EmptyLists(o) ==
    /\ callbacks' = [callbacks EXCEPT ![o] = {}]
    /\ payloads' = [payloads EXCEPT ![o] = {}]

(* memset of a row and its list heads, by cam_sync_init_row and at the end *)
(* of cam_sync_deinit_object.                                              *)
ZeroRow(o, st, ty) ==
    /\ state' = [state EXCEPT ![o] = st]
    /\ type' = [type EXCEPT ![o] = ty]
    /\ remaining' = [remaining EXCEPT ![o] = 0]
    /\ refCnt' = [refCnt EXCEPT ![o] = 0]
    /\ parents' = [parents EXCEPT ![o] = {}]
    /\ children' = [children EXCEPT ![o] = {}]
    /\ signaled' = [signaled EXCEPT ![o] = FALSE]
    /\ EmptyLists(o)
    /\ bad' = bad \ {o}

(* cam_sync_init_row: a fresh ACTIVE row. *)
InitRow(o, ty) == ZeroRow(o, "ACTIVE", ty)

(* cam_sync_util_dispatch_signaled_cb: queue every registered callback,    *)
(* send the user payloads unless no event queue is open, complete waiters. *)
DispatchSignaledCb_KeepListed(o, s) ==
    /\ workq' = workq \cup callbacks[o]
    /\ cbSts' = [cb \in Cbs |-> IF cb \in callbacks[o] THEN s ELSE cbSts[cb]]
    /\ cbLife' = [cb \in Cbs |-> IF cb \in callbacks[o] THEN "queued" ELSE cbLife[cb]]
    /\ signaled' = [signaled EXCEPT ![o] = TRUE]
    /\ UNCHANGED <<callbacks, cbObj, payloads, events>>
DispatchSignaledCb(o, s) ==
    /\ callbacks' = [callbacks EXCEPT ![o] = {}]
    /\ workq' = workq \cup callbacks[o]
    /\ cbSts' = [cb \in Cbs |-> IF cb \in callbacks[o] THEN s ELSE cbSts[cb]]
    /\ cbLife' = [cb \in Cbs |-> IF cb \in callbacks[o] THEN "queued" ELSE cbLife[cb]]
    /\ payloads' = IF eventq THEN [payloads EXCEPT ![o] = {}] ELSE payloads
    /\ events' = IF eventq THEN events \cup (payloads[o] \X {o} \X {s}) ELSE events
    /\ signaled' = [signaled EXCEPT ![o] = TRUE]
    /\ UNCHANGED cbObj

NoDispatch == UNCHANGED <<callbacks, workq, cbSts, cbLife, cbObj, payloads, events, signaled>>

----------------------------------------------------------------------------
(* Allocation of a row, shared by create and merge: find_first_zero_bit,   *)
(* then test_and_set_bit, again from the start when the bit was taken.     *)
FindZeroBit(t) ==
    /\ pc[t] = "find" \/ (Idle(t, "create") /\ allocs < MaxAllocs)
    /\ \/ /\ Objs \subseteq bitmap              \* -ENOMEM
          /\ Return(t)
       \/ \E i \in Objs \ bitmap :
             /\ \A j \in Objs \ bitmap : i <= j
             /\ obj' = [obj EXCEPT ![t] = i]
             /\ Goto(t, "claim")
             /\ UNCHANGED <<sts, todo, args>>
    /\ UNCHANGED <<rowBits, state, type, linkVars, refCnt, cbVars, calls, payVars,
                   signaled, devVars, bad>>

TestAndSetBit_NoTest(t) ==
    /\ pc[t] = "claim"
    /\ bitmap' = bitmap \cup {obj[t]}
    /\ allocs' = allocs + 1
    /\ Goto(t, IF args[t] = {} THEN "init" ELSE "group")
    /\ UNCHANGED <<state, type, linkVars, refCnt, cbVars, calls, payVars,
                   signaled, devVars, bad, locVars>>
TestAndSetBit(t) ==
    /\ pc[t] = "claim"
    /\ \/ /\ obj[t] \in bitmap
          /\ Goto(t, "find")
          /\ UNCHANGED rowBits
       \/ /\ obj[t] \notin bitmap
          /\ bitmap' = bitmap \cup {obj[t]}
          /\ allocs' = allocs + 1
          /\ Goto(t, IF args[t] = {} THEN "init" ELSE "group")
    /\ UNCHANGED <<state, type, linkVars, refCnt, cbVars, calls, payVars,
                   signaled, devVars, bad, locVars>>

(* The locked part of cam_sync_create. *)
CreateInit(t) ==
    /\ pc[t] = "init"
    /\ ~RowLocked(obj[t])
    /\ InitRow(obj[t], "INDV")
    /\ Return(t)
    /\ UNCHANGED <<rowBits, workq, cbObj, cbSts, cbLife, calls, events, devVars>>

----------------------------------------------------------------------------
(* cam_sync_merge.  The array of objects is a set (duplicates are refused) *)
(* of at least two, visited in any order.                                  *)
MergeStart(t, S) ==
    /\ Idle(t, "merge") /\ allocs < MaxAllocs
    /\ Cardinality(S) > 1
    /\ MayMerge(S)
    /\ Goto(t, "check")
    /\ args' = [args EXCEPT ![t] = S]
    /\ todo' = [todo EXCEPT ![t] = S]
    /\ UNCHANGED <<rowBits, state, type, linkVars, refCnt, cbVars, calls, payVars,
                   signaled, devVars, bad, obj, sts>>

(* cam_sync_check_valid on each object, without a lock. *)
MergeCheck(t, c) ==
    /\ pc[t] = "check"
    /\ c \in todo[t]
    /\ IF c \in bitmap /\ Live(c)
       THEN /\ todo' = [todo EXCEPT ![t] = @ \ {c}]
            /\ Goto(t, IF todo[t] = {c} THEN "find" ELSE "check")
            /\ UNCHANGED <<obj, sts, args>>
       ELSE Return(t)
    /\ UNCHANGED <<rowBits, state, type, linkVars, refCnt, cbVars, calls, payVars,
                   signaled, devVars, bad>>

(* Lock the new row and initialise it as a group. *)
MergeInit(t) ==
    /\ pc[t] = "group"
    /\ ~RowLocked(obj[t])
    /\ InitRow(obj[t], "GROUP")
    /\ todo' = [todo EXCEPT ![t] = args[t]]
    /\ Goto(t, "child")
    /\ UNCHANGED <<rowBits, workq, cbObj, cbSts, cbLife, calls, events, devVars, obj, sts,
                   args>>

(* Leave the children loop for clean_children_info: the group becomes      *)
(* invalid and the children visited before c lose their parent link.       *)
MergeFail(t, g) ==
    /\ state' = [state EXCEPT ![g] = "INVALID"]
    /\ todo' = [todo EXCEPT ![t] = args[t] \ todo[t]]
    /\ Goto(t, "unlink")

(* One iteration of the children loop of cam_sync_init_group_object, under *)
(* the child's lock.  An allocation may fail before or after the child     *)
(* node is on the group's list.                                            *)
MergeChild(t, c) ==
    LET g == obj[t] IN
    /\ pc[t] = "child"
    /\ c \in todo[t]
    /\ ~RowLocked(c)
    /\ \/ /\ type[c] = "GROUP" \/ state[c] = "INVALID"
          /\ MergeFail(t, g)
          /\ UNCHANGED <<linkVars, bad>>
       \/ /\ type[c] = "INDV" /\ state[c] \in BadStates
          /\ state' = [state EXCEPT ![g] = state[c]]
          /\ bad' = bad \cup {g}
          /\ todo' = [todo EXCEPT ![t] = @ \ {c}]
          /\ UNCHANGED <<pc, linkVars>>
       \/ /\ type[c] = "INDV" /\ state[c] = "SUCCESS"
          /\ todo' = [todo EXCEPT ![t] = @ \ {c}]
          /\ UNCHANGED <<pc, state, linkVars, bad>>
       \/ /\ type[c] = "INDV" /\ state[c] = "ACTIVE"
          /\ remaining' = [remaining EXCEPT ![g] = (@ + 1) % U32]
          /\ children' = [children EXCEPT ![g] = @ \cup {c}]
          /\ parents' = [parents EXCEPT ![c] = @ \cup {g}]
          /\ todo' = [todo EXCEPT ![t] = @ \ {c}]
          /\ UNCHANGED <<pc, state, bad>>
       \/ /\ "nomem" \in Ops
          /\ type[c] = "INDV" /\ state[c] = "ACTIVE"
          /\ remaining' = [remaining EXCEPT ![g] = (@ + 1) % U32]
          /\ \/ children' = [children EXCEPT ![g] = @ \cup {c}]
             \/ UNCHANGED children
          /\ MergeFail(t, g)
          /\ UNCHANGED <<parents, bad>>
    /\ UNCHANGED <<rowBits, type, refCnt, cbVars, calls, payVars, signaled, devVars,
                   obj, sts, args>>

(* "if (!remaining)": every child of the group has been signaled. *)
AllSignaled_OneEarly(left) == left <= 1
AllSignaled(left) == left = 0

(* The verdict of a group whose children were all signaled before. *)
MergedState_Success(g) == "SUCCESS"
MergedState(g) == IF state[g] \in BadStates THEN state[g] ELSE "SUCCESS"

(* The end of the loop: a group whose children are all signaled completes  *)
(* at once; then the row is unlocked and its id returned.                  *)
MergeDone(t) ==
    LET g == obj[t] IN
    /\ pc[t] = "child"
    /\ todo[t] = {}
    /\ IF AllSignaled(remaining[g])
       THEN /\ state' = [state EXCEPT ![g] = MergedState(g)]
            /\ signaled' = [signaled EXCEPT ![g] = TRUE]
       ELSE UNCHANGED <<state, signaled>>
    /\ Return(t)
    /\ UNCHANGED <<rowBits, type, linkVars, refCnt, cbVars, calls, payVars, devVars, bad>>

(* cam_sync_util_cleanup_children_list(SYNC_LIST_CLEAN_ALL). *)
CleanChildren_None(g) == UNCHANGED children
CleanChildren(g) == children' = [children EXCEPT ![g] = {}]

(* clean_children_info, one child at a time, then the group's own list;    *)
(* the bit is cleared and the row unlocked.                                *)
MergeUnlink(t) ==
    LET g == obj[t] IN
    /\ pc[t] = "unlink"
    /\ \/ \E c \in todo[t] :
             /\ ~RowLocked(c)
             /\ parents' = [parents EXCEPT ![c] = @ \ {g}]
             /\ todo' = [todo EXCEPT ![t] = @ \ {c}]
             /\ UNCHANGED <<bitmap, children, pc, obj, sts, args>>
       \/ /\ todo[t] = {}
          /\ CleanChildren(g)
          /\ bitmap' = bitmap \ {g}
          /\ Return(t)
          /\ UNCHANGED parents
    /\ UNCHANGED <<allocs, state, type, remaining, refCnt, cbVars, calls, payVars, signaled,
                   devVars, bad>>

----------------------------------------------------------------------------
(* cam_sync_get_obj_ref and cam_sync_put_obj_ref (the latter takes no lock *)
(* and checks nothing).  A signal ioctl with an undefined status does what *)
(* cam_sync_get_obj_ref does: it takes the reference, and cam_sync_signal  *)
(* refuses the status without dropping it.                                 *)
GetObjRef(t, o) ==
    /\ Idle(t, "getref")
    /\ ~RowLocked(o)
    /\ state[o] = "ACTIVE"
    /\ refCnt[o] < MaxRef
    /\ refCnt' = [refCnt EXCEPT ![o] = @ + 1]
    /\ UNCHANGED <<rowBits, state, type, linkVars, cbVars, calls, payVars, signaled,
                   devVars, bad, pc, locVars>>

PutObjRef(t, o) ==
    /\ Idle(t, "putref")
    /\ OwnsRef(o)
    /\ refCnt[o] > -MaxRef
    /\ refCnt' = [refCnt EXCEPT ![o] = @ - 1]
    /\ UNCHANGED <<rowBits, state, type, linkVars, cbVars, calls, payVars, signaled,
                   devVars, bad, pc, locVars>>

(* cam_sync_handle_signal takes the reference of its own signal first.     *)
HandleSignal(t, o, s) ==
    /\ Idle(t, "signal")
    /\ ~RowLocked(o)
    /\ state[o] = "ACTIVE"
    /\ refCnt[o] < MaxRef
    /\ refCnt' = [refCnt EXCEPT ![o] = @ + 1]
    /\ obj' = [obj EXCEPT ![t] = o]
    /\ sts' = [sts EXCEPT ![t] = s]
    /\ Goto(t, "signal")
    /\ UNCHANGED <<rowBits, state, type, linkVars, cbVars, calls, payVars, signaled,
                   devVars, bad, todo, args>>

(* The locked part of cam_sync_signal, called by a driver that took its    *)
(* reference earlier, by cam_sync_handle_signal or by cam_sync_close:      *)
(* refuse rows that are invalid, groups or already signaled; drop one      *)
(* reference; the last one signals the row and takes its parents along on  *)
(* a private list.                                                         *)
SignalRow(t, o, s) ==
    /\ \/ Idle(t, "getref") /\ OwnsRef(o) /\ s \in Statuses
       \/ pc[t] = "signal" /\ obj[t] = o /\ sts[t] = s
    /\ ~RowLocked(o)
    /\ \/ /\ state[o] # "ACTIVE" \/ type[o] = "GROUP"
          /\ Return(t)
          /\ NoDispatch
          /\ UNCHANGED <<state, refCnt, parents, bad>>
       \/ /\ state[o] = "ACTIVE" /\ type[o] = "INDV"
          /\ refCnt[o] # 1
          /\ pc[t] = "signal" \/ refCnt[o] > -MaxRef
          /\ refCnt' = [refCnt EXCEPT ![o] = @ - 1]
          /\ Return(t)
          /\ NoDispatch
          /\ UNCHANGED <<state, parents, bad>>
       \/ /\ state[o] = "ACTIVE" /\ type[o] = "INDV"
          /\ refCnt[o] = 1
          /\ refCnt' = [refCnt EXCEPT ![o] = 0]
          /\ state' = [state EXCEPT ![o] = s]
          /\ DispatchSignaledCb(o, s)
          /\ parents' = [parents EXCEPT ![o] = {}]
          /\ bad' = IF s \in BadStates THEN bad \cup parents[o] ELSE bad
          /\ IF parents[o] = {} THEN Return(t)
             ELSE /\ todo' = [todo EXCEPT ![t] = parents[o]]
                  /\ obj' = [obj EXCEPT ![t] = o]
                  /\ sts' = [sts EXCEPT ![t] = s]
                  /\ Goto(t, "parents")
                  /\ UNCHANGED args
    /\ UNCHANGED <<rowBits, type, remaining, children, calls, devVars>>

(* "parent_row->remaining--", of an unsigned counter. *)
LeftAfter_Signed(p) == remaining[p] - 1
LeftAfter_Frozen(p) == IF state[p] \in BadStates THEN remaining[p] ELSE (remaining[p] - 1) % U32
LeftAfter(p) == (remaining[p] - 1) % U32

(* cam_sync_util_update_parent_state for a row that is not INVALID. *)
UpdateParentState_Overwrite(p, s) == s
UpdateParentState(p, s) == IF state[p] \in BadStates THEN state[p] ELSE s

(* One turn of the parents loop of cam_sync_signal, under p's lock.        *)
SignalParent(t, p) ==
    /\ pc[t] = "parents"
    /\ p \in todo[t]
    /\ ~RowLocked(p)
    /\ remaining' = [remaining EXCEPT ![p] = LeftAfter(p)]
    /\ \/ /\ ~Live(p)
          /\ NoDispatch
          /\ UNCHANGED state
       \/ /\ Live(p)
          /\ state' = [state EXCEPT ![p] = UpdateParentState(p, sts[t])]
          /\ IF AllSignaled(LeftAfter(p)) THEN DispatchSignaledCb(p, UpdateParentState(p, sts[t]))
             ELSE NoDispatch
    /\ IF todo[t] = {p} THEN Return(t)
       ELSE /\ todo' = [todo EXCEPT ![t] = @ \ {p}]
            /\ UNCHANGED <<pc, obj, sts, args>>
    /\ UNCHANGED <<rowBits, type, refCnt, parents, children, calls, devVars, bad>>

----------------------------------------------------------------------------
(* kfree of the callback nodes in S, whose functions ran or never will. *)
FreeNodes(S, life) ==
    /\ cbLife' = [cb \in Cbs |-> IF cb \in S THEN life ELSE cbLife[cb]]
    /\ cbObj' = [cb \in Cbs |-> IF cb \in S THEN 1 ELSE cbObj[cb]]
    /\ cbSts' = [cb \in Cbs |-> IF cb \in S THEN "SUCCESS" ELSE cbSts[cb]]

(* A callback registered now is due at once. *)
CallbackDue_SuccessOnly(o) == state[o] = "SUCCESS" /\ remaining[o] = 0
CallbackDue(o) == state[o] \in Signaled /\ remaining[o] = 0

(* cam_sync_register_callback.  A node is allocated per call; on a         *)
(* signaled row it is queued, or with the debugfs switch                   *)
(* trigger_cb_without_switch the function is called at once.               *)
RegisterCallback(t, o, cb) ==
    /\ Idle(t, "register")
    /\ ~RowLocked(o)
    /\ Live(o)
    /\ cbLife[cb] = "free"
    /\ IF CallbackDue(o)
       THEN /\ \/ /\ workq' = workq \cup {cb}
                  /\ cbObj' = [cbObj EXCEPT ![cb] = o]
                  /\ cbSts' = [cbSts EXCEPT ![cb] = state[o]]
                  /\ cbLife' = [cbLife EXCEPT ![cb] = "queued"]
                  /\ UNCHANGED calls
               \/ /\ "inline" \in Ops
                  /\ calls' = [calls EXCEPT ![cb] = @ + 1]
                  /\ FreeNodes({cb}, "ran")
                  /\ UNCHANGED workq
            /\ UNCHANGED callbacks
       ELSE /\ callbacks' = [callbacks EXCEPT ![o] = @ \cup {cb}]
            /\ cbObj' = [cbObj EXCEPT ![cb] = o]
            /\ cbLife' = [cbLife EXCEPT ![cb] = "listed"]
            /\ UNCHANGED <<workq, cbSts, calls>>
    /\ UNCHANGED <<rowBits, state, type, linkVars, refCnt, payVars, signaled, devVars, bad,
                   pc, locVars>>

(* cam_sync_deregister_callback removes a listed node; one already queued  *)
(* is not recalled.                                                        *)
DeregisterCallback(t, o, cb) ==
    /\ Idle(t, "deregister")
    /\ ~RowLocked(o)
    /\ Live(o)
    /\ cb \in callbacks[o]
    /\ callbacks' = [callbacks EXCEPT ![o] = @ \ {cb}]
    /\ FreeNodes({cb}, "dropped")
    /\ UNCHANGED <<rowBits, state, type, linkVars, refCnt, workq, calls, payVars,
                   signaled, devVars, bad, pc, locVars>>

(* cam_sync_util_cb_dispatch, run by the work queue. *)
CbDispatch(cb) ==
    /\ cb \in workq
    /\ workq' = workq \ {cb}
    /\ calls' = [calls EXCEPT ![cb] = @ + 1]
    /\ FreeNodes({cb}, "ran")
    /\ flushing' = flushing \ {cb}
    /\ UNCHANGED <<rowBits, state, type, linkVars, refCnt, callbacks, payVars, signaled,
                   openCnt, eventq, closer, phase, cursor, bad, pc,
                   locVars>>

(* A user payload registered now is due at once. *)
PayloadDue(o) == state[o] \in Signaled

(* cam_sync_handle_register_user_payload: an event at once when the row's  *)
(* state is a signaled one, else the payload is kept, once.  User space    *)
(* gives each object a payload of its own, which it may repeat until it    *)
(* is sent.                                                                *)
OwnPayload(o, pl) ==
    /\ \A e \in events : e[1] # pl
    /\ \A p \in Objs \ {o} : pl \notin payloads[p]
RegisterUserPayload(t, o, pl) ==
    /\ Idle(t, "payload")
    /\ openCnt = 1
    /\ OwnPayload(o, pl)
    /\ ~RowLocked(o)
    /\ Live(o)
    /\ IF PayloadDue(o)
       THEN /\ events' = events \cup {<<pl, o, state[o]>>}
            /\ UNCHANGED payloads
       ELSE /\ payloads' = [payloads EXCEPT ![o] = @ \cup {pl}]
            /\ UNCHANGED events
    /\ UNCHANGED <<rowBits, state, type, linkVars, refCnt, cbVars, calls, signaled, devVars,
                   bad, pc, locVars>>

DeregisterUserPayload(t, o, pl) ==
    /\ Idle(t, "unpayload")
    /\ openCnt = 1
    /\ ~RowLocked(o)
    /\ Live(o)
    /\ payloads' = [payloads EXCEPT ![o] = @ \ {pl}]
    /\ UNCHANGED <<rowBits, state, type, linkVars, refCnt, cbVars, calls, events, signaled,
                   devVars, bad, pc, locVars>>

----------------------------------------------------------------------------
(* cam_sync_wait: an unlocked look at the state, a wait for the completion *)
(* with a timeout, and a second unlocked look that decides the result.     *)
WaitStart(t, o) ==
    /\ Idle(t, "wait")
    /\ Live(o)
    /\ obj' = [obj EXCEPT ![t] = o]
    /\ Goto(t, "wait")
    /\ UNCHANGED <<rowBits, state, type, linkVars, refCnt, cbVars, calls, payVars, signaled,
                   devVars, bad, sts, todo, args>>

WaitResult_AnyState(o) == IF ~signaled[o] THEN "ETIMEDOUT" ELSE "0"
WaitResult(o) == IF ~signaled[o] THEN "ETIMEDOUT"
                 ELSE IF state[o] = "SUCCESS" THEN "0" ELSE "EINVAL"

WaitReturn(t) ==
    /\ pc[t] = "wait"
    /\ Return(t)
    /\ UNCHANGED <<rowBits, state, type, linkVars, refCnt, cbVars, calls, payVars, signaled,
                   devVars, bad>>

----------------------------------------------------------------------------
(* cam_sync_destroy -> cam_sync_deinit_object.                             *)
(* What is left to unlink, children first, before the last section.        *)
Teardown(t, cs, ps) ==
    /\ todo' = [todo EXCEPT ![t] = cs]
    /\ args' = [args EXCEPT ![t] = ps]
    /\ Goto(t, IF cs # {} THEN "dchild" ELSE IF ps # {} THEN "dparent" ELSE "dfinal")

(* First section: the row becomes invalid; its lists move to private ones  *)
(* (children in todo, parents in args).                                    *)
DestroyMark(t, o) ==
    /\ \/ Idle(t, "destroy") /\ MayDestroy(t, o)
       \/ pc[t] = "destroy" /\ obj[t] = o
    /\ ~RowLocked(o)
    /\ \/ /\ ~Live(o)
          /\ Return(t)
          /\ UNCHANGED <<state, parents, children>>
       \/ /\ Live(o)
          /\ state' = [state EXCEPT ![o] = "INVALID"]
          /\ children' = [children EXCEPT ![o] = {}]
          /\ parents' = [parents EXCEPT ![o] = {}]
          /\ obj' = [obj EXCEPT ![t] = o]
          /\ Teardown(t, children[o], parents[o])
          /\ UNCHANGED sts
    /\ UNCHANGED <<rowBits, type, remaining, refCnt, cbVars, calls, payVars, signaled,
                   devVars, bad>>

(* Row r drops its link to the destroyed row o, unless r is invalid. *)
Unlink_None(links, r, o) == links
Unlink(links, r, o) == [links EXCEPT ![r] = IF Live(r) THEN @ \ {o} ELSE @]

(* Child c forgets its parent, unless the child is invalid by now. *)
DestroyChild(t, c) ==
    /\ pc[t] = "dchild"
    /\ c \in todo[t]
    /\ ~RowLocked(c)
    /\ parents' = Unlink(parents, c, obj[t])
    /\ Teardown(t, todo[t] \ {c}, args[t])
    /\ UNCHANGED <<rowBits, state, type, remaining, children, refCnt, cbVars, calls, payVars,
                   signaled, devVars, bad, obj, sts>>

(* Parent p forgets its child; its "remaining" keeps counting it. *)
DestroyParent(t, p) ==
    /\ pc[t] = "dparent"
    /\ p \in args[t]
    /\ ~RowLocked(p)
    /\ children' = Unlink(children, p, obj[t])
    /\ Teardown(t, {}, args[t] \ {p})
    /\ UNCHANGED <<rowBits, state, type, remaining, parents, refCnt, cbVars, calls, payVars,
                   signaled, devVars, bad, obj, sts>>

(* Last section: callbacks and payloads are freed, not delivered; the row  *)
(* is zeroed and its bit cleared.                                          *)
DestroyFinal(t) ==
    LET o == obj[t] IN
    /\ pc[t] = "dfinal"
    /\ ~RowLocked(o)
    /\ FreeNodes(callbacks[o], "dropped")
    /\ ZeroRow(o, "INVALID", "INDV")
    /\ bitmap' = bitmap \ {o}
    /\ Return(t)
    /\ UNCHANGED <<allocs, workq, calls, events, devVars>>

----------------------------------------------------------------------------
(* cam_sync_open and cam_sync_close of the device node.                    *)
Open(t) ==
    /\ Idle(t, "close")
    /\ openCnt = 0
    /\ closer = NoThread                              \* table_lock
    /\ openCnt' = 1
    /\ eventq' = TRUE
    /\ UNCHANGED <<rowBits, state, type, linkVars, refCnt, cbVars, calls, payVars, signaled,
                   closer, phase, cursor, flushing, bad, pc, locVars>>

CloseStart(t) ==
    /\ Idle(t, "close")
    /\ openCnt = 1
    /\ closer = NoThread
    /\ openCnt' = 0
    /\ closer' = t
    /\ phase' = "signal"
    /\ cursor' = 1
    /\ Goto(t, "close")
    /\ UNCHANGED <<rowBits, state, type, linkVars, refCnt, cbVars, calls, payVars, signaled,
                   eventq, flushing, bad, locVars>>

(* First pass: cam_sync_signal(i, ERROR) on every row that looks ACTIVE. *)
CloseSignal(t) ==
    /\ pc[t] = "close" /\ phase = "signal" /\ cursor <= N
    /\ cursor' = cursor + 1
    /\ IF state[cursor] = "ACTIVE"
       THEN /\ obj' = [obj EXCEPT ![t] = cursor]
            /\ sts' = [sts EXCEPT ![t] = "ERROR"]
            /\ Goto(t, "signal")
       ELSE UNCHANGED <<obj, sts, pc>>
    /\ UNCHANGED <<rowBits, state, type, linkVars, refCnt, cbVars, calls, payVars, signaled,
                   openCnt, eventq, closer, phase, flushing, bad, todo, args>>

(* flush_workqueue: wait for the work queued so far. *)
CloseFlush(t) ==
    /\ pc[t] = "close"
    /\ \/ /\ phase = "signal" /\ cursor = N + 1
          /\ phase' = "flush"
          /\ flushing' = workq
          /\ UNCHANGED cursor
       \/ /\ phase = "flush" /\ flushing = {}
          /\ phase' = "destroy"
          /\ cursor' = 1
          /\ UNCHANGED flushing
    /\ UNCHANGED <<rowBits, state, type, linkVars, refCnt, cbVars, calls, payVars, signaled,
                   openCnt, eventq, closer, bad, pc, locVars>>

(* Second pass: cam_sync_destroy on every row that looks valid; after it   *)
(* table_lock is released.                                                 *)
CloseDestroy(t) ==
    /\ pc[t] = "close" /\ phase = "destroy"
    /\ \/ /\ cursor <= N
          /\ cursor' = cursor + 1
          /\ IF Live(cursor)
             THEN /\ obj' = [obj EXCEPT ![t] = cursor]
                  /\ Goto(t, "destroy")
             ELSE UNCHANGED <<obj, pc>>
          /\ UNCHANGED <<closer, phase>>
       \/ /\ cursor = N + 1
          /\ closer' = NoThread
          /\ phase' = "none"
          /\ cursor' = 1
          /\ Goto(t, "closed")
          /\ UNCHANGED obj
    /\ UNCHANGED <<rowBits, state, type, linkVars, refCnt, cbVars, calls, payVars, signaled,
                   openCnt, eventq, flushing, bad, sts, todo, args>>

(* The event queue pointer is cleared without table_lock. *)
CloseEnd(t) ==
    /\ pc[t] = "closed"
    /\ eventq' = FALSE
    /\ Goto(t, "idle")
    /\ UNCHANGED <<rowBits, state, type, linkVars, refCnt, cbVars, calls, payVars, signaled,
                   openCnt, closer, phase, cursor, flushing, bad, locVars>>

----------------------------------------------------------------------------
(* cam_sync_component_bind, with the device node opened once. *)
Init ==
    /\ bitmap = {} /\ allocs = 0
    /\ state = [o \in Objs |-> "INVALID"]
    /\ type = [o \in Objs |-> "INDV"]
    /\ remaining = [o \in Objs |-> 0]
    /\ refCnt = [o \in Objs |-> 0]
    /\ parents = [o \in Objs |-> {}]
    /\ children = [o \in Objs |-> {}]
    /\ callbacks = [o \in Objs |-> {}]
    /\ payloads = [o \in Objs |-> {}]
    /\ signaled = [o \in Objs |-> FALSE]
    /\ workq = {}
    /\ cbObj = [cb \in Cbs |-> 1]
    /\ cbSts = [cb \in Cbs |-> "SUCCESS"]
    /\ cbLife = [cb \in Cbs |-> "free"]
    /\ calls = [cb \in Cbs |-> 0]
    /\ openCnt = 1 /\ eventq = TRUE
    /\ closer = NoThread /\ phase = "none" /\ cursor = 1 /\ flushing = {}
    /\ events = {}
    /\ bad = {}
    /\ pc = [t \in Threads |-> "idle"]
    /\ obj = [t \in Threads |-> 1]
    /\ sts = [t \in Threads |-> "SUCCESS"]
    /\ todo = [t \in Threads |-> {}]
    /\ args = [t \in Threads |-> {}]

(* Steps inside an operation that has begun, and the allocation of a row,  *)
(* with which cam_sync_create begins.                                      *)
Step(t) ==
    \/ FindZeroBit(t) \/ TestAndSetBit(t) \/ CreateInit(t)
    \/ MergeInit(t) \/ MergeDone(t) \/ MergeUnlink(t)
    \/ \E c \in Objs : \/ MergeCheck(t, c) \/ MergeChild(t, c) \/ SignalParent(t, c)
                       \/ DestroyChild(t, c) \/ DestroyParent(t, c)
    \/ DestroyFinal(t) \/ WaitReturn(t)
    \/ CloseSignal(t) \/ CloseFlush(t) \/ CloseDestroy(t) \/ CloseEnd(t)

(* Calls into the driver on object o, and the locked sections that the     *)
(* ioctl and close paths enter in a second step.                           *)
CallOn(t, o) ==
    \/ GetObjRef(t, o) \/ PutObjRef(t, o) \/ WaitStart(t, o) \/ DestroyMark(t, o)
    \/ \E s \in Signaled : SignalRow(t, o, s)
    \/ \E s \in Statuses : HandleSignal(t, o, s)
    \/ \E cb \in Cbs : RegisterCallback(t, o, cb) \/ DeregisterCallback(t, o, cb)
    \/ \E pl \in Payloads : RegisterUserPayload(t, o, pl) \/ DeregisterUserPayload(t, o, pl)

Call(t) ==
    \/ Open(t) \/ CloseStart(t)
    \/ \E S \in SUBSET Objs : MergeStart(t, S)
    \/ \E o \in Objs : CallOn(t, o)

(* Nobody calls into the driver and no work is queued. *)
Quiescent ==
    /\ \A t \in Threads : pc[t] = "idle"
    /\ workq = {}
    /\ UNCHANGED vars

Next ==
    \/ \E t \in Threads : Step(t) \/ Call(t)
    \/ \E cb \in Cbs : CbDispatch(cb)
    \/ Quiescent

Spec == Init /\ [][Next]_vars

(* Code inside an operation runs on: threads are scheduled, the spinlocks  *)
(* they wait for are released in bounded time, and the work queue runs.    *)
Proceed(t) ==
    /\ pc[t] # "idle"
    /\ Step(t) \/ SignalRow(t, obj[t], sts[t]) \/ DestroyMark(t, obj[t])
Fairness ==
    /\ \A t \in Threads : WF_vars(Proceed(t))
    /\ \A cb \in Cbs : WF_vars(CbDispatch(cb))
FairSpec == Spec /\ Fairness

----------------------------------------------------------------------------
TableTypeOK ==
    /\ bitmap \in SUBSET Objs
    /\ allocs \in Nat
    /\ state \in [Objs -> States]
    /\ type \in [Objs -> {"INDV", "GROUP"}]
    /\ remaining \in [Objs -> 0..(U32 - 1)]
    /\ refCnt \in [Objs -> Int]
    /\ parents \in [Objs -> SUBSET Objs]
    /\ children \in [Objs -> SUBSET Objs]
    /\ signaled \in [Objs -> BOOLEAN]
    /\ bad \in SUBSET Objs

NodeTypeOK ==
    /\ callbacks \in [Objs -> SUBSET Cbs]
    /\ workq \in SUBSET Cbs
    /\ cbObj \in [Cbs -> Objs]
    /\ cbSts \in [Cbs -> Signaled]
    /\ cbLife \in [Cbs -> Lives]
    /\ calls \in [Cbs -> Nat]
    /\ payloads \in [Objs -> SUBSET Payloads]
    /\ events \in SUBSET (Payloads \X Objs \X Signaled)

DeviceTypeOK ==
    /\ openCnt \in {0, 1}
    /\ eventq \in BOOLEAN
    /\ closer \in Threads \cup {NoThread}
    /\ phase \in {"none", "signal", "flush", "destroy"}
    /\ cursor \in 1..(N + 1)
    /\ flushing \in SUBSET Cbs

ThreadTypeOK ==
    /\ pc \in [Threads -> Pcs]
    /\ obj \in [Threads -> Objs]
    /\ sts \in [Threads -> Signaled]
    /\ todo \in [Threads -> SUBSET Objs]
    /\ args \in [Threads -> SUBSET Objs]

(* Every variable keeps its type: in particular remaining stays an         *)
(* unsigned counter and private lists hold row numbers.                    *)
TypeOK == TableTypeOK /\ NodeTypeOK /\ DeviceTypeOK /\ ThreadTypeOK

(* Threads between claiming a row and publishing it, or tearing it down. *)
Owning == {"init", "group", "child", "unlink", "dchild", "dparent", "dfinal"}
Owner(t) == pc[t] \in Owning

(* However callers race, a row is built or torn down by one thread at a    *)
(* time, its allocation bit is set all that while, and every valid row has *)
(* its bit set: the lock-free allocator never hands a live row out again.  *)
RowOwnership ==
    /\ \A t \in Threads : Owner(t) => obj[t] \in bitmap
    /\ \A t, u \in Threads : Owner(t) /\ Owner(u) /\ obj[t] = obj[u] => t = u
    /\ \A o \in Objs : Live(o) => o \in bitmap

(* What makes RowOwnership inductive: a row that is being built or torn    *)
(* down is invalid, except under the spinlock of a merge, where it is      *)
(* valid; either way nobody else can start to destroy it.                  *)
OwnInv ==
    /\ RowOwnership
    /\ \A t \in Threads : Owner(t) => (Live(obj[t]) <=> pc[t] = "child")

(* A row whose bit is clear carries nothing over to its next user: no      *)
(* links, no callback nodes, no payloads.                                  *)
FreeRowClean ==
    \A o \in Objs \ bitmap :
        ~Live(o) /\ parents[o] = {} /\ children[o] = {} /\ callbacks[o] = {}
                 /\ payloads[o] = {}

(* A parent link on a child leads to the live group that lists the child,  *)
(* or to a group whose destruction or failed merge still has this child on *)
(* its private list: no link outlives the group it names.                  *)
ParentLinksSound ==
    \A c \in Objs : \A p \in parents[c] :
        \/ Live(p) /\ type[p] = "GROUP" /\ c \in children[p]
        \/ \E t \in Threads : pc[t] \in {"dchild", "unlink"} /\ obj[t] = p /\ c \in todo[t]

(* Children of p that have not reached it yet: still linked, or signaled   *)
(* by a thread whose private list still holds p.                           *)
Pending(p) ==
    {c \in Objs : p \in parents[c]} \cup
    {obj[t] : t \in {u \in Threads : pc[u] = "parents" /\ p \in todo[u]}}

(* "Count of remaining children that not been signaled"                    *)
(* (cam_sync_private.h): remaining counts exactly the pending children of  *)
(* a live group, whatever the interleaving of merges and signals.          *)
RemainingCounts ==
    \A p \in Objs : Live(p) /\ type[p] = "GROUP" => remaining[p] = Cardinality(Pending(p))

(* A group completes after the last of its children and not before, and    *)
(* its verdict is SUCCESS exactly when no member failed or was cancelled.  *)
GroupComplete ==
    \A p \in Objs : Live(p) /\ type[p] = "GROUP" /\ signaled[p] =>
        /\ Pending(p) = {}
        /\ IF p \in bad THEN state[p] \in BadStates ELSE state[p] = "SUCCESS"

(* Every callback node is in exactly one place: unused, on one row's list, *)
(* queued, or gone; its function runs at most once.                        *)
CallbackOnce ==
    \A cb \in Cbs :
        /\ calls[cb] = (IF cbLife[cb] = "ran" THEN 1 ELSE 0)
        /\ cb \in workq <=> cbLife[cb] = "queued"
        /\ \A o \in Objs : cb \in callbacks[o] <=> cbLife[cb] = "listed" /\ cbObj[cb] = o

(* What makes CallbackOnce inductive: no node is on the list of a row that *)
(* is free or being built, so that initialising a row forgets none.        *)
Building == {"init", "group", "child", "unlink"}
Blank(o) == o \notin bitmap \/ \E t \in Threads : pc[t] \in Building /\ obj[t] = o
CallbackInv ==
    /\ CallbackOnce
    /\ \A o \in Objs : Blank(o) => callbacks[o] = {}

(* No callback and no user payload is left on a completed object: a        *)
(* registration racing the signal is either dispatched by the signal or    *)
(* sees the final state itself.                                            *)
NoneLeftBehind ==
    \A o \in Objs : Live(o) /\ signaled[o] /\ ~RowLocked(o) => callbacks[o] = {} /\ payloads[o] = {}

(* Once an object completed, its state never changes again until it is     *)
(* destroyed, and what a callback is told is that final state.             *)
VerdictStable ==
    [][/\ \A o \in Objs : signaled[o] /\ Live(o) /\ Live(o)' => state'[o] = state[o]
       /\ \A cb \in workq' \ workq : cbSts'[cb] = state'[cbObj'[cb]]]_vars

(* cam_sync_wait answers 0 only for an object that succeeded, and a wait   *)
(* that saw the completion never finds the object running or destroyed.    *)
WaitVerdict ==
    \A t \in Threads : pc[t] = "wait" =>
        /\ signaled[obj[t]] => state[obj[t]] \in Signaled
        /\ WaitResult(obj[t]) = "0" => obj[t] \notin bad /\ Pending(obj[t]) = {}

(* cam_sync_signal: "Now iterate over all parents of this object": a valid *)
(* row on the private list is a group that lists the signaled object.      *)
ParentsAreParents ==
    \A t \in Threads : pc[t] = "parents" =>
        \A p \in todo[t] : Live(p) => type[p] = "GROUP" /\ obj[t] \in children[p]

(* uapi cam_sync.h: a user payload is "sent to kernel for safekeeping      *)
(* until signal time": no event goes out before its object completed.      *)
PayloadAtSignalTime ==
    [][\A e \in events' \ events : signaled'[e[2]]]_vars

(* A callback on a group whose children have all been signaled runs in the *)
(* end, unless it is taken back: no decrement of the parents loop is lost. *)
CallbackRuns ==
    \A cb \in Cbs :
        (/\ cbLife[cb] = "listed" /\ type[cbObj[cb]] = "GROUP"
         /\ \A c \in Objs : cbObj[cb] \notin parents[c])
            ~> cbLife[cb] \in {"ran", "dropped"}
=============================================================================
