----------------------- MODULE CamSyncCallbackProofs -----------------------
(***************************************************************************)
(* Every callback of the camera sync driver runs at most once, for every   *)
(* number of rows, threads and callbacks and for callers that keep no      *)
(* protocol.  CallbackInv says why: a node is on the list of the row it    *)
(* names, in the work queue, or gone, and rows that are free or being      *)
(* built have none on their list.                                          *)
(***************************************************************************)
EXTENDS CamSyncProofs

nodes == <<callbacks, workq, cbObj, cbLife, calls>>

(* A step of thread t that leaves the nodes alone, frees at most the row t *)
(* is building and starts to build at most a free row.                     *)
LEMMA CbFrame ==
    ASSUME TypeOK, CallbackInv, NEW t \in Threads, Alone(t), UNCHANGED nodes,
           \A o \in Objs : o \in bitmap /\ o \notin bitmap' =>
                               pc[t] \in Building /\ obj[t] = o,
           pc'[t] \in Building => /\ obj'[t] = obj[t]
                                  /\ pc[t] \in Building \/ obj[t] \notin bitmap
    PROVE  CallbackInv'
<1>1. ASSUME NEW o \in Objs, Blank(o)' PROVE Blank(o)
    <2>1. CASE o \notin bitmap'
        BY <2>1 DEF Blank
    <2>2. CASE \E u \in Threads : pc'[u] \in Building /\ obj'[u] = o
        <3>1. PICK u \in Threads : pc'[u] \in Building /\ obj'[u] = o
            BY <2>2
        <3> QED BY <3>1 DEF Blank, Alone
    <2> QED BY <1>1, <2>1, <2>2 DEF Blank
<1>2. CallbackOnce'
    BY DEF CallbackInv, CallbackOnce, nodes
<1> QED BY <1>1, <1>2 DEF CallbackInv, nodes

(* A step that changes neither rows, threads nor nodes. *)
LEMMA CbUnchanged ==
    ASSUME CallbackInv, UNCHANGED <<bitmap, pc, obj, callbacks, workq, cbObj, cbLife, calls>>
    PROVE  CallbackInv'
BY DEF CallbackInv, CallbackOnce, Blank

(* A valid row that no merge holds is neither free nor being built. *)
LEMMA LiveNotBlank ==
    ASSUME OwnInv, NEW o \in Objs, Live(o), ~RowLocked(o)
    PROVE  ~Blank(o)
<1>1. o \in bitmap
    BY DEF OwnInv, RowOwnership
<1>2. \A t \in Threads : pc[t] \in Building => obj[t] # o
    BY DEF OwnInv, Owner, Owning, Building, RowLocked
<1> QED BY <1>1, <1>2 DEF Blank

(* A return ends the building of a row. *)
LEMMA ReturnBuilds ==
    ASSUME TypeOK, NEW t \in Threads, Return(t)
    PROVE  Alone(t) /\ pc'[t] \notin Building
BY DEF TypeOK, ThreadTypeOK, Return, Goto, Alone, Building

(* No callback is registered and every row is free at the start. *)
LEMMA CbInit == Init => CallbackInv
BY DEF Init, CallbackInv, CallbackOnce, Blank

(* Every step keeps the life of the callback nodes. *)
LEMMA CbStep == TypeOK /\ OwnInv /\ CallbackInv /\ [Next]_vars => CallbackInv'
<1> SUFFICES ASSUME TypeOK, OwnInv, CallbackInv, [Next]_vars PROVE CallbackInv'
    OBVIOUS
<1>o. \A u \in Threads : obj[u] \in Objs
    BY DEF TypeOK, ThreadTypeOK
<1>f. /\ DOMAIN pc = Threads /\ DOMAIN obj = Threads
      /\ callbacks \in [Objs -> SUBSET Cbs] /\ workq \in SUBSET Cbs
      /\ cbLife \in [Cbs -> Lives] /\ calls \in [Cbs -> Nat] /\ cbObj \in [Cbs -> Objs]
    BY DEF TypeOK, ThreadTypeOK, NodeTypeOK
<1>1. ASSUME NEW t \in Threads, FindZeroBit(t) PROVE CallbackInv'
    BY <1>1, <1>f, CbFrame, ReturnBuilds
       DEF FindZeroBit, Idle, Alone, Goto, Building, rowBits, cbVars, nodes
<1>2. ASSUME NEW t \in Threads, TestAndSetBit(t) PROVE CallbackInv'
    BY <1>2, <1>f, CbFrame, ReturnBuilds
       DEF TestAndSetBit, locVars, Alone, Goto, Building, rowBits, cbVars, nodes
<1>3. ASSUME NEW t \in Threads, WaitReturn(t) PROVE CallbackInv'
    BY <1>3, <1>f, CbFrame, ReturnBuilds
       DEF WaitReturn, Alone, Goto, Building, rowBits, cbVars, nodes
<1>4. ASSUME NEW t \in Threads, MergeDone(t) PROVE CallbackInv'
    BY <1>4, <1>f, CbFrame, ReturnBuilds
       DEF MergeDone, Alone, Goto, Building, rowBits, cbVars, nodes
<1>5. ASSUME NEW t \in Threads, CloseSignal(t) PROVE CallbackInv'
    BY <1>5, <1>f, CbFrame, ReturnBuilds
       DEF CloseSignal, Alone, Goto, Building, rowBits, cbVars, nodes
<1>6. ASSUME NEW t \in Threads, CloseFlush(t) PROVE CallbackInv'
    BY <1>6, <1>f, CbFrame, ReturnBuilds
       DEF CloseFlush, locVars, Alone, Goto, Building, rowBits, cbVars, nodes
<1>7. ASSUME NEW t \in Threads, CloseDestroy(t) PROVE CallbackInv'
    BY <1>7, <1>f, CbFrame, ReturnBuilds
       DEF CloseDestroy, Alone, Goto, Building, rowBits, cbVars, nodes
<1>8. ASSUME NEW t \in Threads, CloseEnd(t) PROVE CallbackInv'
    BY <1>8, <1>f, CbFrame, ReturnBuilds
       DEF CloseEnd, locVars, Alone, Goto, Building, rowBits, cbVars, nodes
<1>9. ASSUME NEW t \in Threads, CloseStart(t) PROVE CallbackInv'
    BY <1>9, <1>f, CbFrame, ReturnBuilds
       DEF CloseStart, Idle, locVars, Alone, Goto, Building, rowBits, cbVars, nodes
<1>10. ASSUME NEW t \in Threads, NEW o \in Objs, MergeCheck(t, o) PROVE CallbackInv'
    BY <1>10, <1>f, CbFrame, ReturnBuilds
       DEF MergeCheck, Alone, Goto, Building, rowBits, cbVars, nodes
<1>11. ASSUME NEW t \in Threads, NEW o \in Objs, WaitStart(t, o) PROVE CallbackInv'
    BY <1>11, <1>f, CbFrame, ReturnBuilds
       DEF WaitStart, Idle, Alone, Goto, Building, rowBits, cbVars, nodes
<1>12. ASSUME NEW t \in Threads, NEW S \in SUBSET Objs, MergeStart(t, S) PROVE CallbackInv'
    BY <1>12, <1>f, CbFrame, ReturnBuilds
       DEF MergeStart, Idle, Alone, Goto, Building, rowBits, cbVars, nodes
<1>13. ASSUME NEW t \in Threads, NEW o \in Objs, NEW s \in Statuses, HandleSignal(t, o, s)
       PROVE CallbackInv'
    BY <1>13, <1>f, CbFrame, ReturnBuilds
       DEF HandleSignal, Idle, Alone, Goto, Building, rowBits, cbVars, nodes
<1>14. ASSUME NEW t \in Threads, NEW o \in Objs, MergeChild(t, o) PROVE CallbackInv'
    BY <1>14, <1>f, CbFrame, ReturnBuilds
       DEF MergeChild, MergeFail, Alone, Goto, Building, rowBits, cbVars, nodes
<1>15. ASSUME NEW t \in Threads, MergeUnlink(t) PROVE CallbackInv'
    BY <1>15, <1>f, CbFrame, ReturnBuilds
       DEF MergeUnlink, Alone, Goto, Building, rowBits, cbVars, nodes
<1>16. ASSUME NEW t \in Threads, NEW o \in Objs, DestroyChild(t, o) PROVE CallbackInv'
    BY <1>16, <1>f, CbFrame, ReturnBuilds
       DEF DestroyChild, Teardown, Alone, Goto, Building, rowBits, cbVars, nodes
<1>17. ASSUME NEW t \in Threads, NEW o \in Objs, DestroyParent(t, o) PROVE CallbackInv'
    BY <1>17, <1>f, CbFrame, ReturnBuilds
       DEF DestroyParent, Teardown, Alone, Goto, Building, rowBits, cbVars, nodes
<1>18. ASSUME NEW t \in Threads, NEW o \in Objs, DestroyMark(t, o) PROVE CallbackInv'
    BY <1>18, <1>f, CbFrame, ReturnBuilds
       DEF DestroyMark, Teardown, Idle, Alone, Goto, Building, rowBits, cbVars, nodes
<1>19. ASSUME NEW t \in Threads, Open(t) PROVE CallbackInv'
    BY <1>19, CbUnchanged DEF Open, rowBits, locVars, cbVars
<1>20. ASSUME NEW t \in Threads, NEW o \in Objs, GetObjRef(t, o) PROVE CallbackInv'
    BY <1>20, CbUnchanged DEF GetObjRef, rowBits, locVars, cbVars
<1>21. ASSUME NEW t \in Threads, NEW o \in Objs, PutObjRef(t, o) PROVE CallbackInv'
    BY <1>21, CbUnchanged DEF PutObjRef, rowBits, locVars, cbVars
<1>22. ASSUME NEW t \in Threads, NEW o \in Objs, NEW pl \in Payloads, RegisterUserPayload(t, o, pl)
       PROVE CallbackInv'
    BY <1>22, CbUnchanged DEF RegisterUserPayload, rowBits, locVars, cbVars
<1>23. ASSUME NEW t \in Threads, NEW o \in Objs, NEW pl \in Payloads, DeregisterUserPayload(t, o, pl)
       PROVE CallbackInv'
    BY <1>23, CbUnchanged DEF DeregisterUserPayload, rowBits, locVars, cbVars
<1>24. CASE UNCHANGED vars
    BY <1>24, CbUnchanged DEF vars, rowBits, locVars, cbVars
<1>25. ASSUME NEW t \in Threads, CreateInit(t) PROVE CallbackInv'
    <2>1. callbacks[obj[t]] = {} /\ pc[t] \in Building
        BY <1>25, <1>o DEF CreateInit, CallbackInv, Blank, Building
    <2>2. UNCHANGED nodes
        BY <1>25, <1>f, <2>1 DEF CreateInit, InitRow, ZeroRow, EmptyLists, nodes
    <2> QED BY <1>25, <1>f, <2>1, <2>2, CbFrame, ReturnBuilds
            DEF CreateInit, Alone, Goto, Building, rowBits
<1>26. ASSUME NEW t \in Threads, MergeInit(t) PROVE CallbackInv'
    <2>1. callbacks[obj[t]] = {} /\ pc[t] \in Building
        BY <1>26, <1>o DEF MergeInit, CallbackInv, Blank, Building
    <2>2. UNCHANGED nodes
        BY <1>26, <1>f, <2>1 DEF MergeInit, InitRow, ZeroRow, EmptyLists, nodes
    <2> QED BY <1>26, <1>f, <2>1, <2>2, CbFrame, ReturnBuilds
            DEF MergeInit, Alone, Goto, Building, rowBits
<1>d. ASSUME NEW t \in Threads, NEW o \in Objs, NEW s, Live(o), ~RowLocked(o),
             DispatchSignaledCb(o, s), UNCHANGED <<bitmap, calls>>, Alone(t),
             pc'[t] \notin Building
      PROVE  CallbackInv'
    <2>1. /\ callbacks' = [callbacks EXCEPT ![o] = {}]
          /\ workq' = workq \cup callbacks[o]
          /\ cbLife' = [cb \in Cbs |-> IF cb \in callbacks[o] THEN "queued" ELSE cbLife[cb]]
          /\ cbObj' = cbObj
        BY <1>d DEF DispatchSignaledCb
    <2>2. ASSUME NEW cb \in Cbs
          PROVE  /\ calls'[cb] = (IF cbLife'[cb] = "ran" THEN 1 ELSE 0)
                 /\ cb \in workq' <=> cbLife'[cb] = "queued"
                 /\ \A r \in Objs : cb \in callbacks'[r] <=> cbLife'[cb] = "listed" /\ cbObj'[cb] = r
        <3>1. CASE cb \in callbacks[o]
            BY <1>d, <1>f, <2>1, <3>1 DEF CallbackInv, CallbackOnce
        <3>2. CASE cb \notin callbacks[o]
            BY <1>d, <1>f, <2>1, <3>2 DEF CallbackInv, CallbackOnce
        <3> QED BY <3>1, <3>2
    <2>3. ASSUME NEW r \in Objs, Blank(r)' PROVE callbacks'[r] = {}
        BY <1>d, <1>f, <2>1, <2>3 DEF CallbackInv, Blank, Alone
    <2> QED BY <2>2, <2>3 DEF CallbackInv, CallbackOnce
<1>27. ASSUME NEW t \in Threads, NEW o \in Objs, SignalParent(t, o) PROVE CallbackInv'
    <2>1. /\ UNCHANGED <<bitmap, calls>> /\ ~RowLocked(o) /\ pc[t] = "parents"
          /\ Return(t) \/ UNCHANGED <<pc, obj>>
        BY <1>27 DEF SignalParent, rowBits
    <2>2. Alone(t) /\ pc'[t] \notin Building
        BY <2>1, ReturnBuilds DEF Alone, Building
    <2>3. CASE NoDispatch
        BY <2>1, <2>2, <2>3, CbFrame DEF NoDispatch, nodes
    <2>4. CASE Live(o) /\ DispatchSignaledCb(o, UpdateParentState(o, sts[t]))
        BY <2>1, <2>2, <2>4, <1>d
    <2> QED BY <1>27, <2>3, <2>4 DEF SignalParent
<1>28. ASSUME NEW t \in Threads, NEW o \in Objs, NEW s \in Signaled, SignalRow(t, o, s)
       PROVE CallbackInv'
    <2>1. UNCHANGED <<bitmap, calls>> /\ ~RowLocked(o)
        BY <1>28 DEF SignalRow, rowBits
    <2>2. Return(t) \/ (obj' = [obj EXCEPT ![t] = o] /\ Goto(t, "parents"))
        BY <1>28 DEF SignalRow
    <2>3. Alone(t) /\ pc'[t] \notin Building
        BY <2>2, <1>f, ReturnBuilds DEF Alone, Building, Goto
    <2>4. CASE NoDispatch
        BY <2>1, <2>3, <2>4, CbFrame DEF NoDispatch, nodes
    <2>5. CASE Live(o) /\ DispatchSignaledCb(o, s)
        BY <2>1, <2>3, <2>5, <1>d
    <2> QED BY <1>28, <2>4, <2>5 DEF SignalRow, Live
<1>29. ASSUME NEW t \in Threads, NEW o \in Objs, NEW cb \in Cbs, RegisterCallback(t, o, cb)
       PROVE CallbackInv'
    <2>1. /\ UNCHANGED <<bitmap, pc, obj>> /\ ~Blank(o) /\ cbLife[cb] = "free"
        BY <1>29, LiveNotBlank DEF RegisterCallback, rowBits, locVars
    <2>2. cb \notin workq /\ calls[cb] = 0 /\ \A r \in Objs : cb \notin callbacks[r]
        BY <2>1 DEF CallbackInv, CallbackOnce
    <2>3. \/ /\ workq' = workq \cup {cb} /\ UNCHANGED <<calls, callbacks>>
             /\ cbObj' = [cbObj EXCEPT ![cb] = o]
             /\ cbLife' = [cbLife EXCEPT ![cb] = "queued"]
          \/ /\ calls' = [calls EXCEPT ![cb] = @ + 1] /\ UNCHANGED <<workq, callbacks>>
             /\ FreeNodes({cb}, "ran")
          \/ /\ callbacks' = [callbacks EXCEPT ![o] = @ \cup {cb}]
             /\ cbObj' = [cbObj EXCEPT ![cb] = o]
             /\ cbLife' = [cbLife EXCEPT ![cb] = "listed"]
             /\ UNCHANGED <<workq, calls>>
        BY <1>29 DEF RegisterCallback
    <2>4. CallbackOnce'
        BY <1>f, <2>2, <2>3 DEF CallbackInv, CallbackOnce, FreeNodes
    <2>5. \A r \in Objs : Blank(r)' => callbacks'[r] = {}
        BY <1>f, <2>1, <2>3 DEF CallbackInv, Blank
    <2> QED BY <2>4, <2>5 DEF CallbackInv
<1>30. ASSUME NEW t \in Threads, NEW o \in Objs, NEW cb \in Cbs, DeregisterCallback(t, o, cb)
       PROVE CallbackInv'
    <2>1. /\ UNCHANGED <<bitmap, pc, obj, workq, calls>> /\ cb \in callbacks[o]
          /\ callbacks' = [callbacks EXCEPT ![o] = @ \ {cb}]
          /\ FreeNodes({cb}, "dropped")
        BY <1>30 DEF DeregisterCallback, rowBits, locVars
    <2>2. CallbackOnce'
        BY <1>f, <2>1 DEF CallbackInv, CallbackOnce, FreeNodes
    <2>3. \A r \in Objs : Blank(r)' => callbacks'[r] = {}
        BY <1>f, <2>1 DEF CallbackInv, Blank
    <2> QED BY <2>2, <2>3 DEF CallbackInv
<1>31. ASSUME NEW cb \in Cbs, CbDispatch(cb) PROVE CallbackInv'
    <2>1. /\ UNCHANGED <<bitmap, pc, obj, callbacks>> /\ cb \in workq /\ workq' = workq \ {cb}
          /\ calls' = [calls EXCEPT ![cb] = @ + 1]
          /\ FreeNodes({cb}, "ran")
        BY <1>31 DEF CbDispatch, rowBits, locVars
    <2>2. CallbackOnce'
        BY <1>f, <2>1 DEF CallbackInv, CallbackOnce, FreeNodes
    <2>3. \A r \in Objs : Blank(r)' => callbacks'[r] = {}
        BY <1>f, <2>1 DEF CallbackInv, Blank
    <2> QED BY <2>2, <2>3 DEF CallbackInv
<1>32. ASSUME NEW t \in Threads, DestroyFinal(t) PROVE CallbackInv'
    <2> DEFINE o == obj[t]
    <2>1. /\ UNCHANGED <<workq, calls>> /\ bitmap' = bitmap \ {o} /\ Return(t)
          /\ callbacks' = [callbacks EXCEPT ![o] = {}]
          /\ FreeNodes(callbacks[o], "dropped")
        BY <1>32 DEF DestroyFinal, ZeroRow, EmptyLists
    <2>2. o \in Objs
        BY <1>o
    <2>3. CallbackOnce'
        <3>1. ASSUME NEW cb \in Cbs
              PROVE  /\ calls'[cb] = (IF cbLife'[cb] = "ran" THEN 1 ELSE 0)
                     /\ cb \in workq' <=> cbLife'[cb] = "queued"
                     /\ \A r \in Objs : cb \in callbacks'[r] <=> cbLife'[cb] = "listed" /\ cbObj'[cb] = r
            <4>1. CASE cb \in callbacks[o]
                BY <1>f, <2>1, <2>2, <4>1 DEF CallbackInv, CallbackOnce, FreeNodes
            <4>2. CASE cb \notin callbacks[o]
                BY <1>f, <2>1, <2>2, <4>2 DEF CallbackInv, CallbackOnce, FreeNodes
            <4> QED BY <4>1, <4>2
        <3> QED BY <3>1 DEF CallbackOnce
    <2>4. Alone(t) /\ pc'[t] \notin Building
        BY <2>1, ReturnBuilds
    <2>5. \A r \in Objs : Blank(r)' => callbacks'[r] = {}
        BY <1>f, <2>1, <2>2, <2>4 DEF CallbackInv, Blank, Alone
    <2> QED BY <2>3, <2>5 DEF CallbackInv
<1> QED
    BY <1>1, <1>2, <1>3, <1>4, <1>5, <1>6, <1>7, <1>8, <1>9, <1>10, <1>11, <1>12, <1>13,
       <1>14, <1>15, <1>16,
       <1>17, <1>18, <1>19, <1>20, <1>21, <1>22, <1>23, <1>24, <1>25, <1>26, <1>27, <1>28,
       <1>29, <1>30, <1>31, <1>32
       DEF Next, Step, Call, CallOn, Quiescent

(* Whatever callers do and however they race registration, signaling,      *)
(* destruction and the close of the device, no callback runs twice and no  *)
(* node is in two places.                                                  *)
THEOREM CallbacksOnce == Spec => []CallbackOnce
<1>1. Init => OwnInv /\ CallbackInv
    BY OwnInit, CbInit
<1>2. TypeOK /\ OwnInv /\ CallbackInv /\ [Next]_vars => OwnInv' /\ CallbackInv'
    BY OwnStep, CbStep
<1>3. CallbackInv => CallbackOnce
    BY DEF CallbackInv
<1> QED
    BY <1>1, <1>2, <1>3, TypeCorrect, PTL DEF Spec
============================================================================
