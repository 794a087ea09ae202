--------------------------- MODULE CamSyncProofs ---------------------------
(***************************************************************************)
(* Theorems about CamSync, for every number of rows, threads, callbacks    *)
(* and payloads, and for callers that keep no protocol at all.             *)
(***************************************************************************)
EXTENDS CamSync, TLAPS

USE NAssumption, ThreadsAssumption, StatusAssumption, U32Assumption, BoundsAssumption

(* The initial state is well typed. *)
LEMMA TypeInit == Init => TypeOK
BY DEF Init, TypeOK, TableTypeOK, NodeTypeOK, DeviceTypeOK, ThreadTypeOK,
       Objs, States, Signaled, Pcs, Lives

(* Row 1 exists: the default of a thread's row variable is a row. *)
LEMMA OneIsRow == 1 \in Objs
BY DEF Objs

(* Decrement and increment of the unsigned counter stay in its width. *)
LEMMA U32Range ==
    \A n \in 0..(U32 - 1) : (n - 1) % U32 \in 0..(U32 - 1) /\ (n + 1) % U32 \in 0..(U32 - 1)
OBVIOUS

(* A return leaves the local variables well typed. *)
LEMMA ReturnType ==
    ASSUME TypeOK, NEW t \in Threads, Return(t)
    PROVE  ThreadTypeOK'
BY OneIsRow DEF TypeOK, ThreadTypeOK, Return, Goto, Pcs, Signaled

(* Dispatching a row's callbacks and payloads keeps the nodes well typed. *)
LEMMA DispatchType ==
    ASSUME TypeOK, NEW o \in Objs, NEW s \in Signaled, DispatchSignaledCb(o, s),
           UNCHANGED calls
    PROVE  NodeTypeOK' /\ signaled' \in [Objs -> BOOLEAN]
BY DEF TypeOK, TableTypeOK, NodeTypeOK, DispatchSignaledCb, Lives

(* Freeing callback nodes keeps them well typed. *)
LEMMA FreeNodesType ==
    ASSUME TypeOK, NEW S \in SUBSET Cbs, NEW life \in Lives, FreeNodes(S, life)
    PROVE  /\ cbObj' \in [Cbs -> Objs]
           /\ cbSts' \in [Cbs -> Signaled]
           /\ cbLife' \in [Cbs -> Lives]
BY OneIsRow DEF TypeOK, NodeTypeOK, FreeNodes, Signaled

(* Every step keeps the types: one step per operation of the driver, and   *)
(* under it one per group of variables.                                    *)
LEMMA TypeStep == TypeOK /\ [Next]_vars => TypeOK'
<1> SUFFICES ASSUME TypeOK, [Next]_vars PROVE TypeOK'
    OBVIOUS
<1>1. ASSUME NEW t \in Threads, FindZeroBit(t) PROVE TypeOK'
    <2>1. TableTypeOK'
        BY <1>1 DEF TypeOK, FindZeroBit, TableTypeOK, rowBits, linkVars
    <2>2. NodeTypeOK'
        BY <1>1 DEF TypeOK, FindZeroBit, NodeTypeOK, cbVars, payVars
    <2>3. DeviceTypeOK'
        BY <1>1 DEF TypeOK, FindZeroBit, DeviceTypeOK, devVars
    <2>4. ThreadTypeOK'
        BY <1>1, ReturnType DEF TypeOK, FindZeroBit, ThreadTypeOK, Pcs, Goto
    <2> QED BY <2>1, <2>2, <2>3, <2>4 DEF TypeOK
<1>2. ASSUME NEW t \in Threads, TestAndSetBit(t) PROVE TypeOK'
    <2>1. TableTypeOK'
        BY <1>2 DEF TypeOK, TestAndSetBit, TableTypeOK, ThreadTypeOK, rowBits, linkVars
    <2>2. NodeTypeOK'
        BY <1>2 DEF TypeOK, TestAndSetBit, NodeTypeOK, cbVars, payVars
    <2>3. DeviceTypeOK'
        BY <1>2 DEF TypeOK, TestAndSetBit, DeviceTypeOK, devVars
    <2>4. ThreadTypeOK'
        BY <1>2 DEF TypeOK, TestAndSetBit, ThreadTypeOK, Pcs, Goto, locVars
    <2> QED BY <2>1, <2>2, <2>3, <2>4 DEF TypeOK
<1>3. ASSUME NEW t \in Threads, CreateInit(t) PROVE TypeOK'
    <2>1. TableTypeOK'
        BY <1>3
           DEF TypeOK, CreateInit, InitRow, ZeroRow, TableTypeOK, ThreadTypeOK, States,
               rowBits
    <2>2. NodeTypeOK'
        BY <1>3 DEF TypeOK, CreateInit, InitRow, ZeroRow, EmptyLists, NodeTypeOK
    <2>3. DeviceTypeOK'
        BY <1>3 DEF TypeOK, CreateInit, InitRow, DeviceTypeOK, NodeTypeOK, devVars
    <2>4. ThreadTypeOK'
        BY <1>3, ReturnType DEF TypeOK, CreateInit, InitRow, ThreadTypeOK
    <2> QED BY <2>1, <2>2, <2>3, <2>4 DEF TypeOK
<1>4. ASSUME NEW t \in Threads, MergeInit(t) PROVE TypeOK'
    <2>1. TableTypeOK'
        BY <1>4
           DEF TypeOK, MergeInit, InitRow, ZeroRow, TableTypeOK, ThreadTypeOK, States,
               rowBits
    <2>2. NodeTypeOK'
        BY <1>4 DEF TypeOK, MergeInit, InitRow, ZeroRow, EmptyLists, NodeTypeOK
    <2>3. DeviceTypeOK'
        BY <1>4 DEF TypeOK, MergeInit, InitRow, DeviceTypeOK, NodeTypeOK, devVars
    <2>4. ThreadTypeOK'
        BY <1>4 DEF TypeOK, MergeInit, InitRow, ThreadTypeOK, Pcs, Goto
    <2> QED BY <2>1, <2>2, <2>3, <2>4 DEF TypeOK
<1>5. ASSUME NEW t \in Threads, MergeDone(t) PROVE TypeOK'
    <2>1. TableTypeOK'
        <3>1. obj[t] \in Objs
            BY DEF TypeOK, ThreadTypeOK
        <3>2. state' \in [Objs -> States] /\ signaled' \in [Objs -> BOOLEAN]
            <4>1. CASE remaining[obj[t]] = 0
                BY <1>5, <3>1, <4>1
                   DEF TypeOK, MergeDone, AllSignaled, MergedState, TableTypeOK, States,
                   Signaled, BadStates
            <4>2. CASE remaining[obj[t]] # 0
                BY <1>5, <4>2 DEF TypeOK, MergeDone, AllSignaled, TableTypeOK
            <4> QED BY <4>1, <4>2
        <3> QED BY <1>5, <3>2 DEF TypeOK, MergeDone, TableTypeOK, rowBits, linkVars
    <2>2. NodeTypeOK'
        BY <1>5 DEF TypeOK, MergeDone, NodeTypeOK, cbVars, payVars
    <2>3. DeviceTypeOK'
        BY <1>5 DEF TypeOK, MergeDone, DeviceTypeOK, devVars
    <2>4. ThreadTypeOK'
        BY <1>5, ReturnType DEF TypeOK, MergeDone, ThreadTypeOK
    <2> QED BY <2>1, <2>2, <2>3, <2>4 DEF TypeOK
<1>6. ASSUME NEW t \in Threads, MergeUnlink(t) PROVE TypeOK'
    <2>1. TableTypeOK'
        BY <1>6 DEF TypeOK, MergeUnlink, CleanChildren, TableTypeOK, ThreadTypeOK
    <2>2. NodeTypeOK'
        BY <1>6 DEF TypeOK, MergeUnlink, NodeTypeOK, cbVars, payVars
    <2>3. DeviceTypeOK'
        BY <1>6 DEF TypeOK, MergeUnlink, DeviceTypeOK, devVars
    <2>4. ThreadTypeOK'
        BY <1>6, ReturnType DEF TypeOK, MergeUnlink, ThreadTypeOK
    <2> QED BY <2>1, <2>2, <2>3, <2>4 DEF TypeOK
<1>7. ASSUME NEW t \in Threads, NEW o \in Objs, MergeCheck(t, o) PROVE TypeOK'
    <2>1. TableTypeOK'
        BY <1>7 DEF TypeOK, MergeCheck, TableTypeOK, ThreadTypeOK, rowBits, linkVars
    <2>2. NodeTypeOK'
        BY <1>7 DEF TypeOK, MergeCheck, NodeTypeOK, cbVars, payVars
    <2>3. DeviceTypeOK'
        BY <1>7 DEF TypeOK, MergeCheck, DeviceTypeOK, devVars
    <2>4. ThreadTypeOK'
        BY <1>7, ReturnType DEF TypeOK, MergeCheck, ThreadTypeOK, Pcs, Goto
    <2> QED BY <2>1, <2>2, <2>3, <2>4 DEF TypeOK
<1>8. ASSUME NEW t \in Threads, NEW o \in Objs, MergeChild(t, o) PROVE TypeOK'
    <2>1. TableTypeOK'
        BY <1>8, U32Range
           DEF TypeOK, MergeChild, MergeFail, TableTypeOK, ThreadTypeOK, Signaled,
               BadStates, States, rowBits, linkVars
    <2>2. NodeTypeOK'
        BY <1>8 DEF TypeOK, MergeChild, NodeTypeOK, cbVars, payVars
    <2>3. DeviceTypeOK'
        BY <1>8 DEF TypeOK, MergeChild, DeviceTypeOK, devVars
    <2>4. ThreadTypeOK'
        BY <1>8 DEF TypeOK, MergeChild, MergeFail, ThreadTypeOK, Pcs, Goto
    <2> QED BY <2>1, <2>2, <2>3, <2>4 DEF TypeOK
<1>9. ASSUME NEW t \in Threads, NEW S \in SUBSET Objs, MergeStart(t, S) PROVE TypeOK'
    <2>1. TableTypeOK'
        BY <1>9 DEF TypeOK, MergeStart, Idle, TableTypeOK, rowBits, linkVars
    <2>2. NodeTypeOK'
        BY <1>9 DEF TypeOK, MergeStart, Idle, NodeTypeOK, cbVars, payVars
    <2>3. DeviceTypeOK'
        BY <1>9 DEF TypeOK, MergeStart, Idle, DeviceTypeOK, devVars
    <2>4. ThreadTypeOK'
        BY <1>9 DEF TypeOK, MergeStart, Idle, ThreadTypeOK, Pcs, Goto
    <2> QED BY <2>1, <2>2, <2>3, <2>4 DEF TypeOK
<1>10. ASSUME NEW t \in Threads, NEW o \in Objs, SignalParent(t, o) PROVE TypeOK'
    <2>1. TableTypeOK'
        BY <1>10, U32Range
           DEF TypeOK, SignalParent, LeftAfter, UpdateParentState, DispatchSignaledCb,
               NoDispatch, TableTypeOK, ThreadTypeOK, Signaled, BadStates, States, rowBits
    <2>2. NodeTypeOK'
        <3>1. UpdateParentState(o, sts[t]) \in Signaled
            BY DEF TypeOK, ThreadTypeOK, TableTypeOK, UpdateParentState, BadStates, Signaled
        <3>2. CASE NoDispatch
            BY <1>10, <3>2 DEF TypeOK, SignalParent, NoDispatch, NodeTypeOK
        <3>3. CASE DispatchSignaledCb(o, UpdateParentState(o, sts[t]))
            BY <1>10, <3>1, <3>3, DispatchType DEF SignalParent
        <3> QED BY <1>10, <3>2, <3>3 DEF SignalParent
    <2>3. DeviceTypeOK'
        BY <1>10
           DEF TypeOK, SignalParent, UpdateParentState, DispatchSignaledCb, NoDispatch,
               DeviceTypeOK, NodeTypeOK, devVars
    <2>4. ThreadTypeOK'
        BY <1>10, ReturnType
           DEF TypeOK, SignalParent, LeftAfter, UpdateParentState, DispatchSignaledCb,
               NoDispatch, ThreadTypeOK
    <2> QED BY <2>1, <2>2, <2>3, <2>4 DEF TypeOK
<1>11. ASSUME NEW t \in Threads, NEW o \in Objs, DestroyChild(t, o) PROVE TypeOK'
    <2>1. TableTypeOK'
        BY <1>11 DEF TypeOK, DestroyChild, Unlink, TableTypeOK, ThreadTypeOK, rowBits
    <2>2. NodeTypeOK'
        BY <1>11 DEF TypeOK, DestroyChild, NodeTypeOK, cbVars, payVars
    <2>3. DeviceTypeOK'
        BY <1>11 DEF TypeOK, DestroyChild, DeviceTypeOK, devVars
    <2>4. ThreadTypeOK'
        BY <1>11 DEF TypeOK, DestroyChild, Unlink, Teardown, ThreadTypeOK, Pcs, Goto
    <2> QED BY <2>1, <2>2, <2>3, <2>4 DEF TypeOK
<1>12. ASSUME NEW t \in Threads, NEW o \in Objs, DestroyParent(t, o) PROVE TypeOK'
    <2>1. TableTypeOK'
        BY <1>12 DEF TypeOK, DestroyParent, Unlink, TableTypeOK, ThreadTypeOK, rowBits
    <2>2. NodeTypeOK'
        BY <1>12 DEF TypeOK, DestroyParent, NodeTypeOK, cbVars, payVars
    <2>3. DeviceTypeOK'
        BY <1>12 DEF TypeOK, DestroyParent, DeviceTypeOK, devVars
    <2>4. ThreadTypeOK'
        BY <1>12 DEF TypeOK, DestroyParent, Unlink, Teardown, ThreadTypeOK, Pcs, Goto
    <2> QED BY <2>1, <2>2, <2>3, <2>4 DEF TypeOK
<1>13. ASSUME NEW t \in Threads, DestroyFinal(t) PROVE TypeOK'
    <2>1. TableTypeOK'
        BY <1>13 DEF TypeOK, DestroyFinal, ZeroRow, TableTypeOK, ThreadTypeOK, States
    <2>2. NodeTypeOK'
        BY <1>13, FreeNodesType
           DEF TypeOK, DestroyFinal, ZeroRow, EmptyLists, NodeTypeOK, TableTypeOK,
               ThreadTypeOK,
           States, Signaled, Lives, payVars
    <2>3. DeviceTypeOK'
        BY <1>13 DEF TypeOK, DestroyFinal, DeviceTypeOK, NodeTypeOK, devVars
    <2>4. ThreadTypeOK'
        BY <1>13, ReturnType DEF TypeOK, DestroyFinal, ThreadTypeOK
    <2> QED BY <2>1, <2>2, <2>3, <2>4 DEF TypeOK
<1>14. ASSUME NEW t \in Threads, WaitReturn(t) PROVE TypeOK'
    <2>1. TableTypeOK'
        BY <1>14 DEF TypeOK, WaitReturn, TableTypeOK, rowBits, linkVars
    <2>2. NodeTypeOK'
        BY <1>14 DEF TypeOK, WaitReturn, NodeTypeOK, cbVars, payVars
    <2>3. DeviceTypeOK'
        BY <1>14 DEF TypeOK, WaitReturn, DeviceTypeOK, devVars
    <2>4. ThreadTypeOK'
        BY <1>14, ReturnType DEF TypeOK, WaitReturn, ThreadTypeOK
    <2> QED BY <2>1, <2>2, <2>3, <2>4 DEF TypeOK
<1>15. ASSUME NEW t \in Threads, CloseSignal(t) PROVE TypeOK'
    <2>1. TableTypeOK'
        BY <1>15 DEF TypeOK, CloseSignal, TableTypeOK, rowBits, linkVars
    <2>2. NodeTypeOK'
        BY <1>15 DEF TypeOK, CloseSignal, NodeTypeOK, cbVars, payVars
    <2>3. DeviceTypeOK'
        BY <1>15 DEF TypeOK, CloseSignal, DeviceTypeOK
    <2>4. ThreadTypeOK'
        <3>1. cursor <= N => cursor \in Objs
            BY DEF TypeOK, DeviceTypeOK, Objs
        <3> QED BY <1>15, <3>1 DEF TypeOK, CloseSignal, ThreadTypeOK, Pcs, Signaled, Goto
    <2> QED BY <2>1, <2>2, <2>3, <2>4 DEF TypeOK
<1>16. ASSUME NEW t \in Threads, CloseFlush(t) PROVE TypeOK'
    <2>1. TableTypeOK'
        BY <1>16 DEF TypeOK, CloseFlush, TableTypeOK, rowBits, linkVars
    <2>2. NodeTypeOK'
        BY <1>16 DEF TypeOK, CloseFlush, NodeTypeOK, cbVars, payVars
    <2>3. DeviceTypeOK'
        BY <1>16 DEF TypeOK, CloseFlush, DeviceTypeOK, NodeTypeOK
    <2>4. ThreadTypeOK'
        BY <1>16 DEF TypeOK, CloseFlush, DeviceTypeOK, ThreadTypeOK, locVars
    <2> QED BY <2>1, <2>2, <2>3, <2>4 DEF TypeOK
<1>17. ASSUME NEW t \in Threads, CloseDestroy(t) PROVE TypeOK'
    <2>1. TableTypeOK'
        BY <1>17 DEF TypeOK, CloseDestroy, TableTypeOK, rowBits, linkVars
    <2>2. NodeTypeOK'
        BY <1>17 DEF TypeOK, CloseDestroy, NodeTypeOK, cbVars, payVars
    <2>3. DeviceTypeOK'
        BY <1>17 DEF TypeOK, CloseDestroy, DeviceTypeOK
    <2>4. ThreadTypeOK'
        <3>1. cursor <= N => cursor \in Objs
            BY DEF TypeOK, DeviceTypeOK, Objs
        <3> QED BY <1>17, <3>1 DEF TypeOK, CloseDestroy, ThreadTypeOK, Pcs, Signaled, Goto
    <2> QED BY <2>1, <2>2, <2>3, <2>4 DEF TypeOK
<1>18. ASSUME NEW t \in Threads, CloseEnd(t) PROVE TypeOK'
    <2>1. TableTypeOK'
        BY <1>18 DEF TypeOK, CloseEnd, TableTypeOK, rowBits, linkVars
    <2>2. NodeTypeOK'
        BY <1>18 DEF TypeOK, CloseEnd, NodeTypeOK, cbVars, payVars
    <2>3. DeviceTypeOK'
        BY <1>18 DEF TypeOK, CloseEnd, DeviceTypeOK
    <2>4. ThreadTypeOK'
        BY <1>18 DEF TypeOK, CloseEnd, DeviceTypeOK, ThreadTypeOK, Pcs, Goto, locVars
    <2> QED BY <2>1, <2>2, <2>3, <2>4 DEF TypeOK
<1>19. ASSUME NEW t \in Threads, Open(t) PROVE TypeOK'
    <2>1. TableTypeOK'
        BY <1>19 DEF TypeOK, Open, TableTypeOK, rowBits, linkVars
    <2>2. NodeTypeOK'
        BY <1>19 DEF TypeOK, Open, NodeTypeOK, cbVars, payVars
    <2>3. DeviceTypeOK'
        BY <1>19 DEF TypeOK, Open, DeviceTypeOK
    <2>4. ThreadTypeOK'
        BY <1>19 DEF TypeOK, Open, DeviceTypeOK, ThreadTypeOK, locVars
    <2> QED BY <2>1, <2>2, <2>3, <2>4 DEF TypeOK
<1>20. ASSUME NEW t \in Threads, CloseStart(t) PROVE TypeOK'
    <2>1. TableTypeOK'
        BY <1>20 DEF TypeOK, CloseStart, TableTypeOK, rowBits, linkVars
    <2>2. NodeTypeOK'
        BY <1>20 DEF TypeOK, CloseStart, NodeTypeOK, cbVars, payVars
    <2>3. DeviceTypeOK'
        BY <1>20 DEF TypeOK, CloseStart, DeviceTypeOK
    <2>4. ThreadTypeOK'
        BY <1>20 DEF TypeOK, CloseStart, DeviceTypeOK, ThreadTypeOK, Pcs, Goto, locVars
    <2> QED BY <2>1, <2>2, <2>3, <2>4 DEF TypeOK
<1>21. ASSUME NEW t \in Threads, NEW o \in Objs, GetObjRef(t, o) PROVE TypeOK'
    <2>1. TableTypeOK'
        BY <1>21 DEF TypeOK, GetObjRef, TableTypeOK, ThreadTypeOK, rowBits, linkVars
    <2>2. NodeTypeOK'
        BY <1>21 DEF TypeOK, GetObjRef, NodeTypeOK, cbVars, payVars
    <2>3. DeviceTypeOK'
        BY <1>21 DEF TypeOK, GetObjRef, DeviceTypeOK, devVars
    <2>4. ThreadTypeOK'
        BY <1>21 DEF TypeOK, GetObjRef, ThreadTypeOK, locVars
    <2> QED BY <2>1, <2>2, <2>3, <2>4 DEF TypeOK
<1>22. ASSUME NEW t \in Threads, NEW o \in Objs, PutObjRef(t, o) PROVE TypeOK'
    <2>1. TableTypeOK'
        BY <1>22 DEF TypeOK, PutObjRef, TableTypeOK, ThreadTypeOK, rowBits, linkVars
    <2>2. NodeTypeOK'
        BY <1>22 DEF TypeOK, PutObjRef, NodeTypeOK, cbVars, payVars
    <2>3. DeviceTypeOK'
        BY <1>22 DEF TypeOK, PutObjRef, DeviceTypeOK, devVars
    <2>4. ThreadTypeOK'
        BY <1>22 DEF TypeOK, PutObjRef, ThreadTypeOK, locVars
    <2> QED BY <2>1, <2>2, <2>3, <2>4 DEF TypeOK
<1>23. ASSUME NEW t \in Threads, NEW o \in Objs, WaitStart(t, o) PROVE TypeOK'
    <2>1. TableTypeOK'
        BY <1>23 DEF TypeOK, WaitStart, TableTypeOK, rowBits, linkVars
    <2>2. NodeTypeOK'
        BY <1>23 DEF TypeOK, WaitStart, NodeTypeOK, cbVars, payVars
    <2>3. DeviceTypeOK'
        BY <1>23 DEF TypeOK, WaitStart, DeviceTypeOK, devVars
    <2>4. ThreadTypeOK'
        BY <1>23 DEF TypeOK, WaitStart, ThreadTypeOK, Pcs, Goto
    <2> QED BY <2>1, <2>2, <2>3, <2>4 DEF TypeOK
<1>24. ASSUME NEW t \in Threads, NEW o \in Objs, DestroyMark(t, o) PROVE TypeOK'
    <2>1. TableTypeOK'
        BY <1>24 DEF TypeOK, DestroyMark, TableTypeOK, ThreadTypeOK, States, rowBits
    <2>2. NodeTypeOK'
        BY <1>24 DEF TypeOK, DestroyMark, NodeTypeOK, cbVars, payVars
    <2>3. DeviceTypeOK'
        BY <1>24 DEF TypeOK, DestroyMark, DeviceTypeOK, devVars
    <2>4. ThreadTypeOK'
        <3>1. CASE Return(t)
            BY <3>1, ReturnType
        <3>2. CASE /\ obj' = [obj EXCEPT ![t] = o] /\ UNCHANGED sts
                   /\ Teardown(t, children[o], parents[o])
            BY <3>2 DEF TypeOK, TableTypeOK, ThreadTypeOK, Teardown, Goto, Pcs
        <3> QED BY <1>24, <3>1, <3>2 DEF DestroyMark
    <2> QED BY <2>1, <2>2, <2>3, <2>4 DEF TypeOK
<1>25. ASSUME NEW t \in Threads, NEW o \in Objs, NEW s \in Signaled, SignalRow(t, o, s)
       PROVE  TypeOK'
    <2> DEFINE refused == NoDispatch /\ Return(t) /\ UNCHANGED <<state, parents, bad>>
                          /\ refCnt' \in [Objs -> Int]
               signals == /\ refCnt' = [refCnt EXCEPT ![o] = 0]
                          /\ state' = [state EXCEPT ![o] = s]
                          /\ DispatchSignaledCb(o, s)
                          /\ parents' = [parents EXCEPT ![o] = {}]
                          /\ bad' = IF s \in BadStates THEN bad \cup parents[o] ELSE bad
                          /\ IF parents[o] = {} THEN Return(t)
                             ELSE /\ todo' = [todo EXCEPT ![t] = parents[o]]
                                  /\ obj' = [obj EXCEPT ![t] = o]
                                  /\ sts' = [sts EXCEPT ![t] = s]
                                  /\ Goto(t, "parents")
                                  /\ UNCHANGED args
               rest == UNCHANGED <<rowBits, type, remaining, children, calls, devVars>>
    <2>1. rest
        BY <1>25 DEF SignalRow
    <2>2. refused \/ signals
        BY <1>25 DEF SignalRow, TypeOK, TableTypeOK
    <2>3. CASE refused
        <3>1. TableTypeOK'
            BY <2>1, <2>3 DEF TypeOK, TableTypeOK, NoDispatch, rowBits
        <3>2. NodeTypeOK'
            BY <2>1, <2>3 DEF TypeOK, NodeTypeOK, NoDispatch
        <3>3. DeviceTypeOK'
            BY <2>1 DEF TypeOK, DeviceTypeOK, devVars
        <3> QED BY <2>3, <3>1, <3>2, <3>3, ReturnType DEF TypeOK
    <2>4. CASE signals
        <3>1. NodeTypeOK' /\ signaled' \in [Objs -> BOOLEAN]
            BY <2>1, <2>4, DispatchType
        <3>2. TableTypeOK'
            <4>1. bad' \in SUBSET Objs
                BY <2>4 DEF TypeOK, TableTypeOK
            <4>2. /\ refCnt' = [refCnt EXCEPT ![o] = 0]
                  /\ state' = [state EXCEPT ![o] = s]
                  /\ parents' = [parents EXCEPT ![o] = {}]
                BY <2>4
            <4> QED BY <2>1, <3>1, <4>1, <4>2 DEF TypeOK, TableTypeOK, States, rowBits
        <3>3. DeviceTypeOK'
            BY <2>1 DEF TypeOK, DeviceTypeOK, devVars
        <3>4. ThreadTypeOK'
            <4>1. CASE parents[o] = {}
                BY <2>4, <4>1, ReturnType
            <4>2. CASE parents[o] # {}
                <5>1. /\ todo' = [todo EXCEPT ![t] = parents[o]]
                      /\ obj' = [obj EXCEPT ![t] = o]
                      /\ sts' = [sts EXCEPT ![t] = s]
                      /\ pc' = [pc EXCEPT ![t] = "parents"]
                      /\ args' = args
                    BY <2>4, <4>2 DEF Goto
                <5>2. parents[o] \in SUBSET Objs /\ "parents" \in Pcs
                    BY DEF TypeOK, TableTypeOK, Pcs
                <5> QED BY <5>1, <5>2 DEF TypeOK, ThreadTypeOK
            <4> QED BY <4>1, <4>2
        <3> QED BY <3>1, <3>2, <3>3, <3>4 DEF TypeOK
    <2> HIDE DEF refused, signals
    <2> QED BY <2>2, <2>3, <2>4
<1>26. ASSUME NEW t \in Threads, NEW o \in Objs, NEW s \in Statuses, HandleSignal(t, o, s)
       PROVE TypeOK'
    <2>1. TableTypeOK'
        BY <1>26 DEF TypeOK, HandleSignal, TableTypeOK, ThreadTypeOK, rowBits, linkVars
    <2>2. NodeTypeOK'
        BY <1>26 DEF TypeOK, HandleSignal, NodeTypeOK, cbVars, payVars
    <2>3. DeviceTypeOK'
        BY <1>26 DEF TypeOK, HandleSignal, DeviceTypeOK, devVars
    <2>4. ThreadTypeOK'
        BY <1>26 DEF TypeOK, HandleSignal, ThreadTypeOK, Pcs, Goto, Signaled
    <2> QED BY <2>1, <2>2, <2>3, <2>4 DEF TypeOK
<1>27. ASSUME NEW t \in Threads, NEW o \in Objs, NEW cb \in Cbs, RegisterCallback(t, o, cb)
       PROVE TypeOK'
    <2>1. TableTypeOK'
        BY <1>27 DEF TypeOK, RegisterCallback, TableTypeOK, ThreadTypeOK, rowBits, linkVars
    <2>2. NodeTypeOK'
        <3>1. UNCHANGED payVars
            BY <1>27 DEF RegisterCallback
        <3>2. CASE state[o] \in Signaled /\ remaining[o] = 0 /\ UNCHANGED calls
            BY <1>27, <3>1, <3>2
               DEF TypeOK, RegisterCallback, CallbackDue, NodeTypeOK, Lives, payVars
        <3>3. CASE state[o] \in Signaled /\ remaining[o] = 0 /\ FreeNodes({cb}, "ran")
            BY <1>27, <3>1, <3>3, FreeNodesType, "ran" \in Lives
               DEF TypeOK, RegisterCallback, CallbackDue, NodeTypeOK, Lives, payVars
        <3>4. CASE ~(state[o] \in Signaled /\ remaining[o] = 0)
            BY <1>27, <3>1, <3>4
               DEF TypeOK, RegisterCallback, CallbackDue, NodeTypeOK, Lives, payVars
        <3> QED BY <1>27, <3>2, <3>3, <3>4 DEF RegisterCallback, CallbackDue
    <2>3. DeviceTypeOK'
        BY <1>27 DEF TypeOK, RegisterCallback, DeviceTypeOK, NodeTypeOK, devVars
    <2>4. ThreadTypeOK'
        BY <1>27 DEF TypeOK, RegisterCallback, ThreadTypeOK, locVars
    <2> QED BY <2>1, <2>2, <2>3, <2>4 DEF TypeOK
<1>28. ASSUME NEW t \in Threads, NEW o \in Objs, NEW cb \in Cbs, DeregisterCallback(t, o, cb)
       PROVE TypeOK'
    <2>1. TableTypeOK'
        BY <1>28
           DEF TypeOK, DeregisterCallback, TableTypeOK, ThreadTypeOK, rowBits, linkVars
    <2>2. NodeTypeOK'
        BY <1>28, FreeNodesType
           DEF TypeOK, DeregisterCallback, NodeTypeOK, TableTypeOK, ThreadTypeOK,
           States, Signaled, Lives, payVars
    <2>3. DeviceTypeOK'
        BY <1>28 DEF TypeOK, DeregisterCallback, DeviceTypeOK, NodeTypeOK, devVars
    <2>4. ThreadTypeOK'
        BY <1>28 DEF TypeOK, DeregisterCallback, ThreadTypeOK, locVars
    <2> QED BY <2>1, <2>2, <2>3, <2>4 DEF TypeOK
<1>29. ASSUME NEW t \in Threads, NEW o \in Objs, NEW pl \in Payloads, RegisterUserPayload(t, o, pl)
       PROVE TypeOK'
    <2>1. TableTypeOK'
        BY <1>29
           DEF TypeOK, RegisterUserPayload, TableTypeOK, ThreadTypeOK, rowBits, linkVars
    <2>2. NodeTypeOK'
        <3>1. CASE state[o] \in Signaled
            BY <1>29, <3>1 DEF TypeOK, RegisterUserPayload, PayloadDue, NodeTypeOK, cbVars
        <3>2. CASE state[o] \notin Signaled
            BY <1>29, <3>2 DEF TypeOK, RegisterUserPayload, PayloadDue, NodeTypeOK, cbVars
        <3> QED BY <3>1, <3>2
    <2>3. DeviceTypeOK'
        BY <1>29 DEF TypeOK, RegisterUserPayload, DeviceTypeOK, devVars
    <2>4. ThreadTypeOK'
        BY <1>29 DEF TypeOK, RegisterUserPayload, ThreadTypeOK, locVars
    <2> QED BY <2>1, <2>2, <2>3, <2>4 DEF TypeOK
<1>30. ASSUME NEW t \in Threads, NEW o \in Objs, NEW pl \in Payloads, DeregisterUserPayload(t, o, pl)
       PROVE TypeOK'
    <2>1. TableTypeOK'
        BY <1>30
           DEF TypeOK, DeregisterUserPayload, TableTypeOK, ThreadTypeOK, rowBits, linkVars
    <2>2. NodeTypeOK'
        BY <1>30 DEF TypeOK, DeregisterUserPayload, NodeTypeOK, cbVars
    <2>3. DeviceTypeOK'
        BY <1>30 DEF TypeOK, DeregisterUserPayload, DeviceTypeOK, devVars
    <2>4. ThreadTypeOK'
        BY <1>30 DEF TypeOK, DeregisterUserPayload, ThreadTypeOK, locVars
    <2> QED BY <2>1, <2>2, <2>3, <2>4 DEF TypeOK
<1>31. ASSUME NEW cb \in Cbs, CbDispatch(cb) PROVE TypeOK'
    <2>1. TableTypeOK'
        BY <1>31 DEF TypeOK, CbDispatch, TableTypeOK, rowBits, linkVars
    <2>2. NodeTypeOK'
        BY <1>31, FreeNodesType
           DEF TypeOK, CbDispatch, NodeTypeOK, TableTypeOK, ThreadTypeOK,
           States, Signaled, Lives, payVars
    <2>3. DeviceTypeOK'
        BY <1>31 DEF TypeOK, CbDispatch, FreeNodes, DeviceTypeOK, NodeTypeOK, devVars
    <2>4. ThreadTypeOK'
        BY <1>31, OneIsRow, ReturnType
           DEF TypeOK, CbDispatch, FreeNodes, TableTypeOK, DeviceTypeOK, ThreadTypeOK, Pcs,
               Signaled, locVars, Goto
    <2> QED BY <2>1, <2>2, <2>3, <2>4 DEF TypeOK
<1>32. CASE UNCHANGED vars
    BY <1>32 DEF vars, rowBits, linkVars, cbVars, payVars, devVars, locVars,
       TypeOK, TableTypeOK, NodeTypeOK, DeviceTypeOK, ThreadTypeOK
<1> QED
    BY <1>1, <1>2, <1>3, <1>4, <1>5, <1>6, <1>7, <1>8, <1>9, <1>10, <1>11, <1>12, <1>13,
       <1>14, <1>15, <1>16, <1>17, <1>18, <1>19, <1>20, <1>21, <1>22, <1>23, <1>24, <1>25,
       <1>26, <1>27, <1>28, <1>29, <1>30, <1>31, <1>32
       DEF Next, Step, Call, CallOn, Quiescent

(* The driver keeps every variable of its table, its work queue and its    *)
(* calls in progress well typed, "remaining" within its unsigned width.    *)
THEOREM TypeCorrect == Spec => []TypeOK
<1>1. Init => TypeOK
    BY TypeInit
<1>2. TypeOK /\ [Next]_vars => TypeOK'
    BY TypeStep
<1> QED
    BY <1>1, <1>2, PTL DEF Spec

----------------------------------------------------------------------------
(* No step of a thread changes the program counter or the row variable of  *)
(* another thread.                                                         *)
Alone(t) == \A u \in Threads \ {t} : pc'[u] = pc[u] /\ obj'[u] = obj[u]

(* A step of thread t that claims and frees no row, makes no row valid and *)
(* at most invalidates the row t is merging, keeps the ownership of rows.  *)
LEMMA OwnFrame ==
    ASSUME TypeOK, OwnInv, NEW t \in Threads, Alone(t), bitmap' = bitmap,
           \A r \in Objs : Live(r)' => Live(r),
           \A r \in Objs : Live(r) /\ ~Live(r)' => r = obj[t] /\ pc[t] = "child",
           Owner(t)' => Owner(t) /\ obj'[t] = obj[t] /\ (Live(obj[t])' <=> pc'[t] = "child")
    PROVE  OwnInv'
<1>1. \A u \in Threads : obj[u] \in Objs
    BY DEF TypeOK, ThreadTypeOK
<1>2. \A u \in Threads : Owner(u)' => Owner(u) /\ obj'[u] = obj[u]
    BY DEF Alone, Owner
<1>3. RowOwnership'
    BY <1>2 DEF OwnInv, RowOwnership
<1>4. ASSUME NEW u \in Threads, Owner(u)' PROVE (Live(obj[u]) <=> pc[u] = "child")'
    <2>1. CASE u = t
        BY <1>4, <2>1
    <2>2. CASE u # t
        <3>1. Owner(u) /\ obj'[u] = obj[u] /\ pc'[u] = pc[u] /\ obj[u] \in Objs
            BY <1>1, <1>2, <1>4, <2>2 DEF Alone
        <3>2. pc[t] = "child" => obj[u] # obj[t]
            BY <2>2, <3>1 DEF OwnInv, RowOwnership, Owner, Owning
        <3>3. Live(obj[u])' <=> Live(obj[u])
            BY <3>1, <3>2
        <3>4. Live(obj[u]) <=> pc[u] = "child"
            BY <3>1 DEF OwnInv
        <3> QED BY <3>1, <3>3, <3>4 DEF Live
    <2> QED BY <2>1, <2>2
<1> QED BY <1>3, <1>4 DEF OwnInv

(* A step that leaves rows and threads alone keeps the ownership of rows. *)
LEMMA OwnUnchanged ==
    ASSUME OwnInv, UNCHANGED <<bitmap, state, pc, obj>>
    PROVE  OwnInv'
BY DEF OwnInv, RowOwnership, Owner, Live

(* A return ends a thread's ownership of a row and touches no other thread. *)
LEMMA ReturnDisowns ==
    ASSUME TypeOK, NEW t \in Threads, Return(t)
    PROVE  Alone(t) /\ ~Owner(t)'
BY DEF TypeOK, ThreadTypeOK, Return, Goto, Alone, Owner, Owning

(* So does the other way on from a step: t keeps its row, or never had one. *)
LEMMA GotoAlone ==
    ASSUME TypeOK, NEW t \in Threads, NEW p, Goto(t, p),
           \A u \in Threads \ {t} : obj'[u] = obj[u]
    PROVE  Alone(t) /\ pc'[t] = p
BY DEF TypeOK, ThreadTypeOK, Goto, Alone

(* Nothing is owned and no row is valid when the driver is loaded. *)
LEMMA OwnInit == Init => OwnInv
BY DEF Init, OwnInv, RowOwnership, Owner, Owning, Live

(* Every step keeps the ownership of rows.  Most are instances of OwnFrame; *)
(* the others claim a row, publish it, free it or start to destroy it.      *)
LEMMA OwnStep == TypeOK /\ OwnInv /\ [Next]_vars => OwnInv'
<1> SUFFICES ASSUME TypeOK, OwnInv, [Next]_vars PROVE OwnInv'
    OBVIOUS
<1>o. \A u \in Threads : obj[u] \in Objs /\ pc[u] \in Pcs
    BY DEF TypeOK, ThreadTypeOK
<1>s. \A r \in Objs : state[r] \in States
    BY DEF TypeOK, TableTypeOK
<1>f. DOMAIN state = Objs /\ DOMAIN pc = Threads /\ DOMAIN obj = Threads
    BY DEF TypeOK, ThreadTypeOK, TableTypeOK
<1>1. ASSUME NEW t \in Threads, FindZeroBit(t) PROVE OwnInv'
    BY <1>1, <1>o, <1>s, OwnFrame, ReturnDisowns
       DEF FindZeroBit, Idle, Alone, Goto, Live, Owner, Owning, States, Signaled,
           rowBits, TypeOK, ThreadTypeOK, TableTypeOK
<1>2. ASSUME NEW t \in Threads, WaitReturn(t) PROVE OwnInv'
    BY <1>2, <1>o, <1>s, OwnFrame, ReturnDisowns
       DEF WaitReturn, Alone, Goto, Live, Owner, Owning, States, Signaled,
           rowBits, TypeOK, ThreadTypeOK, TableTypeOK
<1>3. ASSUME NEW t \in Threads, CloseSignal(t) PROVE OwnInv'
    BY <1>3, <1>o, <1>s, OwnFrame, ReturnDisowns
       DEF CloseSignal, Alone, Goto, Live, Owner, Owning, States, Signaled,
           rowBits, TypeOK, ThreadTypeOK, TableTypeOK
<1>4. ASSUME NEW t \in Threads, CloseFlush(t) PROVE OwnInv'
    BY <1>4, <1>o, <1>s, OwnFrame, ReturnDisowns
       DEF CloseFlush, locVars, Alone, Goto, Live, Owner, Owning, States, Signaled,
           rowBits, TypeOK, ThreadTypeOK, TableTypeOK
<1>5. ASSUME NEW t \in Threads, CloseDestroy(t) PROVE OwnInv'
    BY <1>5, <1>o, <1>s, OwnFrame, ReturnDisowns
       DEF CloseDestroy, Alone, Goto, Live, Owner, Owning, States, Signaled,
           rowBits, TypeOK, ThreadTypeOK, TableTypeOK
<1>6. ASSUME NEW t \in Threads, CloseEnd(t) PROVE OwnInv'
    BY <1>6, <1>o, <1>s, OwnFrame, ReturnDisowns
       DEF CloseEnd, locVars, Alone, Goto, Live, Owner, Owning, States, Signaled,
           rowBits, TypeOK, ThreadTypeOK, TableTypeOK
<1>7. ASSUME NEW t \in Threads, CloseStart(t) PROVE OwnInv'
    BY <1>7, <1>o, <1>s, OwnFrame, ReturnDisowns
       DEF CloseStart, Idle, locVars, Alone, Goto, Live, Owner, Owning, States, Signaled,
           rowBits, TypeOK, ThreadTypeOK, TableTypeOK
<1>8. ASSUME NEW t \in Threads, NEW o \in Objs, MergeCheck(t, o) PROVE OwnInv'
    BY <1>8, <1>o, <1>s, OwnFrame, ReturnDisowns
       DEF MergeCheck, Alone, Goto, Live, Owner, Owning, States, Signaled,
           rowBits, TypeOK, ThreadTypeOK, TableTypeOK
<1>9. ASSUME NEW t \in Threads, NEW o \in Objs, WaitStart(t, o) PROVE OwnInv'
    BY <1>9, <1>o, <1>s, OwnFrame, ReturnDisowns
       DEF WaitStart, Idle, Alone, Goto, Live, Owner, Owning, States, Signaled,
           rowBits, TypeOK, ThreadTypeOK, TableTypeOK
<1>10. ASSUME NEW t \in Threads, NEW S \in SUBSET Objs, MergeStart(t, S) PROVE OwnInv'
    BY <1>10, <1>o, <1>s, OwnFrame, ReturnDisowns
       DEF MergeStart, Idle, Alone, Goto, Live, Owner, Owning, States, Signaled,
           rowBits, TypeOK, ThreadTypeOK, TableTypeOK
<1>11. ASSUME NEW t \in Threads, NEW o \in Objs, NEW s \in Statuses, HandleSignal(t, o, s)
       PROVE OwnInv'
    BY <1>11, <1>o, <1>s, OwnFrame, ReturnDisowns
       DEF HandleSignal, Idle, Alone, Goto, Live, Owner, Owning, States, Signaled,
           rowBits, TypeOK, ThreadTypeOK, TableTypeOK
<1>12. ASSUME NEW t \in Threads, Open(t) PROVE OwnInv'
    BY <1>12, OwnUnchanged DEF Open, rowBits, locVars
<1>13. ASSUME NEW t \in Threads, NEW o \in Objs, GetObjRef(t, o) PROVE OwnInv'
    BY <1>13, OwnUnchanged DEF GetObjRef, rowBits, locVars
<1>14. ASSUME NEW t \in Threads, NEW o \in Objs, PutObjRef(t, o) PROVE OwnInv'
    BY <1>14, OwnUnchanged DEF PutObjRef, rowBits, locVars
<1>15. ASSUME NEW t \in Threads, NEW o \in Objs, NEW cb \in Cbs,
             RegisterCallback(t, o, cb)
      PROVE  OwnInv'
    BY <1>15, OwnUnchanged DEF RegisterCallback, rowBits, locVars
<1>16. ASSUME NEW t \in Threads, NEW o \in Objs, NEW cb \in Cbs,
             DeregisterCallback(t, o, cb)
      PROVE  OwnInv'
    BY <1>16, OwnUnchanged DEF DeregisterCallback, rowBits, locVars
<1>17. ASSUME NEW t \in Threads, NEW o \in Objs, NEW pl \in Payloads,
             RegisterUserPayload(t, o, pl)
      PROVE  OwnInv'
    BY <1>17, OwnUnchanged DEF RegisterUserPayload, rowBits, locVars
<1>18. ASSUME NEW t \in Threads, NEW o \in Objs, NEW pl \in Payloads,
             DeregisterUserPayload(t, o, pl)
      PROVE  OwnInv'
    BY <1>18, OwnUnchanged DEF DeregisterUserPayload, rowBits, locVars
<1>19. ASSUME NEW cb \in Cbs, CbDispatch(cb) PROVE OwnInv'
    BY <1>19, OwnUnchanged DEF CbDispatch, rowBits, locVars
<1>20. CASE UNCHANGED vars
    BY <1>20, OwnUnchanged DEF vars, rowBits, locVars
<1>21. ASSUME NEW t \in Threads, MergeDone(t) PROVE OwnInv'
    <2>1. bitmap' = bitmap /\ Return(t)
        BY <1>21 DEF MergeDone, rowBits
    <2>2. \A r \in Objs : Live(r)' <=> Live(r)
        <3>1. CASE remaining[obj[t]] = 0
            <4>1. Live(obj[t])
                BY <1>21 DEF MergeDone, OwnInv, Owner, Owning
            <4> QED BY <1>21, <1>o, <1>f, <3>1, <4>1
                       DEF MergeDone, AllSignaled, MergedState, Live, BadStates
        <3>2. CASE remaining[obj[t]] # 0
            BY <1>21, <3>2 DEF MergeDone, AllSignaled, Live
        <3> QED BY <3>1, <3>2
    <2> QED BY <2>1, <2>2, OwnFrame, ReturnDisowns
<1>22. ASSUME NEW t \in Threads, NEW o \in Objs, MergeChild(t, o) PROVE OwnInv'
    <2> DEFINE g == obj[t]
    <2>1. bitmap' = bitmap /\ obj' = obj /\ pc[t] = "child" /\ g \in Objs /\ Live(g)
        BY <1>22, <1>o DEF MergeChild, rowBits, OwnInv, Owner, Owning
    <2>2. \/ state' = [state EXCEPT ![g] = "INVALID"] /\ Goto(t, "unlink")
          \/ state' = [state EXCEPT ![g] = state[o]] /\ pc' = pc /\ Live(o)
          \/ state' = state /\ pc' = pc
        BY <1>22, <1>s DEF MergeChild, MergeFail, Live, BadStates
    <2>3. Alone(t)
        BY <2>1, <2>2, GotoAlone DEF Alone
    <2>4. \A r \in Objs : /\ Live(r)' => Live(r)
                          /\ Live(r) /\ ~Live(r)' => r = g
        BY <2>1, <2>2, <1>f DEF Live
    <2>5. Owner(t)' => Owner(t) /\ (Live(g)' <=> pc'[t] = "child")
        BY <2>1, <2>2, <1>f, GotoAlone DEF Live, Owner, Owning
    <2> QED BY <2>1, <2>3, <2>4, <2>5, OwnFrame
<1>23. ASSUME NEW t \in Threads, NEW o \in Objs, DestroyChild(t, o) PROVE OwnInv'
    <2>1. UNCHANGED <<bitmap, state, obj>> /\ pc[t] = "dchild"
        BY <1>23 DEF DestroyChild, rowBits
    <2>2. PICK p \in {"dchild", "dparent", "dfinal"} : Goto(t, p)
        BY <1>23 DEF DestroyChild, Teardown
    <2>3. Alone(t) /\ pc'[t] = p
        BY <2>1, <2>2, GotoAlone
    <2>4. ~Live(obj[t])
        BY <2>1 DEF OwnInv, Owner, Owning
    <2>5. \A r \in Objs : Live(r)' <=> Live(r)
        BY <2>1 DEF Live
    <2>6. Owner(t) /\ ~Live(obj[t])' /\ pc'[t] # "child"
        BY <2>1, <2>3, <2>4 DEF Live, Owner, Owning
    <2> QED BY <2>1, <2>3, <2>5, <2>6, OwnFrame
<1>24. ASSUME NEW t \in Threads, NEW o \in Objs, DestroyParent(t, o) PROVE OwnInv'
    <2>1. UNCHANGED <<bitmap, state, obj>> /\ pc[t] = "dparent"
        BY <1>24 DEF DestroyParent, rowBits
    <2>2. PICK p \in {"dchild", "dparent", "dfinal"} : Goto(t, p)
        BY <1>24 DEF DestroyParent, Teardown
    <2>3. Alone(t) /\ pc'[t] = p
        BY <2>1, <2>2, GotoAlone
    <2>4. ~Live(obj[t])
        BY <2>1 DEF OwnInv, Owner, Owning
    <2>5. \A r \in Objs : Live(r)' <=> Live(r)
        BY <2>1 DEF Live
    <2>6. Owner(t) /\ ~Live(obj[t])' /\ pc'[t] # "child"
        BY <2>1, <2>3, <2>4 DEF Live, Owner, Owning
    <2> QED BY <2>1, <2>3, <2>5, <2>6, OwnFrame
<1>25. ASSUME NEW t \in Threads, NEW o \in Objs, SignalParent(t, o) PROVE OwnInv'
    <2>1. bitmap' = bitmap /\ pc[t] = "parents" /\ (Return(t) \/ UNCHANGED <<pc, obj>>)
        BY <1>25 DEF SignalParent, rowBits
    <2>2. \A r \in Objs : Live(r)' <=> Live(r)
        <3>1. UpdateParentState(o, sts[t]) # "INVALID"
            BY DEF TypeOK, ThreadTypeOK, UpdateParentState, BadStates, Signaled
        <3>2. state' = state \/ (Live(o) /\ state' = [state EXCEPT ![o] = UpdateParentState(o, sts[t])])
            BY <1>25 DEF SignalParent
        <3> QED BY <3>1, <3>2, <1>f DEF Live
    <2>3. Alone(t) /\ ~Owner(t)'
        BY <2>1, ReturnDisowns DEF Alone, Owner, Owning
    <2> QED BY <2>1, <2>2, <2>3, OwnFrame
<1>26. ASSUME NEW t \in Threads, NEW o \in Objs, NEW s \in Signaled, SignalRow(t, o, s)
       PROVE OwnInv'
    <2>1. bitmap' = bitmap
        BY <1>26 DEF SignalRow, rowBits
    <2>2. Return(t) \/ (obj' = [obj EXCEPT ![t] = o] /\ Goto(t, "parents"))
        BY <1>26 DEF SignalRow
    <2>3. Alone(t) /\ ~Owner(t)'
        BY <2>2, <1>f, ReturnDisowns, GotoAlone DEF Owner, Owning
    <2>4. state' = state \/ (Live(o) /\ state' = [state EXCEPT ![o] = s])
        BY <1>26 DEF SignalRow, Live
    <2>5. \A r \in Objs : Live(r)' <=> Live(r)
        BY <2>4, <1>f DEF Live, Signaled
    <2> QED BY <2>1, <2>3, <2>5, OwnFrame
<1>27. ASSUME NEW t \in Threads, TestAndSetBit(t) PROVE OwnInv'
    <2>1. CASE obj[t] \in bitmap
        BY <1>27, <2>1, OwnFrame, GotoAlone
           DEF TestAndSetBit, rowBits, locVars, Live, Owner, Owning
    <2>2. CASE obj[t] \notin bitmap
        <3>1. UNCHANGED <<obj, state>> /\ bitmap' = bitmap \cup {obj[t]}
            BY <1>27, <2>2 DEF TestAndSetBit, locVars
        <3>2. PICK p \in {"init", "group"} : Goto(t, p)
            BY <1>27, <2>2 DEF TestAndSetBit
        <3>3. Alone(t) /\ pc'[t] = p
            BY <3>1, <3>2, GotoAlone
        <3>4. ~Live(obj[t]) /\ \A u \in Threads : Owner(u) => obj[u] # obj[t]
            BY <2>2, <1>o DEF OwnInv, RowOwnership
        <3> QED BY <3>1, <3>3, <3>4 DEF OwnInv, RowOwnership, Alone, Live, Owner
    <2> QED BY <2>1, <2>2
<1>28. ASSUME NEW t \in Threads, CreateInit(t) PROVE OwnInv'
    <2>1. bitmap' = bitmap /\ state' = [state EXCEPT ![obj[t]] = "ACTIVE"] /\ Return(t)
        BY <1>28 DEF CreateInit, InitRow, ZeroRow, EmptyLists, rowBits
    <2>2. Owner(t) /\ obj[t] \in bitmap /\ obj[t] \in Objs
        BY <1>28, <1>o DEF CreateInit, OwnInv, RowOwnership, Owner, Owning
    <2>3. \A u \in Threads \ {t} : Owner(u) => obj[u] # obj[t]
        BY <2>2 DEF OwnInv, RowOwnership
    <2>4. \A r \in Objs : Live(r)' <=> Live(r) \/ r = obj[t]
        BY <2>1, <1>f DEF Live
    <2>5. Alone(t) /\ ~Owner(t)'
        BY <2>1, ReturnDisowns
    <2> QED BY <2>1, <2>2, <2>3, <2>4, <2>5, <1>o
               DEF OwnInv, RowOwnership, Alone, Live, Owner
<1>29. ASSUME NEW t \in Threads, MergeInit(t) PROVE OwnInv'
    <2>1. /\ UNCHANGED <<bitmap, obj>> /\ Goto(t, "child")
          /\ state' = [state EXCEPT ![obj[t]] = "ACTIVE"]
        BY <1>29 DEF MergeInit, InitRow, ZeroRow, EmptyLists, rowBits
    <2>2. Owner(t) /\ obj[t] \in bitmap /\ obj[t] \in Objs
        BY <1>29, <1>o DEF MergeInit, OwnInv, RowOwnership, Owner, Owning
    <2>3. \A u \in Threads \ {t} : Owner(u) => obj[u] # obj[t]
        BY <2>2 DEF OwnInv, RowOwnership
    <2>4. \A r \in Objs : Live(r)' <=> Live(r) \/ r = obj[t]
        BY <2>1, <1>f DEF Live
    <2>5. Alone(t) /\ pc'[t] = "child"
        BY <2>1, GotoAlone
    <2> QED BY <2>1, <2>2, <2>3, <2>4, <2>5, <1>o
               DEF OwnInv, RowOwnership, Alone, Live, Owner
<1>30. ASSUME NEW t \in Threads, MergeUnlink(t) PROVE OwnInv'
    <2>1. CASE UNCHANGED <<bitmap, pc, obj>>
        BY <1>30, <2>1, OwnUnchanged DEF MergeUnlink
    <2>2. CASE Return(t) /\ bitmap' = bitmap \ {obj[t]}
        <3>1. Return(t) /\ bitmap' = bitmap \ {obj[t]} /\ state' = state
            BY <1>30, <2>2 DEF MergeUnlink
        <3>2. Owner(t) /\ ~Live(obj[t])
            BY <1>30 DEF MergeUnlink, OwnInv, Owner, Owning
        <3>3. \A u \in Threads \ {t} : Owner(u) => obj[u] # obj[t]
            BY <3>2 DEF OwnInv, RowOwnership
        <3>4. Alone(t) /\ ~Owner(t)'
            BY <3>1, ReturnDisowns
        <3> QED BY <3>1, <3>2, <3>3, <3>4 DEF OwnInv, RowOwnership, Alone, Live, Owner
    <2> QED BY <1>30, <2>1, <2>2 DEF MergeUnlink
<1>31. ASSUME NEW t \in Threads, DestroyFinal(t) PROVE OwnInv'
    <2>1. /\ Return(t) /\ bitmap' = bitmap \ {obj[t]}
          /\ state' = [state EXCEPT ![obj[t]] = "INVALID"]
        BY <1>31 DEF DestroyFinal, ZeroRow
    <2>2. Owner(t) /\ ~Live(obj[t])
        BY <1>31 DEF DestroyFinal, OwnInv, Owner, Owning
    <2>3. \A u \in Threads \ {t} : Owner(u) => obj[u] # obj[t]
        BY <2>2 DEF OwnInv, RowOwnership
    <2>4. Alone(t) /\ ~Owner(t)'
        BY <2>1, ReturnDisowns
    <2> QED BY <2>1, <2>2, <2>3, <2>4, <1>o, <1>f
               DEF OwnInv, RowOwnership, Alone, Live, Owner
<1>32. ASSUME NEW t \in Threads, NEW o \in Objs, DestroyMark(t, o) PROVE OwnInv'
    <2>1. CASE ~Live(o)
        BY <1>32, <2>1, OwnFrame, ReturnDisowns DEF DestroyMark, Live, rowBits
    <2>2. CASE Live(o)
        <3>1. /\ bitmap' = bitmap /\ obj' = [obj EXCEPT ![t] = o]
              /\ state' = [state EXCEPT ![o] = "INVALID"]
            BY <1>32, <2>2 DEF DestroyMark, rowBits
        <3>2. PICK p \in {"dchild", "dparent", "dfinal"} : Goto(t, p)
            BY <1>32, <2>2 DEF DestroyMark, Teardown
        <3>3. Alone(t) /\ pc'[t] = p /\ obj'[t] = o
            BY <3>1, <3>2, <1>f, GotoAlone
        <3>4. o \in bitmap
            BY <2>2 DEF OwnInv, RowOwnership
        <3>5. \A u \in Threads : Owner(u) => obj[u] # o
            BY <1>32, <2>2 DEF DestroyMark, RowLocked, OwnInv
        <3>6. \A r \in Objs : Live(r)' <=> Live(r) /\ r # o
            BY <3>1, <1>f DEF Live
        <3> QED BY <3>1, <3>3, <3>4, <3>5, <3>6, <1>o
                   DEF OwnInv, RowOwnership, Alone, Live, Owner
    <2> QED BY <2>1, <2>2
<1> QED
    BY <1>1, <1>2, <1>3, <1>4, <1>5, <1>6, <1>7, <1>8, <1>9, <1>10, <1>11, <1>12, <1>13,
       <1>14, <1>15, <1>16,
       <1>17, <1>18, <1>19, <1>20, <1>21, <1>22, <1>23, <1>24, <1>25, <1>26, <1>27, <1>28,
       <1>29, <1>30, <1>31, <1>32
       DEF Next, Step, Call, CallOn, Quiescent

(* Whatever callers do and however they race, no two threads ever build or *)
(* tear down the same row, and the allocator never hands out a valid one.  *)
THEOREM RowsOwned == Spec => []RowOwnership
<1>1. Init => OwnInv
    BY OwnInit
<1>2. TypeOK /\ OwnInv /\ [Next]_vars => OwnInv'
    BY OwnStep
<1>3. OwnInv => RowOwnership
    BY DEF OwnInv
<1> QED
    BY <1>1, <1>2, <1>3, TypeCorrect, PTL DEF Spec
============================================================================
