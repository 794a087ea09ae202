------------------------- MODULE CamSyncLinkProofs -------------------------
(***************************************************************************)
(* The links between sync objects, for every number of rows, threads and   *)
(* callbacks and for callers that keep no protocol, with allocations that  *)
(* fail half way through a merge: no parent link outlives the group it     *)
(* names, and a row that is free carries nothing over to its next user.    *)
(***************************************************************************)
EXTENDS CamSyncCallbackProofs

(* Only valid individual objects have parents.  Only groups have children, *)
(* while they are valid or while a failed merge still takes them apart.    *)
LinkedRows ==
    /\ \A o \in Objs : parents[o] # {} => Live(o) /\ type[o] = "INDV"
    /\ \A o \in Objs : children[o] # {} =>
          /\ type[o] = "GROUP"
          /\ Live(o) \/ \E t \in Threads : pc[t] = "unlink" /\ obj[t] = o

(* The objects that link to a group being merged are among those the merge *)
(* has visited: the ones that its failure would unlink.                    *)
MergeVisited ==
    \A t \in Threads : pc[t] = "child" =>
        /\ type[obj[t]] = "GROUP" /\ todo[t] \subseteq args[t]
        /\ \A c \in Objs : obj[t] \in parents[c] => c \in args[t] \ todo[t]

(* No payload is kept on a row that is free or being built. *)
BlankUnpaid == \A o \in Objs : Blank(o) => payloads[o] = {}

LinkInv == ParentLinksSound /\ LinkedRows /\ MergeVisited /\ BlankUnpaid

(* No step of thread t changes the local variables of another thread. *)
Aside(t) == Alone(t) /\ \A u \in Threads \ {t} : todo'[u] = todo[u] /\ args'[u] = args[u]

Holding == {"unlink", "dchild"}

(* A step that at most drops parent links and payloads, changes no row's   *)
(* validity and neither enters nor leaves the parts of a merge or of a     *)
(* destruction that hold links of other rows.                              *)
LEMMA LinkFrame ==
    ASSUME TypeOK, LinkInv, NEW t \in Threads, Aside(t),
           UNCHANGED <<children, type>>,
           \A r \in Objs : parents'[r] \subseteq parents[r],
           \A r \in Objs : Live(r)' <=> Live(r),
           pc[t] \notin Holding, pc'[t] \notin Holding \cup {"child"},
           \A r \in Objs : Blank(r)' => payloads'[r] = {}
    PROVE  LinkInv'
<1>p. \A r \in Objs : parents[r] \subseteq Objs
    BY DEF TypeOK, TableTypeOK
<1>1. ParentLinksSound'
    <2> SUFFICES ASSUME NEW c \in Objs, NEW p \in parents'[c]
                 PROVE  \/ Live(p)' /\ type'[p] = "GROUP" /\ c \in children'[p]
                        \/ \E u \in Threads : pc'[u] \in {"dchild", "unlink"} /\ obj'[u] = p
                                              /\ c \in todo'[u]
        BY DEF ParentLinksSound
    <2>1. p \in parents[c] /\ p \in Objs
        BY <1>p
    <2>2. CASE Live(p) /\ type[p] = "GROUP" /\ c \in children[p]
        BY <2>1, <2>2
    <2>3. CASE \E u \in Threads : pc[u] \in {"dchild", "unlink"} /\ obj[u] = p /\ c \in todo[u]
        <3>1. PICK u \in Threads : pc[u] \in {"dchild", "unlink"} /\ obj[u] = p /\ c \in todo[u]
            BY <2>3
        <3>2. u # t
            BY <3>1 DEF Holding
        <3> QED BY <3>1, <3>2 DEF Aside, Alone
    <2> QED BY <2>1, <2>2, <2>3 DEF LinkInv, ParentLinksSound
<1>2. LinkedRows'
    <2>1. ASSUME NEW o \in Objs, parents'[o] # {} PROVE Live(o)' /\ type'[o] = "INDV"
        BY <2>1 DEF LinkInv, LinkedRows
    <2>2. ASSUME NEW o \in Objs, children'[o] # {}
          PROVE  /\ type'[o] = "GROUP"
                 /\ Live(o)' \/ \E u \in Threads : pc'[u] = "unlink" /\ obj'[u] = o
        BY <2>2 DEF LinkInv, LinkedRows, Aside, Alone, Holding
    <2> QED BY <2>1, <2>2 DEF LinkedRows
<1>3. MergeVisited'
    BY DEF LinkInv, MergeVisited, Aside, Alone
<1>4. BlankUnpaid'
    BY DEF BlankUnpaid
<1> QED BY <1>1, <1>2, <1>3, <1>4 DEF LinkInv

(* A step of t that frees at most the row t is building, and starts to     *)
(* build at most a free row, makes no row blank that was not.              *)
LEMMA BlankBefore ==
    ASSUME TypeOK, NEW t \in Threads, Alone(t),
           \A o \in Objs : o \in bitmap /\ o \notin bitmap' =>
                               pc[t] \in Building /\ obj[t] = o,
           pc'[t] \in Building => /\ obj'[t] = obj[t]
                                  /\ pc[t] \in Building \/ obj[t] \notin bitmap
    PROVE  \A o \in Objs : Blank(o)' => Blank(o)
<1> SUFFICES ASSUME NEW o \in Objs, Blank(o)' PROVE Blank(o)
    OBVIOUS
<1>1. CASE o \notin bitmap'
    BY <1>1 DEF Blank
<1>2. CASE \E u \in Threads : pc'[u] \in Building /\ obj'[u] = o
    <2>1. PICK u \in Threads : pc'[u] \in Building /\ obj'[u] = o
        BY <1>2
    <2> QED BY <2>1 DEF Blank, Alone
<1> QED BY <1>1, <1>2 DEF Blank

(* A step of t that changes only the program counter and local variables   *)
(* of t, and at most claims a row.                                         *)
LEMMA LinkQuiet ==
    ASSUME TypeOK, LinkInv, NEW t \in Threads, Aside(t),
           UNCHANGED <<parents, children, type, state, payloads>>,
           pc[t] \notin Holding \cup {"child"}, pc'[t] \notin Holding \cup {"child"},
           \A o \in Objs : o \in bitmap => o \in bitmap',
           pc'[t] \in Building => /\ obj'[t] = obj[t]
                                  /\ pc[t] \in Building \/ obj[t] \notin bitmap
    PROVE  LinkInv'
<1>1. \A o \in Objs : Blank(o)' => Blank(o)
    BY BlankBefore DEF Aside
<1>2. \A o \in Objs : Blank(o)' => payloads'[o] = {}
    BY <1>1 DEF LinkInv, BlankUnpaid
<1> QED BY <1>2, LinkFrame DEF Live

(* A step that changes neither rows, links, payloads nor threads. *)
LEMMA LinkUnchanged ==
    ASSUME LinkInv, UNCHANGED <<bitmap, state, type, parents, children, payloads, pc, obj,
                                todo, args>>
    PROVE  LinkInv'
BY DEF LinkInv, ParentLinksSound, LinkedRows, MergeVisited, BlankUnpaid, Blank, Live

(* A return changes only local variables of t and ends its merge. *)
LEMMA ReturnAside ==
    ASSUME TypeOK, NEW t \in Threads, Return(t)
    PROVE  Aside(t) /\ pc'[t] \notin Holding \cup {"child"} \cup Building
BY DEF TypeOK, ThreadTypeOK, Return, Goto, Aside, Alone, Building, Holding

(* There are no links when the driver is loaded. *)
LEMMA LinkInit == Init => LinkInv
BY DEF Init, LinkInv, ParentLinksSound, LinkedRows, MergeVisited, BlankUnpaid

(* Nothing links to a row that is invalid, unless the row is torn down by  *)
(* a thread that still has to unlink it.                                   *)
LEMMA Unlinked ==
    ASSUME TypeOK, OwnInv, LinkInv, NEW t \in Threads, Owner(t), pc[t] # "child",
           pc[t] \in Holding => todo[t] = {}
    PROVE  \A c \in Objs : obj[t] \notin parents[c]
<1> SUFFICES ASSUME NEW c \in Objs, obj[t] \in parents[c] PROVE FALSE
    OBVIOUS
<1>1. ~Live(obj[t])
    BY DEF OwnInv
<1>2. PICK u \in Threads : pc[u] \in {"dchild", "unlink"} /\ obj[u] = obj[t] /\ c \in todo[u]
    BY <1>1 DEF LinkInv, ParentLinksSound
<1>3. u = t
    BY <1>2 DEF OwnInv, RowOwnership, Owner, Owning
<1> QED BY <1>2, <1>3 DEF Holding

(* A row that its owner zeroes, to build it or to free it, had no links to *)
(* it: the step breaks none.                                               *)
LEMMA LinkReset ==
    ASSUME TypeOK, OwnInv, LinkInv, NEW t \in Threads, NEW o \in Objs, o = obj[t], Aside(t),
           Owner(t), pc[t] \notin Holding \cup {"child"},
           parents' = [parents EXCEPT ![o] = {}],
           children' = [children EXCEPT ![o] = {}],
           payloads' = [payloads EXCEPT ![o] = {}],
           \A r \in Objs \ {o} : (Live(r)' <=> Live(r)) /\ type'[r] = type[r],
           \A r \in Objs \ {o} : Blank(r)' => Blank(r),
           pc'[t] \notin Holding,
           pc'[t] = "child" => obj'[t] = o /\ type'[o] = "GROUP" /\ todo'[t] \subseteq args'[t]
    PROVE  LinkInv'
<1>f. /\ \A r \in Objs : parents[r] \subseteq Objs
      /\ DOMAIN parents = Objs /\ DOMAIN children = Objs /\ DOMAIN payloads = Objs
    BY DEF TypeOK, TableTypeOK, NodeTypeOK
<1>u. \A c \in Objs : o \notin parents[c]
    BY Unlinked
<1>1. ParentLinksSound'
    <2> SUFFICES ASSUME NEW c \in Objs, NEW p \in parents'[c]
                 PROVE  \/ Live(p)' /\ type'[p] = "GROUP" /\ c \in children'[p]
                        \/ \E u \in Threads : pc'[u] \in {"dchild", "unlink"} /\ obj'[u] = p
                                              /\ c \in todo'[u]
        BY DEF ParentLinksSound
    <2>1. c # o /\ p \in parents[c] /\ p \in Objs \ {o}
        BY <1>f, <1>u
    <2>2. CASE Live(p) /\ type[p] = "GROUP" /\ c \in children[p]
        BY <1>f, <2>1, <2>2
    <2>3. CASE \E u \in Threads : pc[u] \in {"dchild", "unlink"} /\ obj[u] = p /\ c \in todo[u]
        <3>1. PICK u \in Threads : pc[u] \in {"dchild", "unlink"} /\ obj[u] = p /\ c \in todo[u]
            BY <2>3
        <3> QED BY <3>1 DEF Aside, Alone, Holding
    <2> QED BY <2>1, <2>2, <2>3 DEF LinkInv, ParentLinksSound
<1>2. LinkedRows'
    <2>1. ASSUME NEW r \in Objs, parents'[r] # {} PROVE Live(r)' /\ type'[r] = "INDV"
        BY <1>f, <2>1 DEF LinkInv, LinkedRows
    <2>2. ASSUME NEW r \in Objs, children'[r] # {}
          PROVE  /\ type'[r] = "GROUP"
                 /\ Live(r)' \/ \E u \in Threads : pc'[u] = "unlink" /\ obj'[u] = r
        BY <1>f, <2>2 DEF LinkInv, LinkedRows, Aside, Alone, Holding
    <2> QED BY <2>1, <2>2 DEF LinkedRows
<1>3. MergeVisited'
    <2> SUFFICES ASSUME NEW u \in Threads, pc'[u] = "child"
                 PROVE  /\ type'[obj'[u]] = "GROUP" /\ todo'[u] \subseteq args'[u]
                        /\ \A c \in Objs : obj'[u] \in parents'[c] => c \in args'[u] \ todo'[u]
        BY DEF MergeVisited
    <2>1. CASE u = t
        BY <1>f, <1>u, <2>1
    <2>2. CASE u # t
        <3>1. pc[u] = "child" /\ obj'[u] = obj[u] /\ obj[u] \in Objs
              /\ todo'[u] = todo[u] /\ args'[u] = args[u]
            BY <2>2 DEF Aside, Alone, TypeOK, ThreadTypeOK
        <3>2. obj[u] # o
            BY <2>2, <3>1 DEF OwnInv, RowOwnership, Owner, Owning
        <3> QED BY <1>f, <3>1, <3>2 DEF LinkInv, MergeVisited
    <2> QED BY <2>1, <2>2
<1>4. BlankUnpaid'
    BY <1>f DEF LinkInv, BlankUnpaid
<1> QED BY <1>1, <1>2, <1>3, <1>4 DEF LinkInv

(* Every step keeps the links: most are instances of LinkQuiet; the others *)
(* build or tear down a row, link or unlink rows, or dispatch payloads.    *)
LEMMA LinkStep == TypeOK /\ OwnInv /\ LinkInv /\ [Next]_vars => LinkInv'
<1> SUFFICES ASSUME TypeOK, OwnInv, LinkInv, [Next]_vars PROVE LinkInv'
    OBVIOUS
<1>o. \A u \in Threads : obj[u] \in Objs
    BY DEF TypeOK, ThreadTypeOK
<1>f. /\ DOMAIN pc = Threads /\ DOMAIN obj = Threads
      /\ DOMAIN todo = Threads /\ DOMAIN args = Threads
      /\ DOMAIN state = Objs /\ DOMAIN type = Objs /\ DOMAIN payloads = Objs
      /\ DOMAIN parents = Objs /\ DOMAIN children = Objs
    BY DEF TypeOK, ThreadTypeOK, TableTypeOK, NodeTypeOK
<1>1. ASSUME NEW t \in Threads, FindZeroBit(t) PROVE LinkInv'
    BY <1>1, <1>f, LinkQuiet, ReturnAside
       DEF FindZeroBit, Idle, Goto, Aside, Alone, Building, Holding, rowBits, linkVars, payVars, locVars
<1>2. ASSUME NEW t \in Threads, TestAndSetBit(t) PROVE LinkInv'
    BY <1>2, <1>f, LinkQuiet, ReturnAside
       DEF TestAndSetBit, Goto, Aside, Alone, Building, Holding, rowBits, linkVars, payVars, locVars
<1>3. ASSUME NEW t \in Threads, WaitReturn(t) PROVE LinkInv'
    BY <1>3, <1>f, LinkQuiet, ReturnAside
       DEF WaitReturn, Aside, Alone, Building, Holding, rowBits, linkVars, payVars, locVars
<1>4. ASSUME NEW t \in Threads, CloseSignal(t) PROVE LinkInv'
    BY <1>4, <1>f, LinkQuiet, ReturnAside
       DEF CloseSignal, Goto, Aside, Alone, Building, Holding, rowBits, linkVars, payVars, locVars
<1>5. ASSUME NEW t \in Threads, CloseFlush(t) PROVE LinkInv'
    BY <1>5, <1>f, LinkQuiet, ReturnAside
       DEF CloseFlush, Aside, Alone, Building, Holding, rowBits, linkVars, payVars, locVars
<1>6. ASSUME NEW t \in Threads, CloseDestroy(t) PROVE LinkInv'
    BY <1>6, <1>f, LinkQuiet, ReturnAside
       DEF CloseDestroy, Goto, Aside, Alone, Building, Holding, rowBits, linkVars, payVars, locVars
<1>7. ASSUME NEW t \in Threads, CloseEnd(t) PROVE LinkInv'
    BY <1>7, <1>f, LinkQuiet, ReturnAside
       DEF CloseEnd, Goto, Aside, Alone, Building, Holding, rowBits, linkVars, payVars, locVars
<1>8. ASSUME NEW t \in Threads, CloseStart(t) PROVE LinkInv'
    BY <1>8, <1>f, LinkQuiet, ReturnAside
       DEF CloseStart, Idle, Goto, Aside, Alone, Building, Holding, rowBits, linkVars, payVars, locVars
<1>9. ASSUME NEW t \in Threads, NEW o \in Objs, MergeCheck(t, o) PROVE LinkInv'
    BY <1>9, <1>f, LinkQuiet, ReturnAside
       DEF MergeCheck, Goto, Aside, Alone, Building, Holding, rowBits, linkVars, payVars, locVars
<1>10. ASSUME NEW t \in Threads, NEW o \in Objs, WaitStart(t, o) PROVE LinkInv'
    BY <1>10, <1>f, LinkQuiet, ReturnAside
       DEF WaitStart, Idle, Goto, Aside, Alone, Building, Holding, rowBits, linkVars, payVars, locVars
<1>11. ASSUME NEW t \in Threads, NEW S \in SUBSET Objs, MergeStart(t, S) PROVE LinkInv'
    BY <1>11, <1>f, LinkQuiet, ReturnAside
       DEF MergeStart, Idle, Goto, Aside, Alone, Building, Holding, rowBits, linkVars, payVars, locVars
<1>12. ASSUME NEW t \in Threads, NEW o \in Objs, NEW s \in Statuses, HandleSignal(t, o, s)
       PROVE LinkInv'
    BY <1>12, <1>f, LinkQuiet, ReturnAside
       DEF HandleSignal, Idle, Goto, Aside, Alone, Building, Holding, rowBits, linkVars, payVars, locVars
<1>13. ASSUME NEW t \in Threads, Open(t) PROVE LinkInv'
    BY <1>13, LinkUnchanged DEF Open, rowBits, linkVars, payVars, locVars
<1>14. ASSUME NEW t \in Threads, NEW o \in Objs, GetObjRef(t, o) PROVE LinkInv'
    BY <1>14, LinkUnchanged DEF GetObjRef, rowBits, linkVars, payVars, locVars
<1>15. ASSUME NEW t \in Threads, NEW o \in Objs, PutObjRef(t, o) PROVE LinkInv'
    BY <1>15, LinkUnchanged DEF PutObjRef, rowBits, linkVars, payVars, locVars
<1>16. ASSUME NEW t \in Threads, NEW o \in Objs, NEW cb \in Cbs, RegisterCallback(t, o, cb)
       PROVE LinkInv'
    BY <1>16, LinkUnchanged DEF RegisterCallback, rowBits, linkVars, payVars, locVars
<1>17. ASSUME NEW t \in Threads, NEW o \in Objs, NEW cb \in Cbs, DeregisterCallback(t, o, cb)
       PROVE LinkInv'
    BY <1>17, LinkUnchanged DEF DeregisterCallback, rowBits, linkVars, payVars, locVars
<1>18. ASSUME NEW cb \in Cbs, CbDispatch(cb) PROVE LinkInv'
    BY <1>18, LinkUnchanged DEF CbDispatch, rowBits, linkVars, payVars, locVars
<1>19. CASE UNCHANGED vars
    BY <1>19, LinkUnchanged DEF vars, rowBits, linkVars, payVars, locVars
<1>20. ASSUME NEW t \in Threads, NEW o \in Objs, NEW pl \in Payloads, RegisterUserPayload(t, o, pl)
       PROVE LinkInv'
    <2>1. /\ UNCHANGED <<bitmap, state, type, parents, children, pc, obj, todo, args>>
          /\ ~Blank(o)
        BY <1>20, LiveNotBlank DEF RegisterUserPayload, rowBits, linkVars, locVars
    <2>2. \A r \in Objs : r # o => payloads'[r] = payloads[r]
        BY <1>20, <1>f DEF RegisterUserPayload
    <2> QED BY <2>1, <2>2 DEF LinkInv, ParentLinksSound, LinkedRows, MergeVisited, BlankUnpaid, Blank, Live
<1>21. ASSUME NEW t \in Threads, NEW o \in Objs, NEW pl \in Payloads, DeregisterUserPayload(t, o, pl)
       PROVE LinkInv'
    <2>1. /\ UNCHANGED <<bitmap, state, type, parents, children, pc, obj, todo, args>>
          /\ ~Blank(o)
        BY <1>21, LiveNotBlank DEF DeregisterUserPayload, rowBits, linkVars, locVars
    <2>2. \A r \in Objs : r # o => payloads'[r] = payloads[r]
        BY <1>21, <1>f DEF DeregisterUserPayload
    <2> QED BY <2>1, <2>2 DEF LinkInv, ParentLinksSound, LinkedRows, MergeVisited, BlankUnpaid, Blank, Live
<1>22. ASSUME NEW t \in Threads, MergeDone(t) PROVE LinkInv'
    <2>1. /\ UNCHANGED <<bitmap, type, parents, children, payloads>>
          /\ Return(t) /\ pc[t] = "child"
        BY <1>22 DEF MergeDone, rowBits, linkVars, payVars
    <2>2. Live(obj[t])
        BY <2>1 DEF OwnInv, Owner, Owning
    <2>3. \A r \in Objs : Live(r)' <=> Live(r)
        BY <1>22, <1>o, <1>f, <2>2 DEF MergeDone, MergedState, BadStates, Live
    <2>4. Aside(t) /\ pc'[t] \notin Holding \cup {"child"} \cup Building
        BY <2>1, ReturnAside
    <2>5. \A r \in Objs : Blank(r)' => Blank(r)
        BY <2>1, <2>4, BlankBefore DEF Aside
    <2> QED BY <2>1, <2>3, <2>4, <2>5, LinkFrame DEF LinkInv, BlankUnpaid, Holding
<1>23. ASSUME NEW t \in Threads, NEW o \in Objs, SignalParent(t, o) PROVE LinkInv'
    <2>1. /\ UNCHANGED <<bitmap, type, parents, children>> /\ pc[t] = "parents"
          /\ Return(t) \/ (UNCHANGED <<pc, obj, args>> /\ todo' = [todo EXCEPT ![t] = @ \ {o}])
        BY <1>23 DEF SignalParent, rowBits
    <2>2. Aside(t) /\ pc'[t] \notin Holding \cup {"child"} \cup Building
        BY <1>f, <2>1, ReturnAside DEF Aside, Alone, Holding, Building
    <2>3. \A r \in Objs : Live(r)' <=> Live(r)
        BY <1>23, <1>f DEF SignalParent, UpdateParentState, BadStates, Live, Signaled, TypeOK, ThreadTypeOK
    <2>4. \A r \in Objs : payloads'[r] \subseteq payloads[r]
        BY <1>23, <1>f DEF SignalParent, NoDispatch, DispatchSignaledCb
    <2>5. \A r \in Objs : Blank(r)' => Blank(r)
        BY <2>1, <2>2, BlankBefore DEF Aside
    <2> QED BY <2>1, <2>2, <2>3, <2>4, <2>5, LinkFrame DEF LinkInv, BlankUnpaid, Holding
<1>24. ASSUME NEW t \in Threads, NEW o \in Objs, NEW s \in Signaled, SignalRow(t, o, s)
       PROVE LinkInv'
    <2>1. /\ UNCHANGED <<bitmap, type, children>> /\ pc[t] \in {"idle", "signal"}
          /\ \/ Return(t)
             \/ /\ UNCHANGED args /\ todo' = [todo EXCEPT ![t] = parents[o]]
                /\ obj' = [obj EXCEPT ![t] = o] /\ Goto(t, "parents")
        BY <1>24 DEF SignalRow, Idle, rowBits
    <2>2. Aside(t) /\ pc'[t] \notin Holding \cup {"child"} \cup Building
        BY <1>f, <2>1, ReturnAside DEF Aside, Alone, Holding, Building, Goto
    <2>3. \A r \in Objs : Live(r)' <=> Live(r)
        BY <1>24, <1>f DEF SignalRow, Live, Signaled
    <2>4. \A r \in Objs : payloads'[r] \subseteq payloads[r] /\ parents'[r] \subseteq parents[r]
        BY <1>24, <1>f DEF SignalRow, NoDispatch, DispatchSignaledCb
    <2>5. \A r \in Objs : Blank(r)' => Blank(r)
        BY <2>1, <2>2, BlankBefore DEF Aside
    <2> QED BY <2>1, <2>2, <2>3, <2>4, <2>5, LinkFrame DEF LinkInv, BlankUnpaid, Holding
<1>25. ASSUME NEW t \in Threads, CreateInit(t) PROVE LinkInv'
    <2>1. /\ pc[t] = "init" /\ Return(t)
          /\ parents' = [parents EXCEPT ![obj[t]] = {}]
          /\ children' = [children EXCEPT ![obj[t]] = {}]
          /\ payloads' = [payloads EXCEPT ![obj[t]] = {}]
          /\ \A r \in Objs \ {obj[t]} : (Live(r)' <=> Live(r)) /\ type'[r] = type[r]
          /\ \A r \in Objs \ {obj[t]} : r \in bitmap => r \in bitmap'
        BY <1>25, <1>f DEF CreateInit, InitRow, ZeroRow, EmptyLists, rowBits, Live
    <2>2. Aside(t) /\ pc'[t] \notin Holding \cup {"child"} \cup Building
        BY <2>1, ReturnAside
    <2>3. \A r \in Objs \ {obj[t]} : Blank(r)' => Blank(r)
        BY <2>1, <2>2 DEF Blank, Aside, Alone
    <2> QED BY <1>o, <2>1, <2>2, <2>3, LinkReset DEF Owner, Owning, Holding
<1>26. ASSUME NEW t \in Threads, DestroyFinal(t) PROVE LinkInv'
    <2>1. /\ pc[t] = "dfinal" /\ Return(t)
          /\ parents' = [parents EXCEPT ![obj[t]] = {}]
          /\ children' = [children EXCEPT ![obj[t]] = {}]
          /\ payloads' = [payloads EXCEPT ![obj[t]] = {}]
          /\ \A r \in Objs \ {obj[t]} : (Live(r)' <=> Live(r)) /\ type'[r] = type[r]
          /\ \A r \in Objs \ {obj[t]} : r \in bitmap => r \in bitmap'
        BY <1>26, <1>f DEF DestroyFinal, ZeroRow, EmptyLists, rowBits, Live
    <2>2. Aside(t) /\ pc'[t] \notin Holding \cup {"child"} \cup Building
        BY <2>1, ReturnAside
    <2>3. \A r \in Objs \ {obj[t]} : Blank(r)' => Blank(r)
        BY <2>1, <2>2 DEF Blank, Aside, Alone
    <2> QED BY <1>o, <2>1, <2>2, <2>3, LinkReset DEF Owner, Owning, Holding
<1>27. ASSUME NEW t \in Threads, MergeInit(t) PROVE LinkInv'
    <2>1. /\ pc[t] = "group" /\ pc'[t] = "child" /\ obj' = obj /\ Aside(t) /\ type'[obj[t]] = "GROUP"
          /\ todo'[t] = args'[t]
          /\ parents' = [parents EXCEPT ![obj[t]] = {}]
          /\ children' = [children EXCEPT ![obj[t]] = {}]
          /\ payloads' = [payloads EXCEPT ![obj[t]] = {}]
          /\ \A r \in Objs \ {obj[t]} : (Live(r)' <=> Live(r)) /\ type'[r] = type[r]
          /\ \A r \in Objs \ {obj[t]} : r \in bitmap => r \in bitmap'
        BY <1>27, <1>f, <1>o DEF MergeInit, InitRow, ZeroRow, EmptyLists, rowBits, Live, Goto, Aside, Alone
    <2>2. \A r \in Objs \ {obj[t]} : Blank(r)' => Blank(r)
        BY <2>1 DEF Blank, Aside, Alone
    <2> QED BY <1>o, <2>1, <2>2, LinkReset DEF Owner, Owning, Holding
<1>28. ASSUME NEW t \in Threads, NEW c \in Objs, MergeChild(t, c) PROVE LinkInv'
    <2> DEFINE g == obj[t]
    <2>1. /\ pc[t] = "child" /\ c \in todo[t] /\ ~RowLocked(c)
          /\ UNCHANGED <<bitmap, type, payloads, obj, args>>
        BY <1>28 DEF MergeChild, rowBits, payVars
    <2>2. /\ g \in Objs /\ Live(g) /\ type[g] = "GROUP"
          /\ \A r \in Objs : g \in parents[r] => r \in args[t] \ todo[t]
          /\ \A u \in Threads : Owner(u) /\ obj[u] = g => u = t
        BY <1>o, <2>1 DEF OwnInv, RowOwnership, Owner, Owning, LinkInv, MergeVisited
    <2>3. Aside(t) /\ pc'[t] \in {"child", "unlink"}
        BY <1>28, <1>f DEF MergeChild, MergeFail, Goto, Aside, Alone
    <2>4. /\ \A r \in Objs \ {g} : children'[r] = children[r] /\ (Live(r)' <=> Live(r))
          /\ children[g] \subseteq children'[g]
          /\ Live(g)' <=> pc'[t] = "child"
        <3>1. CASE MergeFail(t, g)
            BY <1>28, <1>f, <2>1, <2>2, <3>1 DEF MergeChild, MergeFail, Goto, Live, linkVars
        <3>2. CASE ~MergeFail(t, g)
            BY <1>28, <1>f, <2>1, <2>2, <3>2 DEF MergeChild, Live, linkVars, BadStates
        <3> QED BY <3>1, <3>2
    <2>5. \/ parents' = parents
          \/ /\ parents' = [parents EXCEPT ![c] = @ \cup {g}]
             /\ type[c] = "INDV" /\ Live(c) /\ c \in children'[g] /\ pc' = pc
        BY <1>28, <1>f, <2>2 DEF MergeChild, linkVars, Live
    <2>6. todo' = [todo EXCEPT ![t] = IF pc'[t] = "child" THEN @ \ {c} ELSE args[t] \ @]
        <3>1. CASE MergeFail(t, g)
            BY <1>f, <3>1 DEF MergeFail, Goto
        <3>2. CASE ~MergeFail(t, g)
            BY <1>28, <2>1, <3>2 DEF MergeChild
        <3> QED BY <3>1, <3>2
    <2>7. ParentLinksSound'
        <3> SUFFICES ASSUME NEW r \in Objs, NEW p \in parents'[r]
                     PROVE  \/ Live(p)' /\ type'[p] = "GROUP" /\ r \in children'[p]
                            \/ \E u \in Threads : pc'[u] \in {"dchild", "unlink"} /\ obj'[u] = p
                                                  /\ r \in todo'[u]
            BY DEF ParentLinksSound
        <3>1. CASE p \notin parents[r]
            BY <1>f, <2>1, <2>2, <2>4, <2>5, <3>1
        <3>2. CASE p \in parents[r] /\ p = g
            <4>1. r \in args[t] \ todo[t] /\ r \in children[g]
                <5>1. \A u \in Threads : ~(pc[u] \in {"dchild", "unlink"} /\ obj[u] = g)
                    BY <2>1, <2>2 DEF Owner, Owning
                <5> QED BY <2>2, <3>2, <5>1 DEF LinkInv, ParentLinksSound
            <4> QED BY <1>f, <2>1, <2>2, <2>3, <2>4, <2>6, <3>2, <4>1
        <3>3. CASE p \in parents[r] /\ p # g
            <4>1. p \in Objs
                BY <3>3 DEF TypeOK, TableTypeOK
            <4>2. CASE Live(p) /\ type[p] = "GROUP" /\ r \in children[p]
                BY <2>1, <2>4, <3>3, <4>1, <4>2
            <4>3. CASE \E u \in Threads : pc[u] \in {"dchild", "unlink"} /\ obj[u] = p /\ r \in todo[u]
                BY <2>1, <2>3, <4>3 DEF Aside, Alone
            <4> QED BY <3>3, <4>2, <4>3 DEF LinkInv, ParentLinksSound
        <3> QED BY <3>1, <3>2, <3>3
    <2>8. LinkedRows'
        <3>1. ASSUME NEW r \in Objs, parents'[r] # {} PROVE Live(r)' /\ type'[r] = "INDV"
            <4>1. Live(r) /\ type[r] = "INDV"
                BY <1>f, <2>5, <3>1 DEF LinkInv, LinkedRows
            <4> QED BY <2>1, <2>2, <2>4, <4>1
        <3>2. ASSUME NEW r \in Objs, children'[r] # {}
              PROVE  /\ type'[r] = "GROUP"
                     /\ Live(r)' \/ \E u \in Threads : pc'[u] = "unlink" /\ obj'[u] = r
            <4>1. CASE r = g
                BY <2>1, <2>2, <2>3, <2>4, <4>1
            <4>2. CASE r # g
                BY <2>1, <2>3, <2>4, <3>2, <4>2 DEF LinkInv, LinkedRows, Aside, Alone
            <4> QED BY <4>1, <4>2
        <3> QED BY <3>1, <3>2 DEF LinkedRows
    <2>9. MergeVisited'
        <3> SUFFICES ASSUME NEW u \in Threads, pc'[u] = "child"
                     PROVE  /\ type'[obj'[u]] = "GROUP" /\ todo'[u] \subseteq args'[u]
                            /\ \A r \in Objs : obj'[u] \in parents'[r] => r \in args'[u] \ todo'[u]
            BY DEF MergeVisited
        <3>1. CASE u = t
            <4>1. \A r \in Objs : g \in parents'[r] => r = c \/ g \in parents[r]
                BY <1>f, <2>5
            <4>2. \A r \in todo[t] : r \in args[t]
                BY <2>1 DEF LinkInv, MergeVisited, TypeOK
            <4> QED BY <1>f, <2>1, <2>2, <2>6, <3>1, <4>1, <4>2
        <3>2. CASE u # t
            <4>1. pc[u] = "child" /\ obj'[u] = obj[u] /\ obj[u] # g
                  /\ todo'[u] = todo[u] /\ args'[u] = args[u]
                BY <2>2, <2>3, <3>2 DEF Aside, Alone, Owner, Owning
            <4>2. \A r \in Objs : obj[u] \in parents'[r] => obj[u] \in parents[r]
                BY <1>f, <2>5, <4>1
            <4> QED BY <2>1, <4>1, <4>2 DEF LinkInv, MergeVisited
        <3> QED BY <3>1, <3>2
    <2>10. BlankUnpaid'
        <3>1. \A r \in Objs : Blank(r)' => Blank(r)
            BY <2>1, <2>3, BlankBefore DEF Aside, Building
        <3> QED BY <2>1, <3>1 DEF LinkInv, BlankUnpaid
    <2> QED BY <2>7, <2>8, <2>9, <2>10 DEF LinkInv
<1>29. ASSUME NEW t \in Threads, MergeUnlink(t) PROVE LinkInv'
    <2> DEFINE g == obj[t]
    <2>1. pc[t] = "unlink" /\ UNCHANGED <<state, type, payloads>> /\ g \in Objs /\ ~Live(g)
        BY <1>29, <1>o DEF MergeUnlink, payVars, OwnInv, Owner, Owning
    <2>2. \A r \in Objs : parents[r] \subseteq Objs
        BY DEF TypeOK, TableTypeOK
    <2>3. ASSUME NEW c \in todo[t], parents' = [parents EXCEPT ![c] = @ \ {g}],
                 todo' = [todo EXCEPT ![t] = @ \ {c}],
                 UNCHANGED <<bitmap, children, pc, obj, args>>
          PROVE  LinkInv'
        <3>1. /\ \A r \in Objs : parents'[r] \subseteq parents[r]
              /\ c \in Objs /\ g \notin parents'[c]
            BY <1>f, <2>3 DEF TypeOK, ThreadTypeOK
        <3>2. ParentLinksSound'
            <4> SUFFICES ASSUME NEW r \in Objs, NEW p \in parents'[r]
                         PROVE  \/ Live(p)' /\ type'[p] = "GROUP" /\ r \in children'[p]
                                \/ \E u \in Threads : pc'[u] \in {"dchild", "unlink"} /\ obj'[u] = p
                                                      /\ r \in todo'[u]
                BY DEF ParentLinksSound
            <4>1. CASE Live(p) /\ type[p] = "GROUP" /\ r \in children[p]
                BY <2>1, <2>3, <4>1 DEF Live
            <4>2. CASE \E u \in Threads : pc[u] \in {"dchild", "unlink"} /\ obj[u] = p /\ r \in todo[u]
                BY <1>f, <2>1, <2>3, <3>1, <4>2
            <4> QED BY <3>1, <4>1, <4>2 DEF LinkInv, ParentLinksSound
        <3>3. LinkedRows'
            BY <2>1, <2>3, <3>1 DEF LinkInv, LinkedRows, Live
        <3>4. MergeVisited'
            BY <1>f, <2>1, <2>3, <3>1 DEF LinkInv, MergeVisited
        <3>5. BlankUnpaid'
            BY <2>1, <2>3 DEF LinkInv, BlankUnpaid, Blank
        <3> QED BY <3>2, <3>3, <3>4, <3>5 DEF LinkInv
    <2>4. ASSUME todo[t] = {}, children' = [children EXCEPT ![g] = {}], bitmap' = bitmap \ {g},
                 Return(t), UNCHANGED parents
          PROVE  LinkInv'
        <3>1. \A c \in Objs : g \notin parents[c]
            BY <2>1, <2>4, Unlinked DEF Owner, Owning
        <3>2. Aside(t) /\ pc'[t] \notin Holding \cup {"child"} \cup Building
            BY <2>4, ReturnAside
        <3>3. \A r \in Objs : Blank(r)' => Blank(r)
            BY <2>1, <2>4, <3>2, BlankBefore DEF Aside, Building
        <3>4. ParentLinksSound'
            <4> SUFFICES ASSUME NEW r \in Objs, NEW p \in parents'[r]
                         PROVE  \/ Live(p)' /\ type'[p] = "GROUP" /\ r \in children'[p]
                                \/ \E u \in Threads : pc'[u] \in {"dchild", "unlink"} /\ obj'[u] = p
                                                      /\ r \in todo'[u]
                BY DEF ParentLinksSound
            <4>0. p \in parents[r] /\ p \in Objs /\ p # g
                BY <2>2, <2>4, <3>1
            <4>1. CASE Live(p) /\ type[p] = "GROUP" /\ r \in children[p]
                BY <1>f, <2>1, <2>4, <4>0, <4>1 DEF Live
            <4>2. CASE \E u \in Threads : pc[u] \in {"dchild", "unlink"} /\ obj[u] = p /\ r \in todo[u]
                BY <3>2, <4>0, <4>2 DEF Aside, Alone
            <4> QED BY <4>0, <4>1, <4>2 DEF LinkInv, ParentLinksSound
        <3>5. LinkedRows'
            <4>1. ASSUME NEW r \in Objs, parents'[r] # {} PROVE Live(r)' /\ type'[r] = "INDV"
                BY <2>1, <2>4, <4>1 DEF LinkInv, LinkedRows, Live
            <4>2. ASSUME NEW r \in Objs, children'[r] # {}
                  PROVE  /\ type'[r] = "GROUP"
                         /\ Live(r)' \/ \E u \in Threads : pc'[u] = "unlink" /\ obj'[u] = r
                <5>1. r # g /\ children[r] # {}
                    BY <1>f, <2>1, <2>4, <4>2
                <5> QED BY <2>1, <3>2, <5>1 DEF LinkInv, LinkedRows, Live, Aside, Alone
            <4> QED BY <4>1, <4>2 DEF LinkedRows
        <3>6. MergeVisited'
            BY <2>1, <2>4, <3>2 DEF LinkInv, MergeVisited, Aside, Alone
        <3>7. BlankUnpaid'
            BY <2>1, <3>3 DEF LinkInv, BlankUnpaid
        <3> QED BY <3>4, <3>5, <3>6, <3>7 DEF LinkInv
    <2> QED BY <1>29, <2>3, <2>4 DEF MergeUnlink, CleanChildren
<1>30. ASSUME NEW t \in Threads, NEW o \in Objs, DestroyMark(t, o) PROVE LinkInv'
    <2>1. /\ pc[t] \in {"idle", "destroy"} /\ ~RowLocked(o)
          /\ UNCHANGED <<bitmap, type, payloads>>
        BY <1>30 DEF DestroyMark, Idle, rowBits, payVars
    <2>2. CASE ~Live(o)
        BY <1>30, <2>1, <2>2, LinkQuiet, ReturnAside DEF DestroyMark, Holding, Building
    <2>3. CASE Live(o)
        <3>1. /\ state' = [state EXCEPT ![o] = "INVALID"]
              /\ children' = [children EXCEPT ![o] = {}]
              /\ parents' = [parents EXCEPT ![o] = {}]
              /\ obj' = [obj EXCEPT ![t] = o]
              /\ Teardown(t, children[o], parents[o])
            BY <1>30, <2>3 DEF DestroyMark
        <3>2. /\ Aside(t) /\ pc'[t] \in {"dchild", "dparent", "dfinal"}
              /\ todo'[t] = children[o] /\ obj'[t] = o
              /\ children[o] # {} => pc'[t] = "dchild"
            BY <1>f, <3>1 DEF Teardown, Goto, Aside, Alone
        <3>3. \A u \in Threads : Owner(u) => obj[u] # o
            BY <2>1, <2>3 DEF OwnInv, RowLocked, Owner, Owning
        <3>4. ParentLinksSound'
            <4> SUFFICES ASSUME NEW r \in Objs, NEW p \in parents'[r]
                         PROVE  \/ Live(p)' /\ type'[p] = "GROUP" /\ r \in children'[p]
                                \/ \E u \in Threads : pc'[u] \in {"dchild", "unlink"} /\ obj'[u] = p
                                                      /\ r \in todo'[u]
                BY DEF ParentLinksSound
            <4>1. p \in parents[r] /\ p \in Objs
                BY <1>f, <3>1 DEF TypeOK, TableTypeOK
            <4>2. CASE p = o
                <5>1. r \in children[o]
                    BY <3>3, <4>1, <4>2 DEF LinkInv, ParentLinksSound, Owner, Owning
                <5> QED BY <3>2, <4>2, <5>1
            <4>3. CASE p # o /\ Live(p) /\ type[p] = "GROUP" /\ r \in children[p]
                BY <1>f, <2>1, <3>1, <4>1, <4>3 DEF Live
            <4>4. CASE \E u \in Threads : pc[u] \in {"dchild", "unlink"} /\ obj[u] = p /\ r \in todo[u]
                <5>1. PICK u \in Threads : pc[u] \in {"dchild", "unlink"} /\ obj[u] = p /\ r \in todo[u]
                    BY <4>4
                <5>2. u # t
                    BY <2>1, <5>1
                <5> QED BY <3>2, <5>1, <5>2 DEF Aside, Alone
            <4> QED BY <4>1, <4>2, <4>3, <4>4 DEF LinkInv, ParentLinksSound
        <3>5. LinkedRows'
            <4>1. ASSUME NEW r \in Objs, parents'[r] # {} PROVE Live(r)' /\ type'[r] = "INDV"
                BY <1>f, <2>1, <3>1, <4>1 DEF LinkInv, LinkedRows, Live
            <4>2. ASSUME NEW r \in Objs, children'[r] # {}
                  PROVE  /\ type'[r] = "GROUP"
                         /\ Live(r)' \/ \E u \in Threads : pc'[u] = "unlink" /\ obj'[u] = r
                <5>1. r # o /\ children[r] # {}
                    BY <1>f, <3>1, <4>2
                <5>2. Live(r)' <=> Live(r)
                    BY <1>f, <3>1, <5>1 DEF Live
                <5>3. \A u \in Threads : pc[u] = "unlink" => pc'[u] = "unlink" /\ obj'[u] = obj[u]
                    BY <2>1, <3>2 DEF Aside, Alone
                <5> QED BY <2>1, <5>1, <5>2, <5>3 DEF LinkInv, LinkedRows
            <4> QED BY <4>1, <4>2 DEF LinkedRows
        <3>6. MergeVisited'
            <4>1. ASSUME NEW u \in Threads, pc'[u] = "child"
                  PROVE  /\ type'[obj'[u]] = "GROUP" /\ todo'[u] \subseteq args'[u]
                         /\ \A r \in Objs : obj'[u] \in parents'[r] => r \in args'[u] \ todo'[u]
                <5>1. /\ pc[u] = "child" /\ obj'[u] = obj[u] /\ todo'[u] = todo[u]
                      /\ args'[u] = args[u]
                    BY <3>2, <4>1 DEF Aside, Alone
                <5>2. \A r \in Objs : parents'[r] \subseteq parents[r]
                    BY <1>f, <3>1
                <5> QED BY <2>1, <5>1, <5>2 DEF LinkInv, MergeVisited
            <4> QED BY <4>1 DEF MergeVisited
        <3>7. BlankUnpaid'
            BY <2>1, <3>2 DEF LinkInv, BlankUnpaid, Blank, Building, Aside, Alone
        <3> QED BY <3>4, <3>5, <3>6, <3>7 DEF LinkInv
    <2> QED BY <2>2, <2>3
<1>31. ASSUME NEW t \in Threads, NEW c \in Objs, DestroyChild(t, c) PROVE LinkInv'
    <2>1. /\ pc[t] = "dchild" /\ UNCHANGED <<bitmap, state, type, children, payloads, obj>>
          /\ parents' = Unlink(parents, c, obj[t])
          /\ Teardown(t, todo[t] \ {c}, args[t])
        BY <1>31 DEF DestroyChild, rowBits, payVars
    <2>2. /\ Aside(t) /\ pc'[t] \in {"dchild", "dparent", "dfinal"}
          /\ todo'[t] = todo[t] \ {c} /\ (todo'[t] # {} => pc'[t] = "dchild")
        BY <1>f, <2>1 DEF Teardown, Goto, Aside, Alone
    <2>3. \A r \in Objs : parents'[r] = IF r = c THEN parents[r] \ {obj[t]} ELSE parents[r]
        <3>1. CASE Live(c)
            BY <1>f, <2>1, <3>1 DEF Unlink
        <3>2. CASE ~Live(c)
            <4>1. parents[c] = {}
                BY <3>2 DEF LinkInv, LinkedRows
            <4> QED BY <1>f, <2>1, <3>2, <4>1 DEF Unlink
        <3> QED BY <3>1, <3>2
    <2>4. ParentLinksSound'
        <3> SUFFICES ASSUME NEW r \in Objs, NEW p \in parents'[r]
                     PROVE  \/ Live(p)' /\ type'[p] = "GROUP" /\ r \in children'[p]
                            \/ \E u \in Threads : pc'[u] \in {"dchild", "unlink"} /\ obj'[u] = p
                                                  /\ r \in todo'[u]
            BY DEF ParentLinksSound
        <3>1. p \in parents[r] /\ ~(r = c /\ p = obj[t])
            BY <2>3
        <3>2. CASE Live(p) /\ type[p] = "GROUP" /\ r \in children[p]
            BY <2>1, <3>2 DEF Live
        <3>3. CASE \E u \in Threads : pc[u] \in {"dchild", "unlink"} /\ obj[u] = p /\ r \in todo[u]
            <4>1. PICK u \in Threads : pc[u] \in {"dchild", "unlink"} /\ obj[u] = p /\ r \in todo[u]
                BY <3>3
            <4>2. CASE u = t
                BY <2>1, <2>2, <3>1, <4>1, <4>2
            <4>3. CASE u # t
                BY <2>2, <4>1, <4>3 DEF Aside, Alone
            <4> QED BY <4>2, <4>3
        <3> QED BY <3>1, <3>2, <3>3 DEF LinkInv, ParentLinksSound
    <2>5. LinkedRows'
        <3>1. \A r \in Objs : parents'[r] # {} => parents[r] # {}
            BY <2>3
        <3>2. \A u \in Threads : pc[u] = "unlink" => pc'[u] = "unlink"
            BY <2>1, <2>2 DEF Aside, Alone
        <3> QED BY <2>1, <3>1, <3>2 DEF LinkInv, LinkedRows, Live
    <2>6. MergeVisited'
        <3>1. \A r \in Objs : parents'[r] \subseteq parents[r]
            BY <2>3
        <3>2. \A u \in Threads : pc'[u] = "child" =>
                 pc[u] = "child" /\ todo'[u] = todo[u] /\ args'[u] = args[u]
            BY <2>2 DEF Aside, Alone
        <3> QED BY <2>1, <3>1, <3>2 DEF LinkInv, MergeVisited
    <2>7. BlankUnpaid'
        BY <2>1, <2>2 DEF LinkInv, BlankUnpaid, Blank, Building, Aside, Alone
    <2> QED BY <2>4, <2>5, <2>6, <2>7 DEF LinkInv
<1>32. ASSUME NEW t \in Threads, NEW p \in Objs, DestroyParent(t, p) PROVE LinkInv'
    <2>1. /\ pc[t] = "dparent" /\ UNCHANGED <<bitmap, state, type, parents, payloads, obj>>
          /\ children' = Unlink(children, p, obj[t])
          /\ Teardown(t, {}, args[t] \ {p})
        BY <1>32 DEF DestroyParent, rowBits, payVars
    <2>2. Aside(t) /\ pc'[t] \in {"dparent", "dfinal"}
        BY <1>f, <2>1 DEF Teardown, Goto, Aside, Alone
    <2>3. parents[obj[t]] = {}
        BY <1>o, <2>1 DEF LinkInv, LinkedRows, OwnInv, Owner, Owning
    <2>4. \A r \in Objs : /\ children'[r] \subseteq children[r]
                          /\ children[r] \subseteq children'[r] \cup {obj[t]}
        BY <1>f, <2>1 DEF Unlink
    <2>5. ParentLinksSound'
        <3> SUFFICES ASSUME NEW r \in Objs, NEW q \in parents'[r]
                     PROVE  \/ Live(q)' /\ type'[q] = "GROUP" /\ r \in children'[q]
                            \/ \E u \in Threads : pc'[u] \in {"dchild", "unlink"} /\ obj'[u] = q
                                                  /\ r \in todo'[u]
            BY DEF ParentLinksSound
        <3>1. q \in parents[r] /\ q \in Objs /\ r # obj[t]
            BY <2>1, <2>3 DEF TypeOK, TableTypeOK
        <3>2. CASE Live(q) /\ type[q] = "GROUP" /\ r \in children[q]
            BY <2>1, <2>4, <3>1, <3>2 DEF Live
        <3>3. CASE \E u \in Threads : pc[u] \in {"dchild", "unlink"} /\ obj[u] = q /\ r \in todo[u]
            <4>1. PICK u \in Threads : pc[u] \in {"dchild", "unlink"} /\ obj[u] = q /\ r \in todo[u]
                BY <3>3
            <4>2. u # t
                BY <2>1, <4>1
            <4> QED BY <2>2, <4>1, <4>2 DEF Aside, Alone
        <3> QED BY <3>1, <3>2, <3>3 DEF LinkInv, ParentLinksSound
    <2>6. LinkedRows'
        <3>1. \A r \in Objs : children'[r] # {} => children[r] # {}
            BY <2>4
        <3>2. \A u \in Threads : pc[u] = "unlink" => pc'[u] = "unlink"
            BY <2>1, <2>2 DEF Aside, Alone
        <3> QED BY <2>1, <3>1, <3>2 DEF LinkInv, LinkedRows, Live
    <2>7. MergeVisited'
        <3>1. \A u \in Threads : pc'[u] = "child" =>
                 pc[u] = "child" /\ todo'[u] = todo[u] /\ args'[u] = args[u]
            BY <2>2 DEF Aside, Alone
        <3> QED BY <2>1, <3>1 DEF LinkInv, MergeVisited
    <2>8. BlankUnpaid'
        BY <2>1, <2>2 DEF LinkInv, BlankUnpaid, Blank, Building, Aside, Alone
    <2> QED BY <2>5, <2>6, <2>7, <2>8 DEF LinkInv
<1> QED
    BY <1>1, <1>2, <1>3, <1>4, <1>5, <1>6, <1>7, <1>8, <1>9, <1>10, <1>11, <1>12, <1>13,
       <1>14, <1>15, <1>16, <1>17, <1>18, <1>19, <1>20, <1>21, <1>22, <1>23, <1>24, <1>25,
       <1>26, <1>27, <1>28, <1>29, <1>30, <1>31, <1>32
       DEF Next, Step, Call, CallOn, Quiescent

(* However merges, signals and destructions of any rows race, and whatever *)
(* allocation fails, a parent link leads to the live group that lists the  *)
(* child or is still on the private list of the thread that takes it away: *)
(* cam_sync_signal is never led to a row by a link that outlived it.       *)
THEOREM ParentLinks == Spec => []ParentLinksSound
<1>1. Init => OwnInv /\ LinkInv
    BY OwnInit, LinkInit
<1>2. TypeOK /\ OwnInv /\ LinkInv /\ [Next]_vars => OwnInv' /\ LinkInv'
    BY OwnStep, LinkStep
<1>3. LinkInv => ParentLinksSound
    BY DEF LinkInv
<1> QED
    BY <1>1, <1>2, <1>3, TypeCorrect, PTL DEF Spec

(* A row that the allocator may hand out has no links, callback nodes or   *)
(* payloads of its last user, on both ways its bit was cleared: the end of *)
(* cam_sync_deinit_object and the clean-up of a failed merge.  The memset  *)
(* of cam_sync_init_row that comes next loses and leaks nothing.           *)
THEOREM FreeRowsClean == Spec => []FreeRowClean
<1>1. Init => OwnInv /\ CallbackInv /\ LinkInv
    BY OwnInit, CbInit, LinkInit
<1>2. TypeOK /\ OwnInv /\ CallbackInv /\ LinkInv /\ [Next]_vars =>
          OwnInv' /\ CallbackInv' /\ LinkInv'
    BY OwnStep, CbStep, LinkStep
<1>3. TypeOK /\ OwnInv /\ CallbackInv /\ LinkInv => FreeRowClean
    <2> SUFFICES ASSUME TypeOK, OwnInv, CallbackInv, LinkInv, NEW o \in Objs \ bitmap
                 PROVE  ~Live(o) /\ parents[o] = {} /\ children[o] = {} /\ callbacks[o] = {}
                                 /\ payloads[o] = {}
        BY DEF FreeRowClean
    <2>1. ~Live(o)
        BY DEF OwnInv, RowOwnership
    <2>2. \A t \in Threads : pc[t] = "unlink" => obj[t] # o
        BY DEF OwnInv, RowOwnership, Owner, Owning
    <2>3. parents[o] = {} /\ children[o] = {}
        BY <2>1, <2>2 DEF LinkInv, LinkedRows
    <2>4. callbacks[o] = {} /\ payloads[o] = {}
        BY DEF CallbackInv, LinkInv, BlankUnpaid, Blank
    <2> QED BY <2>1, <2>3, <2>4
<1> QED
    BY <1>1, <1>2, <1>3, TypeCorrect, PTL DEF Spec
============================================================================
