------------------------- MODULE HwFenceTableProofs -------------------------
(***************************************************************************)
(* Proofs about the hardware-fence table, for any clients, keys, hash,     *)
(* arrays of fences and number of parents, when nobody else calls the      *)
(* driver during a reset (QuietReset).                                     *)
(***************************************************************************)
EXTENDS HwFenceTable, FiniteSetTheorems, TLAPS

----------------------------------------------------------------------------
(* Types of an entry and of a client's locals. *)
EntryType ==
    [valid : BOOLEAN, key : Keys \cup {NoKey}, mask : SUBSET Clients, signaled : BOOLEAN,
     owner : Clients \cup {NoClient, JoinClient},
     parents : [1..MaxParents -> Slots \cup {NoSlot}], cnt : 0..(MaxParents - 1),
     pending : Int, data : SUBSET Clients]
Calls == {"none", "create", "destroy", "wait", "array", "reset"}
LocType ==
    [call : Calls, op : {"none", "create", "join", "find", "destroy"}, key : Keys \cup {NoKey},
     step : Slots, found : Labels, failed : Labels, ent : Slots \cup {NoSlot},
     arr : Arrays \cup {NoKey}, idx : Int, join : Slots \cup {NoSlot}, sig : BOOLEAN,
     slot : Slots, todo : SUBSET Clients, keep : BOOLEAN]
Types ==
    /\ conf \in Configs
    /\ tbl \in [Slots -> EntryType]
    /\ pc \in [Clients -> Labels]
    /\ loc \in [Clients -> LocType]

(* Where a call is: the step p and the locals l fit together. *)
Size(a) == Len(Children[a])
Kid(l) == Children[l.arr][l.idx]
ArrayShape(p, l) ==
    LET n == Size(l.arr) IN
    /\ l.arr \in Arrays /\ l.idx \in 0..(n + 1)
    /\ l.sig => l.idx = n + 1 /\ n > 0
    /\ \/ /\ p \in {"probe", "mask"} /\ l.op = "join" /\ l.key = l.arr
          /\ l.found = "mask" /\ l.failed = "idle" /\ l.idx = 1 /\ ~l.sig
          /\ p = "mask" => l.ent \in Slots
       \/ /\ p \in {"child", "store", "sigjoin"} /\ l.join \in Slots /\ l.idx > 0
          /\ l.op # "destroy" /\ l.found # "cut"
          /\ p \in {"store", "sigjoin"} => l.idx = n + 1
          /\ p = "sigjoin" => l.sig
       \/ /\ p \in {"probe", "link"} /\ l.op = "find" /\ l.found = "link" /\ l.failed = "unlink"
          /\ l.join \in Slots /\ l.idx \in 1..n /\ l.key = Kid(l) /\ l.key \in Fences
          /\ p = "link" => l.ent \in Slots
       \/ /\ p = "unlink" /\ l.join \in Slots /\ l.idx <= n /\ ~l.sig /\ l.op # "destroy"
       \/ /\ p \in {"probe", "cut", "next"} /\ l.op = "find" /\ l.found = "cut" /\ l.failed = "next"
          /\ l.join \in Slots /\ l.idx \in 1..n /\ l.key = Kid(l)
          /\ p = "cut" => l.ent \in Slots
       \/ /\ p = "probe" /\ l.op = "destroy" /\ l.found = "idle" /\ l.failed = "idle"
          /\ l.join \in Slots /\ l.key = l.arr /\ (l.sig \/ l.idx = 0)
Shape(p, l) ==
    \/ l = NoLocals /\ p = "idle"
    \/ /\ l.call = "create" /\ p \in {"probe", "enable"} /\ l.op = "create" /\ l.key \in Fences
       /\ l.found = "enable" /\ l.failed = "idle" /\ l.arr = NoKey
    \/ /\ l.call = "destroy" /\ p \in {"probe", "disable"} /\ l.op = "destroy"
       /\ l.key \in Fences /\ l.found \in {"disable", "idle"} /\ l.failed = "idle"
       /\ l.arr = NoKey
    \/ /\ l.call = "wait" /\ p \in {"probe", "register", "recheck"} /\ l.op = "find"
       /\ l.key \in Fences /\ l.found = "register" /\ l.failed = "idle" /\ l.arr = NoKey
       /\ p # "probe" => l.ent \in Slots
    \/ l.call = "array" /\ ArrayShape(p, l)
    \/ /\ l.call = "reset" /\ p \in {"clear", "check", "error", "advance", "probe"}
       /\ l.arr = NoKey
       /\ p = "probe" => /\ l.op = "destroy" /\ l.key \in Fences
                         /\ l.found = "advance" /\ l.failed = "advance"
Shapes == \A c \in Clients : Shape(pc[c], loc[c])

----------------------------------------------------------------------------
(* The entries. *)
EntryOK(r) ==
    /\ r.valid <=> r.owner # NoClient
    /\ r.valid <=> r.key # NoKey
    /\ r.owner = JoinClient <=> r.key \in Arrays
    /\ r.owner = JoinClient => r.cnt = 0 /\ ~r.signaled
    /\ r.owner # JoinClient => r.pending = 0
TableOK ==
    /\ \A e \in Slots : EntryOK(tbl[e])
    /\ \A e, g \in Slots : tbl[e].valid /\ tbl[e].key = tbl[g].key => e = g
    /\ made \subseteq Fences /\ done \subseteq made /\ enabled \subseteq made
    /\ \A e \in Slots : tbl[e].key \in Fences =>
          /\ tbl[e].key \in made
          /\ tbl[e].signaled <=> tbl[e].key \in done

(* The calls on one fence. *)
CreateOK(c) ==
    LET l == loc[c] IN
    l.call = "create" =>
        /\ l.key \in made /\ l.key \notin enabled
        /\ pc[c] = "probe" => l.key \notin done /\ \A e \in Slots : tbl[e].key # l.key
        /\ \A e \in Slots : tbl[e].key = l.key => tbl[e].owner = c
        /\ \A o \in Clients : loc[o].call = "create" /\ loc[o].key = l.key => o = c
DestroyOK(c) == loc[c].call = "destroy" => MayDestroy(loc[c].key)
WaitOK(c) ==
    LET l == loc[c] IN
    l.call = "wait" =>
        /\ l.key \in enabled
        /\ pc[c] # "probe" => tbl[l.ent].key = l.key
        /\ pc[c] = "recheck" => c \in tbl[l.ent].mask

(* The call on an array: its join, and the child it is at. *)
Making(c) == loc[c].call = "array" /\ ~(pc[c] = "probe" /\ loc[c].op = "join")
JoinOf(c) == IF pc[c] = "mask" THEN loc[c].ent ELSE loc[c].join
Live(c) == Making(c) /\ (loc[c].idx <= Size(loc[c].arr) \/ loc[c].sig \/ Size(loc[c].arr) = 0)
ArrayOK(c) ==
    LET l == loc[c] IN
    l.call = "array" =>
        /\ \A o \in Clients : loc[o].arr = l.arr => o = c
        /\ l.found = "link" /\ pc[c] \in {"probe", "link"} => l.key \in enabled
        /\ pc[c] = "link" => tbl[l.ent].key = l.key
        /\ \A e \in Slots : tbl[e].key = l.arr => Making(c) /\ e = JoinOf(c)
        /\ Live(c) => tbl[JoinOf(c)].key = l.arr
        /\ l.sig => \A i \in 1..Size(l.arr) : Children[l.arr][i] \in done
CallsOK == \A c \in Clients : CreateOK(c) /\ DestroyOK(c) /\ WaitOK(c) /\ ArrayOK(c)

(* A reset is alone; it leaves a fence with nobody waiting for it. *)
ResetOK(c) ==
    LET l == loc[c]
        r == tbl[l.slot]
    IN  l.call = "reset" =>
          /\ \A o \in Clients : o # c => pc[o] = "idle"
          /\ pc[c] \in {"error", "probe"} =>
                /\ r.owner = c
                /\ ~r.signaled => \A w \in r.mask :
                      <<w, r.key>> \in owed => pc[c] = "error" /\ w \in l.todo
          /\ pc[c] = "probe" => l.key = r.key
ResetsOK == \A c \in Clients : ResetOK(c)

----------------------------------------------------------------------------
(* The links of children to joins. *)
Pointing(e, s) == tbl[e].valid /\ ~tbl[e].signaled /\ \E i \in 1..tbl[e].cnt : tbl[e].parents[i] = s
LinksOK == \A e \in Slots : \A s \in Slots : Pointing(e, s) => tbl[s].owner = JoinClient

(* An entry that a lookup is after is not behind it. *)
AheadOf(c, e) == \E i \in loc[c].step..(Entries - 1) : e = ProbeAt(loc[c].key, i)
Ahead(c) ==
    LET l == loc[c] IN
    pc[c] = "probe" /\ ~IsCreate(l.op) =>
        \A e \in Slots : tbl[e].key = l.key /\ (l.found = "cut" => Pointing(e, l.join))
                         => AheadOf(c, e)

(* A call that fails undoes its links from the last to the first. *)
Undoing(c) == loc[c].call = "array" /\ Failing(c) /\ ~loc[c].sig
UndoOK(c) ==
    LET l == loc[c] IN
    Undoing(c) =>
        \A e \in Slots : Pointing(e, l.join) =>
            /\ \E i \in 1..l.idx : tbl[e].key = Children[l.arr][i] /\ (pc[c] = "next" => i < l.idx)
            /\ pc[c] = "cut" /\ tbl[e].key = Kid(l) => e = l.ent
SearchOK == \A c \in Clients : Ahead(c) /\ UndoOK(c)

(* The children of an array that are signaled and were counted off are at  *)
(* most the ones that pending has lost; h is the child the call was at.    *)
Left(a, h) == {i \in 1..Size(a) : i >= h \/ Children[a][i] \notin done}
Occurs(a, h, k) == {i \in 1..(h - 1) : Children[a][i] = k}
Handled(c, h) ==
    LET n == Size(loc[c].arr) IN
    IF Undoing(c) THEN loc[c].idx <= h /\ (h <= n \/ n = 0) ELSE h = loc[c].idx
JoinHas(j, h) ==
    LET a == tbl[j].key IN
    /\ h \in 1..(Size(a) + 1)
    /\ Cardinality(Left(a, h)) <= tbl[j].pending
    /\ \A e \in Slots : tbl[e].valid /\ ~tbl[e].signaled
                        => Times(e, j) <= Cardinality(Occurs(a, h, tbl[e].key))
    /\ Makers(j) = {} => h = Size(a) + 1
    /\ \A c \in Makers(j) : Handled(c, h)
    /\ tbl[j].pending = 0 => Size(a) = 0 \/ \E c \in Makers(j) : loc[c].sig
JoinsOK == \A j \in Slots : tbl[j].owner = JoinClient => \E h \in 1..(Size(tbl[j].key) + 1) : JoinHas(j, h)

(* Nobody else waits for an array that a call is making or taking down. *)
OwedOK ==
    \A c, o \in Clients : loc[c].call = "array" /\ <<o, loc[c].arr>> \in owed =>
        o = c /\ (pc[c] \in {"probe", "mask"} => loc[c].op = "find")
PairsOK == owed \cup served \cup bare \subseteq Clients \X Keys

IInv ==
    /\ Types /\ Shapes /\ TableOK /\ CallsOK /\ ResetsOK
    /\ LinksOK /\ SearchOK /\ JoinsOK
    /\ OwedOK /\ PairsOK /\ NoLostWait /\ JoinSound
----------------------------------------------------------------------------
(* Facts about the constants. *)
LEMMA ConfFacts ==
    ASSUME conf \in Configs
    PROVE  /\ Children \in [Arrays -> Seq(Keys)]
           /\ MaxParents \in Nat /\ MaxParents > 0
           /\ \A a \in Arrays : Size(a) \in Nat /\ \A i \in 1..Size(a) : Children[a][i] \in Keys
<1>1. Children \in [Arrays -> Seq(Keys)] /\ MaxParents \in Nat \ {0}
    BY ConfigsAssumption DEF Children, MaxParents
<1>2. ASSUME NEW a \in Arrays PROVE Size(a) \in Nat /\ \A i \in 1..Size(a) : Children[a][i] \in Keys
    <2>1. Children[a] \in Seq(Keys)
        BY <1>1
    <2> QED BY <2>1 DEF Size
<1> QED BY <1>1, <1>2

(* A lookup that runs to the end passes every entry. *)
LEMMA ProbeCovers ==
    ASSUME NEW k \in Keys \cup {NoKey}
    PROVE  /\ \A i \in Nat : ProbeAt(k, i) \in Slots
           /\ \A e \in Slots : \E i \in 0..(Entries - 1) : e = ProbeAt(k, i)
<1>1. Hash[k] \in 0..(Entries - 1) /\ Entries \in Nat /\ Entries > 0
    BY KeysAssumption, EntriesAssumption DEF Slots
<1>2. ASSUME NEW i \in Nat PROVE ProbeAt(k, i) \in Slots
    BY <1>1, <1>2 DEF ProbeAt, Slots
<1>3. ASSUME NEW e \in Slots PROVE \E i \in 0..(Entries - 1) : e = ProbeAt(k, i)
    <2>0. e \in 0..(Entries - 1)
        BY DEF Slots
    <2>1. CASE Hash[k] <= e
        <3>1. (Hash[k] + (e - Hash[k])) % Entries = e /\ e - Hash[k] \in 0..(Entries - 1)
            <4>1. Hash[k] + (e - Hash[k]) = e
                BY <1>1, <2>0
            <4>2. e % Entries = e
                BY <1>1, <2>0
            <4> QED BY <1>1, <2>0, <2>1, <4>1, <4>2
        <3> QED BY <3>1 DEF ProbeAt
    <2>2. CASE Hash[k] > e
        <3> DEFINE i == e - Hash[k] + Entries
        <3>1. i \in 0..(Entries - 1) /\ Hash[k] + i = e + Entries
            BY <1>1, <2>0, <2>2
        <3>2. (e + Entries) % Entries = e
            BY <1>1, <2>0
        <3> QED BY <3>1, <3>2 DEF ProbeAt
    <2> QED BY <1>1, <2>0, <2>1, <2>2
<1> QED BY <1>2, <1>3

----------------------------------------------------------------------------
(* How a client goes on: every step of a client is a move. *)
Moves(c, p, l) == pc' = [pc EXCEPT ![c] = p] /\ loc' = [loc EXCEPT ![c] = l]

(* Goto, Return, GotoWith and Look are moves. *)
LEMMA MoveOf ==
    ASSUME Types, NEW c \in Clients
    PROVE  /\ \A p : Goto(c, p) => Moves(c, p, loc[c])
           /\ Return(c) => Moves(c, "idle", NoLocals)
           /\ \A p, l : GotoWith(c, p, l) /\ p # "idle" => Moves(c, p, l)
           /\ \A p, l : GotoWith(c, p, l) /\ p = "idle" => Moves(c, "idle", NoLocals)
           /\ \A l, op, k, f, x : Look(c, l, op, k, f, x) =>
                 Moves(c, "probe", [l EXCEPT !.op = op, !.key = k, !.step = 0,
                                             !.found = f, !.failed = x])
<1>1. loc = [o \in Clients |-> loc[o]]
    BY DEF Types
<1>2. [loc EXCEPT ![c] = loc[c]] = loc
    BY <1>1
<1>3. \A p : Goto(c, p) => Moves(c, p, loc[c])
    BY <1>2 DEF Goto, Moves
<1> QED BY <1>3 DEF Return, GotoWith, Look, Moves

(* A move leaves the other clients where they are. *)
LEMMA MoveFrame ==
    ASSUME Types, NEW c \in Clients, NEW p \in Labels, NEW l \in LocType, Moves(c, p, l)
    PROVE  /\ pc' \in [Clients -> Labels] /\ loc' \in [Clients -> LocType]
           /\ pc'[c] = p /\ loc'[c] = l
           /\ \A o \in Clients : o # c => pc'[o] = pc[o] /\ loc'[o] = loc[o]
BY DEF Types, Moves

(* The locals of an idle client have their type. *)
LEMMA NoLocalsType == NoLocals \in LocType
BY EntriesAssumption DEF NoLocals, LocType, Calls, Labels, Slots, NoSlot, Keys

(* The configuration never changes. *)
LEMMA ConfFixed == [Next]_vars => conf' = conf
<1> USE DEF bounds
<1>1. ASSUME NEW c \in Clients, Call(c) PROVE conf' = conf
    BY <1>1 DEF Call, Create, Destroy, DestroyWithHandle, Wait, WaitArray, Reset
<1>2. ASSUME NEW c \in Clients, Step(c) PROVE conf' = conf
    BY <1>2 DEF Step, Probe, Enable, Disable, Register, Recheck, MaskJoin, Child, Link,
                StoreData, SignalJoin, Unlink, Cut, SkipChild, ClearWait, CheckOwner,
                SignalError, NextEntry
<1>3. ASSUME Ctl PROVE conf' = conf
    BY <1>3 DEF Ctl, CtlSignal
<1> QED BY <1>1, <1>2, <1>3 DEF Next, vars
----------------------------------------------------------------------------
(* Where each step of a client takes it, and that the call keeps its shape. *)
Goes(c, p) ==
    /\ p \in Labels /\ loc'[c] \in LocType /\ Shape(p, loc'[c]) /\ pc'[c] = p
    /\ pc' \in [Clients -> Labels] /\ loc' \in [Clients -> LocType]
    /\ \A o \in Clients : o # c => pc'[o] = pc[o] /\ loc'[o] = loc[o]

(* A move to a place of the right shape. *)
LEMMA GoesIf ==
    ASSUME Types, NEW c \in Clients, NEW p \in Labels, NEW l \in LocType, Shape(p, l),
           Moves(c, p, l)
    PROVE  Goes(c, p) /\ loc'[c] = l
BY MoveFrame DEF Goes

(* The changes of the locals, field by field. *)
Enter(l, op, k, f, x) ==
    [l EXCEPT !.op = op, !.key = k, !.step = 0, !.found = f, !.failed = x]
Same(q, l, except) ==
    /\ "call" \notin except => q.call = l.call
    /\ "op" \notin except => q.op = l.op
    /\ "key" \notin except => q.key = l.key
    /\ "step" \notin except => q.step = l.step
    /\ "found" \notin except => q.found = l.found
    /\ "failed" \notin except => q.failed = l.failed
    /\ "ent" \notin except => q.ent = l.ent
    /\ "arr" \notin except => q.arr = l.arr
    /\ "idx" \notin except => q.idx = l.idx
    /\ "join" \notin except => q.join = l.join
    /\ "sig" \notin except => q.sig = l.sig
    /\ "slot" \notin except => q.slot = l.slot
    /\ "todo" \notin except => q.todo = l.todo
    /\ "keep" \notin except => q.keep = l.keep

Entered(q, l, op, k, f, x) ==
    /\ q \in LocType /\ Same(q, l, {"op", "key", "step", "found", "failed"})
    /\ q.op = op /\ q.key = k /\ q.step = 0 /\ q.found = f /\ q.failed = x

(* What Look sets and what it keeps. *)
LEMMA EnterFacts ==
    ASSUME NEW l \in LocType, NEW op \in {"create", "join", "find", "destroy"},
           NEW k \in Keys \cup {NoKey}, NEW f \in Labels, NEW x \in Labels,
           NEW q, q = Enter(l, op, k, f, x)
    PROVE  Entered(q, l, op, k, f, x)
<1>1. 0 \in Slots
    BY EntriesAssumption DEF Slots
<1>2. q \in LocType
    BY <1>1 DEF Enter, LocType
<1>3. q.op = op /\ q.key = k /\ q.step = 0 /\ q.found = f /\ q.failed = x
    BY DEF Enter, LocType
<1>4. Same(q, l, {"op", "key", "step", "found", "failed"})
    BY DEF Enter, LocType, Same
<1> QED BY <1>2, <1>3, <1>4 DEF Entered

(* Setting call. *)
LEMMA SetCall ==
    ASSUME NEW l \in LocType, NEW v \in Calls, NEW q,
           q = [l EXCEPT !.call = v]
    PROVE  q \in LocType /\ q.call = v /\ Same(q, l, {"call"})
BY DEF LocType, Same

(* Setting ent. *)
LEMMA SetEnt ==
    ASSUME NEW l \in LocType, NEW e \in Slots, NEW q,
           q = [l EXCEPT !.ent = e]
    PROVE  q \in LocType /\ q.ent = e /\ Same(q, l, {"ent"})
BY DEF LocType, Same

(* Setting step. *)
LEMMA SetStep ==
    ASSUME NEW l \in LocType, NEW v \in Slots, NEW q,
           q = [l EXCEPT !.step = v]
    PROVE  q \in LocType /\ q.step = v /\ Same(q, l, {"step"})
BY DEF LocType, Same

(* Setting join. *)
LEMMA SetJoin ==
    ASSUME NEW l \in LocType, NEW v \in Slots, NEW q,
           q = [l EXCEPT !.join = v]
    PROVE  q \in LocType /\ q.join = v /\ Same(q, l, {"join"})
BY DEF LocType, Same

(* Setting idx. *)
LEMMA SetIdx ==
    ASSUME NEW l \in LocType, NEW v \in Int, NEW q,
           q = [l EXCEPT !.idx = v]
    PROVE  q \in LocType /\ q.idx = v /\ Same(q, l, {"idx"})
BY DEF LocType, Same

(* Setting todo. *)
LEMMA SetTodo ==
    ASSUME NEW l \in LocType, NEW v \in SUBSET Clients, NEW q,
           q = [l EXCEPT !.todo = v]
    PROVE  q \in LocType /\ q.todo = v /\ Same(q, l, {"todo"})
BY DEF LocType, Same

(* The locals of an idle client, field by field. *)
LEMMA NoLocalsFacts ==
    /\ NoLocals.call = "none" /\ NoLocals.op = "none" /\ NoLocals.key = NoKey
    /\ NoLocals.step = 0 /\ NoLocals.found = "idle" /\ NoLocals.failed = "idle"
    /\ NoLocals.ent = NoSlot /\ NoLocals.arr = NoKey /\ NoLocals.idx = 0
    /\ NoLocals.join = NoSlot /\ NoLocals.sig = FALSE /\ NoLocals.slot = 0
    /\ NoLocals.todo = {} /\ NoLocals.keep = FALSE
BY DEF NoLocals

(* The start of a call with a lookup. *)
Begins(c, call, a, op, k, f) ==
    LET l == loc'[c] IN
    /\ Goes(c, "probe") /\ l.call = call /\ l.arr = a /\ ~l.sig
    /\ l.op = op /\ l.key = k /\ l.step = 0 /\ l.found = f /\ l.failed = "idle"

(* The names of calls and labels. *)
LEMMA Names ==
    /\ "create" \in Calls /\ "destroy" \in Calls /\ "wait" \in Calls /\ "array" \in Calls
    /\ "reset" \in Calls
    /\ "idle" \in Labels /\ "probe" \in Labels /\ "enable" \in Labels /\ "disable" \in Labels
    /\ "register" \in Labels /\ "recheck" \in Labels /\ "mask" \in Labels /\ "child" \in Labels
    /\ "link" \in Labels /\ "store" \in Labels /\ "sigjoin" \in Labels /\ "unlink" \in Labels
    /\ "cut" \in Labels /\ "next" \in Labels /\ "clear" \in Labels /\ "check" \in Labels
    /\ "error" \in Labels /\ "advance" \in Labels
BY DEF Calls, Labels

(* How Create, Destroy, Wait and WaitArray begin. *)
LEMMA CallGoes ==
    ASSUME Types, NEW c \in Clients
    PROVE  /\ \A f \in Fences : Create(c, f) => Begins(c, "create", NoKey, "create", f, "enable")
           /\ \A f \in Fences : Destroy(c, f) => Begins(c, "destroy", NoKey, "destroy", f, "disable")
           /\ \A f \in Fences : Wait(c, f) => Begins(c, "wait", NoKey, "find", f, "register")
           /\ \A a \in Arrays : WaitArray(c, a) => Begins(c, "array", a, "join", a, "mask")
<1>0. /\ "create" \in Calls /\ "destroy" \in Calls /\ "wait" \in Calls /\ "array" \in Calls
      /\ "enable" \in Labels /\ "disable" \in Labels /\ "register" \in Labels
      /\ "mask" \in Labels /\ "idle" \in Labels /\ "probe" \in Labels /\ 1 \in Int
    BY Names
<1>1. ASSUME NEW f \in Fences, Create(c, f)
      PROVE  Begins(c, "create", NoKey, "create", f, "enable")
    <2>1. PICK m : m = [NoLocals EXCEPT !.call = "create"]
        OBVIOUS
    <2>2. PICK l : l = Enter(m, "create", f, "enable", "idle")
        OBVIOUS
    <2>3. m \in LocType /\ m.call = "create" /\ Same(m, NoLocals, {"call"})
        BY <1>0, <2>1, SetCall, NoLocalsType
    <2>4. Entered(l, m, "create", f, "enable", "idle")
        BY <1>0, <2>2, <2>3, EnterFacts DEF Keys
    <2>5. /\ l \in LocType /\ l.call = "create" /\ l.arr = NoKey /\ ~l.sig
          /\ l.op = "create" /\ l.key = f /\ l.step = 0 /\ l.found = "enable" /\ l.failed = "idle"
        BY <2>3, <2>4, NoLocalsFacts DEF Same, Entered
    <2>6. Shape("probe", l)
        BY <2>5 DEF Shape
    <2>7. Moves(c, "probe", l)
        BY <1>1, <2>1, <2>2 DEF Create, Look, Moves, Enter
    <2> QED BY <1>0, <2>5, <2>6, <2>7, GoesIf DEF Begins
<1>2. ASSUME NEW f \in Fences, Destroy(c, f)
      PROVE  Begins(c, "destroy", NoKey, "destroy", f, "disable")
    <2>1. PICK m : m = [NoLocals EXCEPT !.call = "destroy"]
        OBVIOUS
    <2>2. PICK l : l = Enter(m, "destroy", f, "disable", "idle")
        OBVIOUS
    <2>3. m \in LocType /\ m.call = "destroy" /\ Same(m, NoLocals, {"call"})
        BY <1>0, <2>1, SetCall, NoLocalsType
    <2>4. Entered(l, m, "destroy", f, "disable", "idle")
        BY <1>0, <2>2, <2>3, EnterFacts DEF Keys
    <2>5. /\ l \in LocType /\ l.call = "destroy" /\ l.arr = NoKey /\ ~l.sig
          /\ l.op = "destroy" /\ l.key = f /\ l.step = 0 /\ l.found = "disable" /\ l.failed = "idle"
        BY <2>3, <2>4, NoLocalsFacts DEF Same, Entered
    <2>6. Shape("probe", l)
        BY <2>5 DEF Shape
    <2>7. Moves(c, "probe", l)
        BY <1>2, <2>1, <2>2 DEF Destroy, Look, Moves, Enter
    <2> QED BY <1>0, <2>5, <2>6, <2>7, GoesIf DEF Begins
<1>3. ASSUME NEW f \in Fences, Wait(c, f)
      PROVE  Begins(c, "wait", NoKey, "find", f, "register")
    <2>1. PICK m : m = [NoLocals EXCEPT !.call = "wait"]
        OBVIOUS
    <2>2. PICK l : l = Enter(m, "find", f, "register", "idle")
        OBVIOUS
    <2>3. m \in LocType /\ m.call = "wait" /\ Same(m, NoLocals, {"call"})
        BY <1>0, <2>1, SetCall, NoLocalsType
    <2>4. Entered(l, m, "find", f, "register", "idle")
        BY <1>0, <2>2, <2>3, EnterFacts DEF Keys
    <2>5. /\ l \in LocType /\ l.call = "wait" /\ l.arr = NoKey /\ ~l.sig
          /\ l.op = "find" /\ l.key = f /\ l.step = 0 /\ l.found = "register" /\ l.failed = "idle"
        BY <2>3, <2>4, NoLocalsFacts DEF Same, Entered
    <2>6. Shape("probe", l)
        BY <2>5 DEF Shape
    <2>7. Moves(c, "probe", l)
        BY <1>3, <2>1, <2>2 DEF Wait, Look, Moves, Enter
    <2> QED BY <1>0, <2>5, <2>6, <2>7, GoesIf DEF Begins
<1>4. ASSUME NEW a \in Arrays, WaitArray(c, a)
      PROVE  Begins(c, "array", a, "join", a, "mask")
    <2>1. PICK m : m = [NoLocals EXCEPT !.call = "array", !.arr = a, !.idx = 1]
        OBVIOUS
    <2>2. PICK l : l = Enter(m, "join", a, "mask", "idle")
        OBVIOUS
    <2>3. m \in LocType /\ m.call = "array" /\ m.arr = a /\ m.idx = 1 /\ Same(m, NoLocals, {"call", "arr", "idx"})
        BY <1>0, <2>1, NoLocalsType DEF LocType, Same
    <2>4. Entered(l, m, "join", a, "mask", "idle")
        BY <1>0, <2>2, <2>3, EnterFacts DEF Keys
    <2>5. /\ l \in LocType /\ l.call = "array" /\ l.arr = a /\ ~l.sig /\ l.idx = 1
          /\ l.op = "join" /\ l.key = a /\ l.step = 0 /\ l.found = "mask" /\ l.failed = "idle"
        BY <2>3, <2>4, NoLocalsFacts DEF Same, Entered
    <2>6. Shape("probe", l)
        <3>1. Size(a) \in Nat
            BY ConfFacts DEF Types
        <3> QED BY <2>5, <3>1 DEF Shape, ArrayShape
    <2>7. Moves(c, "probe", l)
        BY <1>4, <2>1, <2>2 DEF WaitArray, Look, Moves, Enter
    <2> QED BY <1>0, <2>5, <2>6, <2>7, GoesIf DEF Begins
<1> QED BY <1>1, <1>2, <1>3, <1>4

(* How a reset begins. *)
LEMMA ResetGoes ==
    ASSUME Types, NEW c \in Clients, NEW keep \in BOOLEAN, Reset(c, keep)
    PROVE  Goes(c, "clear") /\ loc'[c].call = "reset" /\ loc'[c].arr = NoKey
<1>0. "reset" \in Calls /\ "clear" \in Labels
    BY Names
<1>1. PICK l : l = [NoLocals EXCEPT !.call = "reset", !.keep = keep]
    OBVIOUS
<1>2. l \in LocType /\ l.call = "reset" /\ Same(l, NoLocals, {"call", "keep"})
    BY <1>0, <1>1, NoLocalsType DEF LocType, Same
<1>3. l.arr = NoKey
    BY <1>2, NoLocalsFacts DEF Same
<1>4. Shape("clear", l)
    BY <1>2, <1>3 DEF Shape
<1>5. Moves(c, "clear", l)
    BY <1>1 DEF Reset, GotoWith, Moves
<1> QED BY <1>0, <1>2, <1>3, <1>4, <1>5, GoesIf

(* How a destroy by handle begins: the entry of its client has a fence. *)
LEMMA HandleGoes ==
    ASSUME Types, TableOK, NEW c \in Clients, NEW e \in Slots, DestroyWithHandle(c, e)
    PROVE  /\ tbl[e].key \in Fences
           /\ Begins(c, "destroy", NoKey, "destroy", tbl[e].key, "idle")
<1>0. "destroy" \in Calls /\ "idle" \in Labels /\ "probe" \in Labels
    BY Names
<1>1. PICK k : k = tbl[e].key
    OBVIOUS
<1>2. k \in Fences
    BY <1>1 DEF DestroyWithHandle, MayDestroy, TableOK
<1>3. PICK m : m = [NoLocals EXCEPT !.call = "destroy"]
    OBVIOUS
<1>4. PICK l : l = Enter(m, "destroy", k, "idle", "idle")
    OBVIOUS
<1>5. m \in LocType /\ m.call = "destroy" /\ Same(m, NoLocals, {"call"})
    BY <1>0, <1>3, SetCall, NoLocalsType
<1>6. Entered(l, m, "destroy", k, "idle", "idle")
    BY <1>0, <1>2, <1>4, <1>5, EnterFacts DEF Keys
<1>7. /\ l \in LocType /\ l.call = "destroy" /\ l.arr = NoKey /\ ~l.sig
      /\ l.op = "destroy" /\ l.key = k /\ l.step = 0 /\ l.found = "idle" /\ l.failed = "idle"
    BY <1>5, <1>6, NoLocalsFacts DEF Same, Entered
<1>8. Shape("probe", l)
    BY <1>2, <1>7 DEF Shape
<1>9. Moves(c, "probe", l)
    BY <1>1, <1>3, <1>4 DEF DestroyWithHandle, Look, Moves, Enter
<1> QED BY <1>0, <1>1, <1>2, <1>7, <1>8, <1>9, GoesIf DEF Begins
----------------------------------------------------------------------------
(* The steps of a call. *)
LEMMA ReturnGoes ==
    ASSUME Types, NEW c \in Clients, Return(c)
    PROVE  Goes(c, "idle") /\ loc'[c] = NoLocals
<1>1. Shape("idle", NoLocals)
    BY DEF Shape
<1>2. Moves(c, "idle", NoLocals)
    BY DEF Return, Moves
<1> QED BY <1>1, <1>2, GoesIf, NoLocalsType, Names

(* Goto keeps the locals. *)
LEMMA GotoGoes ==
    ASSUME Types, NEW c \in Clients, NEW p \in Labels, Shape(p, loc[c]), Goto(c, p)
    PROVE  Goes(c, p) /\ loc'[c] = loc[c]
<1>1. loc[c] \in LocType
    BY DEF Types
<1>2. Moves(c, p, loc[c])
    BY MoveOf
<1> QED BY <1>1, <1>2, GoesIf

(* Look enters a lookup. *)
LEMMA LookGoes ==
    ASSUME Types, NEW c \in Clients, NEW l, NEW op, NEW k, NEW f, NEW x,
           Entered(Enter(l, op, k, f, x), l, op, k, f, x), Shape("probe", Enter(l, op, k, f, x)),
           Look(c, l, op, k, f, x)
    PROVE  Goes(c, "probe") /\ Entered(loc'[c], l, op, k, f, x)
<1>1. PICK q : q = Enter(l, op, k, f, x)
    OBVIOUS
<1>2. q \in LocType
    BY <1>1 DEF Entered
<1>3. Moves(c, "probe", q)
    BY <1>1 DEF Look, Enter, Moves
<1>4. Goes(c, "probe") /\ loc'[c] = q
    BY <1>1, <1>2, <1>3, GoesIf, Names
<1> QED BY <1>1, <1>4

(* GotoWith sets the locals. *)
LEMMA WithGoes ==
    ASSUME Types, NEW c \in Clients, NEW p \in Labels, NEW l \in LocType, Shape(p, l), p # "idle",
           GotoWith(c, p, l)
    PROVE  Goes(c, p) /\ loc'[c] = l
<1>1. Moves(c, p, l)
    BY DEF GotoWith, Moves
<1> QED BY <1>1, GoesIf

(* The client of a join goes on to its first child. *)
LEMMA MaskGoes ==
    ASSUME Types, Shapes, NEW c \in Clients, MaskJoin(c)
    PROVE  /\ Goes(c, "child") /\ loc'[c].join = loc[c].ent /\ Same(loc'[c], loc[c], {"join"})
           /\ pc[c] = "mask" /\ loc[c].call = "array"
<1>1. PICK l \in LocType : l = loc[c]
    BY DEF Types
<1>2. l.call = "array" /\ ArrayShape("mask", l) /\ pc[c] = "mask"
    BY <1>1 DEF MaskJoin, Shapes, Shape
<1>3. PICK e \in Slots : e = l.ent
    BY <1>2 DEF ArrayShape
<1>4. PICK q : q = [l EXCEPT !.join = e]
    OBVIOUS
<1>5. q \in LocType /\ q.join = e /\ Same(q, l, {"join"})
    BY <1>4, SetJoin
<1>6. Shape("child", q)
    BY <1>2, <1>5, ConfFacts DEF Shape, ArrayShape, Same, Types
<1>7. GotoWith(c, "child", q)
    BY <1>1, <1>3, <1>4 DEF MaskJoin
<1> QED BY <1>1, <1>2, <1>3, <1>5, <1>6, <1>7, WithGoes, Names

(* At a child: on to the end, to the cleanup or to the child's lookup. *)
LEMMA ChildGoes ==
    ASSUME Types, Shapes, TableOK, NEW c \in Clients, Child(c)
    PROVE  LET l == loc[c] IN
           /\ pc[c] = "child" /\ l.call = "array" /\ ArrayShape("child", l)
           /\ \/ l.idx > Size(l.arr) /\ Goes(c, "store") /\ loc'[c] = l
              \/ /\ l.idx <= Size(l.arr) /\ Kid(l) \notin enabled
                 /\ Goes(c, "unlink") /\ loc'[c] = l
              \/ /\ l.idx <= Size(l.arr) /\ Kid(l) \in enabled
                 /\ Goes(c, "probe") /\ Entered(loc'[c], l, "find", Kid(l), "link", "unlink")
<1>1. PICK l \in LocType : l = loc[c]
    BY DEF Types
<1>2. l.call = "array" /\ ArrayShape("child", l) /\ pc[c] = "child"
    BY <1>1 DEF Child, Shapes, Shape
<1>3. l.arr \in Arrays /\ Size(l.arr) \in Nat
    BY <1>2, ConfFacts DEF ArrayShape, Types
<1>4. CASE l.idx > Size(l.arr) /\ Goto(c, "store")
    <2>1. Shape("store", l)
        BY <1>2, <1>3, <1>4 DEF Shape, ArrayShape
    <2> QED BY <1>1, <1>2, <1>4, <2>1, GotoGoes, Names
<1>5. CASE l.idx <= Size(l.arr) /\ Kid(l) \notin enabled /\ Goto(c, "unlink")
    <2>1. Shape("unlink", l)
        BY <1>2, <1>3, <1>5 DEF Shape, ArrayShape
    <2> QED BY <1>1, <1>2, <1>5, <2>1, GotoGoes, Names
<1>6. CASE l.idx <= Size(l.arr) /\ Kid(l) \in enabled /\ Look(c, l, "find", Kid(l), "link", "unlink")
    <2>1. PICK k : k = Kid(l)
        OBVIOUS
    <2>2. k \in Fences
        BY <1>6, <2>1 DEF TableOK
    <2>3. PICK q : q = Enter(l, "find", k, "link", "unlink")
        OBVIOUS
    <2>4. Entered(q, l, "find", k, "link", "unlink")
        BY <2>2, <2>3, EnterFacts, Names DEF Keys
    <2>5. Kid(q) = k
        BY <2>1, <2>4 DEF Entered, Same, Kid
    <2>6. Shape("probe", q)
        BY <1>2, <1>3, <1>6, <2>2, <2>4, <2>5 DEF Shape, ArrayShape, Entered, Same
    <2>7. Look(c, l, "find", k, "link", "unlink")
        BY <1>6, <2>1
    <2>8. Goes(c, "probe") /\ Entered(loc'[c], l, "find", k, "link", "unlink")
        BY <2>3, <2>4, <2>6, <2>7, LookGoes
    <2> QED BY <1>1, <1>2, <1>6, <2>1, <2>8
<1> QED BY <1>1, <1>4, <1>5, <1>6 DEF Child, Size, Kid

(* A child is counted off only when it is the last one if nothing is left. *)
LEMMA LinkGoes ==
    ASSUME Types, Shapes, NEW c \in Clients, Link(c),
           tbl[loc[c].join].pending = 1 /\ tbl[loc[c].ent].signaled => loc[c].idx = Size(loc[c].arr)
    PROVE  LET l == loc[c]
               q == loc'[c]
           IN  /\ pc[c] = "link" /\ l.call = "array" /\ ArrayShape("link", l)
               /\ \/ /\ tbl[l.ent].signaled /\ Goes(c, "child") /\ Same(q, l, {"idx", "sig"})
                     /\ q.idx = l.idx + 1
                     /\ q.sig <=> (tbl[l.join].pending = 1)
                  \/ /\ ~tbl[l.ent].signaled /\ ~TooMany(tbl[l.ent].cnt + 1)
                     /\ Goes(c, "child") /\ Same(q, l, {"idx"}) /\ q.idx = l.idx + 1
                  \/ /\ ~tbl[l.ent].signaled /\ TooMany(tbl[l.ent].cnt + 1)
                     /\ Goes(c, "unlink") /\ q = l
<1>1. PICK l \in LocType : l = loc[c]
    BY DEF Types
<1>2. l.call = "array" /\ ArrayShape("link", l) /\ pc[c] = "link"
    BY <1>1 DEF Link, Shapes, Shape
<1>3. /\ l.arr \in Arrays /\ Size(l.arr) \in Nat /\ l.join \in Slots /\ l.ent \in Slots
      /\ l.idx \in 1..Size(l.arr) /\ ~l.sig
    BY <1>2, ConfFacts DEF ArrayShape, Types
<1>4. PICK n \in Int : n = tbl[l.join].pending
    BY <1>3 DEF Types, EntryType
<1>5. PICK v \in Int : v = l.idx + 1
    BY <1>3
<1>6. CASE tbl[l.ent].signaled
    <2>1. PICK b \in BOOLEAN : b = (n = 1)
        OBVIOUS
    <2>2. PICK q : q = [l EXCEPT !.idx = v, !.sig = b]
        OBVIOUS
    <2>3. q \in LocType /\ q.idx = v /\ q.sig = b /\ Same(q, l, {"idx", "sig"})
        BY <2>2 DEF LocType, Same
    <2>a. q.sig => l.idx = Size(l.arr)
        BY <1>1, <1>4, <1>6, <2>1, <2>3
    <2>b. q.call = l.call /\ q.arr = l.arr /\ q.op = l.op /\ q.found = l.found /\ q.join = l.join
        BY <2>3 DEF Same
    <2>4. Shape("child", q)
        BY <1>2, <1>3, <1>5, <2>3, <2>a, <2>b DEF Shape, ArrayShape
    <2>5. PICK z : z = (l.sig \/ LastChild(n - 1))
        OBVIOUS
    <2>6. z = b
        BY <1>3, <2>1, <2>5 DEF LastChild
    <2>7. GotoWith(c, "child", [l EXCEPT !.idx = v, !.sig = z])
        BY <1>1, <1>4, <1>5, <1>6, <2>5 DEF Link, ChildSignaled
    <2>8. GotoWith(c, "child", q)
        BY <2>2, <2>6, <2>7
    <2>9. Goes(c, "child") /\ loc'[c] = q
        BY <2>3, <2>4, <2>8, WithGoes, Names
    <2> QED BY <1>1, <1>2, <1>4, <1>5, <1>6, <2>1, <2>3, <2>9
<1>7. CASE ~tbl[l.ent].signaled /\ ~TooMany(tbl[l.ent].cnt + 1)
    <2>2. PICK q : q = [l EXCEPT !.idx = v]
        OBVIOUS
    <2>3. q \in LocType /\ q.idx = v /\ Same(q, l, {"idx"})
        BY <2>2, SetIdx
    <2>4. Shape("child", q)
        BY <1>1, <1>2, <1>3, <1>5, <2>3 DEF Shape, ArrayShape, Same
    <2>8. GotoWith(c, "child", q)
        BY <1>1, <1>5, <1>7, <2>2 DEF Link, ChildSignaled
    <2>9. Goes(c, "child") /\ loc'[c] = q
        BY <2>3, <2>4, <2>8, WithGoes, Names
    <2> QED BY <1>1, <1>2, <1>5, <1>7, <2>3, <2>9
<1>8. CASE ~tbl[l.ent].signaled /\ TooMany(tbl[l.ent].cnt + 1)
    <2>1. Shape("unlink", l)
        BY <1>2, <1>3 DEF Shape, ArrayShape
    <2>2. Goto(c, "unlink")
        BY <1>1, <1>8 DEF Link, ChildSignaled
    <2> QED BY <1>1, <1>2, <1>8, <2>1, <2>2, GotoGoes, Names
<1> QED BY <1>6, <1>7, <1>8

(* After the data: signal the join, refuse an empty array, or return. *)
LEMMA StoreGoes ==
    ASSUME Types, Shapes, NEW c \in Clients, StoreData(c)
    PROVE  LET l == loc[c]
               q == loc'[c]
           IN  /\ pc[c] = "store" /\ l.call = "array" /\ ArrayShape("store", l)
               /\ \/ l.sig /\ Goes(c, "sigjoin") /\ q = l
                  \/ /\ ~l.sig /\ Size(l.arr) = 0 /\ Goes(c, "unlink")
                     /\ Same(q, l, {"idx"}) /\ q.idx = 0
                  \/ ~l.sig /\ Size(l.arr) # 0 /\ Goes(c, "idle") /\ q = NoLocals
<1>1. PICK l \in LocType : l = loc[c]
    BY DEF Types
<1>2. l.call = "array" /\ ArrayShape("store", l) /\ pc[c] = "store"
    BY <1>1 DEF StoreData, Shapes, Shape
<1>3. l.arr \in Arrays /\ Size(l.arr) \in Nat /\ Children[l.arr] \in Seq(Keys)
    BY <1>2, ConfFacts DEF ArrayShape, Types
<1>4. Children[l.arr] = << >> <=> Size(l.arr) = 0
    BY <1>3 DEF Size
<1>5. CASE l.sig /\ Goto(c, "sigjoin")
    <2>1. Shape("sigjoin", l)
        BY <1>2, <1>3, <1>5 DEF Shape, ArrayShape
    <2> QED BY <1>1, <1>2, <1>5, <2>1, GotoGoes, Names
<1>6. CASE ~l.sig /\ Children[l.arr] = << >> /\ GotoWith(c, "unlink", [l EXCEPT !.idx = 0])
    <2>1. PICK q : q = [l EXCEPT !.idx = 0]
        OBVIOUS
    <2>2. q \in LocType /\ q.idx = 0 /\ Same(q, l, {"idx"})
        BY <2>1, SetIdx
    <2>3. Shape("unlink", q)
        BY <1>2, <1>3, <1>6, <2>2 DEF Shape, ArrayShape, Same
    <2>4. Goes(c, "unlink") /\ loc'[c] = q
        BY <1>6, <2>1, <2>2, <2>3, WithGoes, Names
    <2> QED BY <1>1, <1>2, <1>4, <1>6, <2>2, <2>4
<1>7. CASE ~l.sig /\ Children[l.arr] # << >> /\ Return(c)
    BY <1>1, <1>2, <1>4, <1>7, ReturnGoes
<1> QED BY <1>1, <1>5, <1>6, <1>7 DEF StoreData

(* A signaled join is looked up to be destroyed. *)
LEMMA SignalJoinGoes ==
    ASSUME Types, Shapes, NEW c \in Clients, SignalJoin(c)
    PROVE  /\ pc[c] = "sigjoin" /\ loc[c].call = "array" /\ ArrayShape("sigjoin", loc[c])
           /\ Goes(c, "probe") /\ Entered(loc'[c], loc[c], "destroy", loc[c].arr, "idle", "idle")
<1>1. PICK l \in LocType : l = loc[c]
    BY DEF Types
<1>2. l.call = "array" /\ ArrayShape("sigjoin", l) /\ pc[c] = "sigjoin"
    BY <1>1 DEF SignalJoin, Shapes, Shape
<1>3. PICK k \in Arrays : k = l.arr
    BY <1>2 DEF ArrayShape
<1>4. PICK q : q = Enter(l, "destroy", k, "idle", "idle")
    OBVIOUS
<1>5. Entered(q, l, "destroy", k, "idle", "idle")
    BY <1>4, EnterFacts, Names DEF Keys
<1>6. Shape("probe", q)
    BY <1>2, <1>3, <1>5 DEF Shape, ArrayShape, Entered, Same
<1>7. Look(c, l, "destroy", k, "idle", "idle")
    BY <1>1, <1>3 DEF SignalJoin
<1>8. Goes(c, "probe") /\ Entered(loc'[c], l, "destroy", k, "idle", "idle")
    BY <1>4, <1>5, <1>6, <1>7, LookGoes
<1> QED BY <1>1, <1>2, <1>3, <1>8

(* The cleanup looks a child up, or the join when no child is left. *)
LEMMA UnlinkGoes ==
    ASSUME Types, Shapes, NEW c \in Clients, Unlink(c)
    PROVE  LET l == loc[c] IN
           /\ pc[c] = "unlink" /\ l.call = "array" /\ ArrayShape("unlink", l)
           /\ Goes(c, "probe")
           /\ \/ l.idx > 0 /\ Entered(loc'[c], l, "find", Kid(l), "cut", "next") /\ owed' = owed
              \/ /\ l.idx = 0 /\ Entered(loc'[c], l, "destroy", l.arr, "idle", "idle")
                 /\ owed' = owed \ {<<c, l.arr>>}
<1>1. PICK l \in LocType : l = loc[c]
    BY DEF Types
<1>2. l.call = "array" /\ ArrayShape("unlink", l) /\ pc[c] = "unlink"
    BY <1>1 DEF Unlink, Shapes, Shape
<1>3. PICK a \in Arrays : a = l.arr
    BY <1>2 DEF ArrayShape
<1>4. Size(a) \in Nat /\ \A i \in 1..Size(a) : Children[a][i] \in Keys
    BY ConfFacts DEF Types
<1>5. CASE l.idx > 0 /\ Look(c, l, "find", Kid(l), "cut", "next") /\ owed' = owed
    <2>1. PICK k \in Keys : k = Kid(l)
        BY <1>2, <1>3, <1>4, <1>5 DEF Kid, ArrayShape
    <2>2. PICK q : q = Enter(l, "find", k, "cut", "next")
        OBVIOUS
    <2>3. Entered(q, l, "find", k, "cut", "next")
        BY <2>2, EnterFacts, Names
    <2>4. Kid(q) = k
        BY <2>1, <2>3 DEF Entered, Same, Kid
    <2>5. Shape("probe", q)
        BY <1>2, <1>3, <1>4, <1>5, <2>3, <2>4 DEF Shape, ArrayShape, Entered, Same
    <2>6. Goes(c, "probe") /\ Entered(loc'[c], l, "find", k, "cut", "next")
        BY <1>5, <2>1, <2>2, <2>3, <2>5, LookGoes
    <2> QED BY <1>1, <1>2, <1>5, <2>1, <2>6
<1>6. CASE l.idx = 0 /\ Look(c, l, "destroy", a, "idle", "idle") /\ owed' = owed \ {<<c, a>>}
    <2>1. PICK q : q = Enter(l, "destroy", a, "idle", "idle")
        OBVIOUS
    <2>2. Entered(q, l, "destroy", a, "idle", "idle")
        BY <2>1, EnterFacts, Names DEF Keys
    <2>3. Shape("probe", q)
        BY <1>2, <1>3, <1>4, <1>6, <2>2 DEF Shape, ArrayShape, Entered, Same
    <2>4. Goes(c, "probe") /\ Entered(loc'[c], l, "destroy", a, "idle", "idle")
        BY <1>6, <2>1, <2>2, <2>3, LookGoes
    <2> QED BY <1>1, <1>2, <1>3, <1>6, <2>4
<1> QED BY <1>1, <1>3, <1>5, <1>6 DEF Unlink, Kid

(* After a child of the cleanup comes the one before it. *)
LEMMA BackGoes ==
    ASSUME Types, Shapes, NEW c \in Clients, Cut(c) \/ SkipChild(c)
    PROVE  /\ pc[c] = IF Cut(c) THEN "cut" ELSE "next"
           /\ loc[c].call = "array" /\ ArrayShape(pc[c], loc[c])
           /\ Goes(c, "unlink") /\ Same(loc'[c], loc[c], {"idx"}) /\ loc'[c].idx = loc[c].idx - 1
<1>1. PICK l \in LocType : l = loc[c]
    BY DEF Types
<1>2. l.call = "array" /\ ArrayShape(pc[c], l) /\ pc[c] \in {"cut", "next"}
    BY <1>1 DEF Cut, SkipChild, Shapes, Shape
<1>3. pc[c] = IF Cut(c) THEN "cut" ELSE "next"
    BY DEF Cut, SkipChild
<1>4. l.arr \in Arrays /\ Size(l.arr) \in Nat /\ l.idx \in 1..Size(l.arr)
    BY <1>2, ConfFacts DEF ArrayShape, Types
<1>5. PICK v \in Int : v = l.idx - 1
    BY <1>4
<1>6. PICK q : q = [l EXCEPT !.idx = v]
    OBVIOUS
<1>7. q \in LocType /\ q.idx = v /\ Same(q, l, {"idx"})
    BY <1>6, SetIdx
<1>8. Shape("unlink", q)
    BY <1>2, <1>4, <1>5, <1>7 DEF Shape, ArrayShape, Same
<1>9. GotoWith(c, "unlink", q)
    BY <1>1, <1>5, <1>6 DEF Cut, SkipChild
<1> QED BY <1>1, <1>2, <1>3, <1>5, <1>7, <1>8, <1>9, WithGoes, Names

(* A reset goes on to the owner of the entry. *)
LEMMA ClearGoes ==
    ASSUME Types, Shapes, NEW c \in Clients, ClearWait(c)
    PROVE  /\ pc[c] = "clear" /\ loc[c].call = "reset" /\ loc[c].arr = NoKey
           /\ Goes(c, "check") /\ loc'[c] = loc[c]
<1>1. pc[c] = "clear" /\ loc[c].call = "reset" /\ loc[c].arr = NoKey /\ Shape("check", loc[c])
    BY NoLocalsFacts DEF ClearWait, Shapes, Shape, ArrayShape
<1> QED BY <1>1, GotoGoes, Names DEF ClearWait

(* A reset passes over entries of others. *)
LEMMA OwnerGoes ==
    ASSUME Types, Shapes, NEW c \in Clients, CheckOwner(c)
    PROVE  LET l == loc[c] IN
           /\ pc[c] = "check" /\ l.call = "reset" /\ l.arr = NoKey
           /\ \/ tbl[l.slot].owner # c /\ Goes(c, "advance") /\ loc'[c] = l
              \/ /\ tbl[l.slot].owner = c /\ Goes(c, "error") /\ Same(loc'[c], l, {"todo"})
                 /\ loc'[c].todo = ToSignal(l.slot)
<1>1. PICK l \in LocType : l = loc[c]
    BY DEF Types
<1>2. pc[c] = "check" /\ l.call = "reset" /\ l.arr = NoKey
    BY <1>1, NoLocalsFacts DEF CheckOwner, Shapes, Shape, ArrayShape
<1>3. CASE tbl[l.slot].owner # c /\ Goto(c, "advance")
    <2>1. Shape("advance", l)
        BY <1>2 DEF Shape
    <2> QED BY <1>1, <1>2, <1>3, <2>1, GotoGoes, Names
<1>4. CASE tbl[l.slot].owner = c /\ GotoWith(c, "error", [l EXCEPT !.todo = ToSignal(l.slot)])
    <2>1. PICK v \in SUBSET Clients : v = ToSignal(l.slot)
        BY DEF ToSignal
    <2>2. PICK q : q = [l EXCEPT !.todo = v]
        OBVIOUS
    <2>3. q \in LocType /\ q.todo = v /\ Same(q, l, {"todo"})
        BY <2>2, SetTodo
    <2>4. Shape("error", q)
        BY <1>2, <2>3 DEF Shape, Same
    <2>5. Goes(c, "error") /\ loc'[c] = q
        BY <1>4, <2>1, <2>2, <2>3, <2>4, WithGoes, Names
    <2> QED BY <1>1, <1>2, <1>4, <2>1, <2>3, <2>5
<1> QED BY <1>1, <1>3, <1>4 DEF CheckOwner

(* A reset signals one client, destroys the fence or goes on. *)
LEMMA ErrorGoes ==
    ASSUME Types, Shapes, NEW c \in Clients, SignalError(c), tbl[loc[c].slot].key \in Fences
    PROVE  LET l == loc[c]
               q == loc'[c]
               k == tbl[l.slot].key
               data == {<<o, k>> : o \in tbl[l.slot].data}
           IN
           /\ pc[c] = "error" /\ l.call = "reset" /\ l.arr = NoKey
           /\ \/ \E w \in l.todo :
                   /\ Goes(c, "error") /\ Same(q, l, {"todo"}) /\ q.todo = l.todo \ {w}
                   /\ IF w \in tbl[l.slot].mask
                      THEN Signal({<<w, k>>}, data) /\ UNCHANGED <<made, done>>
                      ELSE UNCHANGED history
              \/ /\ l.todo = {} /\ Goes(c, "probe") /\ Entered(q, l, "destroy", k, "advance", "advance")
                 /\ UNCHANGED history
              \/ l.todo = {} /\ Goes(c, "advance") /\ q = l /\ UNCHANGED history
<1>1. PICK l \in LocType : l = loc[c]
    BY DEF Types
<1>2. pc[c] = "error" /\ l.call = "reset" /\ l.arr = NoKey
    BY <1>1, NoLocalsFacts DEF SignalError, Shapes, Shape, ArrayShape
<1>3. CASE l.todo # {}
    <2>1. PICK w : w = CHOOSE o \in l.todo : TRUE
        OBVIOUS
    <2>2. w \in l.todo
        BY <1>3, <2>1
    <2>3. PICK v \in SUBSET Clients : v = l.todo \ {w}
        BY <1>1 DEF LocType
    <2>4. PICK q : q = [l EXCEPT !.todo = v]
        OBVIOUS
    <2>5. q \in LocType /\ q.todo = v /\ Same(q, l, {"todo"})
        BY <2>4, SetTodo
    <2>6. Shape("error", q)
        BY <1>2, <2>5 DEF Shape, Same
    <2>7. /\ GotoWith(c, "error", q)
          /\ IF w \in tbl[l.slot].mask
             THEN Signal({<<w, tbl[l.slot].key>>}, {<<o, tbl[l.slot].key>> : o \in tbl[l.slot].data})
                  /\ UNCHANGED <<made, done>>
             ELSE UNCHANGED history
        BY <1>1, <1>3, <2>1, <2>3, <2>4 DEF SignalError
    <2>8. Goes(c, "error") /\ loc'[c] = q
        BY <2>5, <2>6, <2>7, WithGoes, Names
    <2> QED BY <1>1, <1>2, <2>2, <2>3, <2>5, <2>7, <2>8
<1>4. CASE l.todo = {} /\ Look(c, l, "destroy", tbl[l.slot].key, "advance", "advance")
           /\ UNCHANGED history
    <2>1. PICK k \in Fences : k = tbl[l.slot].key
        BY <1>1
    <2>2. PICK q : q = Enter(l, "destroy", k, "advance", "advance")
        OBVIOUS
    <2>3. Entered(q, l, "destroy", k, "advance", "advance")
        BY <2>2, EnterFacts, Names DEF Keys
    <2>4. Shape("probe", q)
        BY <1>2, <2>3 DEF Shape, Entered, Same
    <2>5. Goes(c, "probe") /\ Entered(loc'[c], l, "destroy", k, "advance", "advance")
        BY <1>4, <2>1, <2>2, <2>3, <2>4, LookGoes
    <2> QED BY <1>1, <1>2, <1>4, <2>1, <2>5
<1>5. CASE l.todo = {} /\ Goto(c, "advance") /\ UNCHANGED history
    <2>1. Shape("advance", l)
        BY <1>2 DEF Shape
    <2> QED BY <1>1, <1>2, <1>5, <2>1, GotoGoes, Names
<1> QED BY <1>1, <1>3, <1>4, <1>5 DEF SignalError

(* The same for the entry s that the reset is at. *)
Tells(c, s, w) ==
    LET k == tbl[s].key IN
    /\ Goes(c, "error") /\ Same(loc'[c], loc[c], {"todo"}) /\ loc'[c].todo = loc[c].todo \ {w}
    /\ IF w \in tbl[s].mask
       THEN Signal({<<w, k>>}, {<<o, k>> : o \in tbl[s].data}) /\ UNCHANGED <<made, done>>
       ELSE UNCHANGED history

(* ErrorGoes with the entry named. *)
LEMMA TellsGoes ==
    ASSUME Types, Shapes, NEW c \in Clients, SignalError(c), NEW s, s = loc[c].slot,
           tbl[s].key \in Fences
    PROVE  \/ \E w \in loc[c].todo : Tells(c, s, w)
           \/ /\ loc[c].todo = {} /\ Goes(c, "probe")
              /\ Entered(loc'[c], loc[c], "destroy", tbl[s].key, "advance", "advance")
              /\ UNCHANGED history
           \/ Goes(c, "advance")
<1>1. tbl[loc[c].slot].key \in Fences
    OBVIOUS
<1>2. ASSUME NEW w \in loc[c].todo, Tells(c, loc[c].slot, w) PROVE Tells(c, s, w)
    BY <1>2
<1>3. \/ \E w \in loc[c].todo : Tells(c, loc[c].slot, w)
      \/ /\ loc[c].todo = {} /\ Goes(c, "probe")
         /\ Entered(loc'[c], loc[c], "destroy", tbl[loc[c].slot].key, "advance", "advance")
         /\ UNCHANGED history
      \/ Goes(c, "advance")
    BY <1>1, ErrorGoes DEF Tells
<1> QED BY <1>2, <1>3

(* A reset goes to the next entry or returns. *)
LEMMA NextEntryGoes ==
    ASSUME Types, Shapes, NEW c \in Clients, NextEntry(c)
    PROVE  LET l == loc[c] IN
           /\ pc[c] = "advance" /\ l.call = "reset" /\ l.arr = NoKey
           /\ \/ Goes(c, "clear") /\ Same(loc'[c], l, {"slot", "ent"})
              \/ Goes(c, "idle") /\ loc'[c] = NoLocals
<1>1. PICK l \in LocType : l = loc[c]
    BY DEF Types
<1>2. pc[c] = "advance" /\ l.call = "reset" /\ l.arr = NoKey
    BY <1>1, NoLocalsFacts DEF NextEntry, Shapes, Shape, ArrayShape
<1>3. CASE l.slot + 1 < Entries
    <2>1. PICK v \in Slots : v = l.slot + 1
        BY <1>3, EntriesAssumption DEF LocType, Slots
    <2>2. PICK q : q = [l EXCEPT !.slot = v, !.ent = NoSlot]
        OBVIOUS
    <2>3. q \in LocType /\ Same(q, l, {"slot", "ent"})
        BY <2>2 DEF LocType, Same
    <2>4. Shape("clear", q)
        BY <1>2, <2>3 DEF Shape, Same
    <2>5. GotoWith(c, "clear", q)
        BY <1>1, <1>3, <2>1, <2>2 DEF NextEntry
    <2> QED BY <1>1, <1>2, <2>3, <2>4, <2>5, WithGoes, Names
<1>4. CASE ~(l.slot + 1 < Entries)
    BY <1>1, <1>2, <1>4, ReturnGoes DEF NextEntry
<1> QED BY <1>3, <1>4

(* After the registration comes the look at the flag. *)
LEMMA RegisterGoes ==
    ASSUME Types, Shapes, NEW c \in Clients, Register(c)
    PROVE  /\ pc[c] = "register" /\ loc[c].call = "wait" /\ loc[c].arr = NoKey
           /\ loc[c].key \in Fences /\ loc[c].ent \in Slots
           /\ Goes(c, "recheck") /\ loc'[c] = loc[c]
<1>1. /\ pc[c] = "register" /\ loc[c].call = "wait" /\ loc[c].arr = NoKey
      /\ loc[c].key \in Fences /\ loc[c].ent \in Slots /\ Shape("recheck", loc[c])
    BY NoLocalsFacts DEF Register, Shapes, Shape, ArrayShape
<1> QED BY <1>1, GotoGoes, Names DEF Register

(* One iteration of a lookup: it hits, it ends, or it goes on. *)
LEMMA ProbeGoes ==
    ASSUME Types, Shapes, NEW c \in Clients, Probe(c)
    PROVE  LET l == loc[c]
               q == loc'[c]
               e == ProbeAt(l.key, l.step)
           IN  /\ pc[c] = "probe" /\ e \in Slots
               /\ \/ /\ Matches(l.op, e, l.key)
                     /\ tbl' = [tbl EXCEPT ![e] = Processed(l.op, c, e, l.key)]
                     /\ Goes(c, l.found)
                     /\ \/ l.found = "idle" /\ q = NoLocals
                        \/ l.found # "idle" /\ q.ent = e /\ Same(q, l, {"ent"})
                  \/ /\ ~Matches(l.op, e, l.key) /\ tbl' = tbl /\ FindStops(l, e)
                     /\ Goes(c, l.failed)
                     /\ \/ l.failed = "idle" /\ q = NoLocals
                        \/ l.failed # "idle" /\ q = l
                  \/ /\ ~Matches(l.op, e, l.key) /\ tbl' = tbl /\ l.step + 1 < Entries
                     /\ Goes(c, "probe") /\ Same(q, l, {"step"}) /\ q.step = l.step + 1
<1>1. PICK l \in LocType : l = loc[c]
    BY DEF Types
<1>2. pc[c] = "probe" /\ Shape("probe", l)
    BY <1>1 DEF Probe, Shapes
<1>3. l.found \in Labels /\ l.failed \in Labels /\ l.step \in Slots /\ l.key \in Keys \cup {NoKey}
    BY <1>1 DEF LocType
<1>4. PICK e \in Slots : e = ProbeAt(l.key, l.step)
    <2>1. l.step \in Nat
        BY <1>3, EntriesAssumption DEF Slots
    <2>2. ProbeAt(l.key, l.step) \in Slots
        BY <1>3, <2>1, ProbeCovers
    <2> QED BY <2>2
<1>5. CASE Matches(l.op, e, l.key)
    <2>0. /\ tbl' = [tbl EXCEPT ![e] = Processed(l.op, c, e, l.key)]
          /\ GotoWith(c, l.found, [l EXCEPT !.ent = e])
        BY <1>1, <1>4, <1>5 DEF Probe
    <2>1. CASE l.found = "idle"
        <3>1. Return(c)
            BY <2>0, <2>1 DEF GotoWith
        <3> QED BY <1>1, <1>2, <1>4, <1>5, <2>0, <2>1, <3>1, ReturnGoes
    <2>2. CASE l.found # "idle"
        <3>1. PICK q : q = [l EXCEPT !.ent = e]
            OBVIOUS
        <3>2. q \in LocType /\ q.ent = e /\ Same(q, l, {"ent"})
            BY <3>1, SetEnt
        <3>3. Kid(q) = Kid(l)
            BY <3>2 DEF Kid, Same
        <3>4. Shape(l.found, q)
            <4>1. CASE l.call = "array"
                BY <1>2, <2>2, <3>2, <3>3, <4>1 DEF Shape, ArrayShape, Same
            <4>2. CASE l.call # "array"
                BY <1>2, <2>2, <3>2, <4>2 DEF Shape, Same
            <4> QED BY <4>1, <4>2
        <3>5. Goes(c, l.found) /\ loc'[c] = q
            BY <1>3, <2>0, <2>2, <3>1, <3>2, <3>4, WithGoes
        <3> QED BY <1>1, <1>2, <1>4, <1>5, <2>0, <2>2, <3>2, <3>5
    <2> QED BY <2>1, <2>2
<1>6. CASE ~Matches(l.op, e, l.key) /\ FindStops(l, e)
    <2>0. tbl' = tbl /\ GotoWith(c, l.failed, l)
        BY <1>1, <1>4, <1>6 DEF Probe
    <2>1. CASE l.failed = "idle"
        <3>1. Return(c)
            BY <2>0, <2>1 DEF GotoWith
        <3> QED BY <1>1, <1>2, <1>4, <1>6, <2>0, <2>1, <3>1, ReturnGoes
    <2>2. CASE l.failed # "idle"
        <3>1. Shape(l.failed, l)
            <4>1. CASE l.call = "array"
                BY <1>2, <2>2, <4>1, ConfFacts DEF Shape, ArrayShape, Types
            <4>2. CASE l.call # "array"
                BY <1>2, <2>2, <4>2 DEF Shape
            <4> QED BY <4>1, <4>2
        <3>2. Goes(c, l.failed) /\ loc'[c] = l
            BY <1>3, <2>0, <2>2, <3>1, WithGoes
        <3> QED BY <1>1, <1>2, <1>4, <1>6, <2>0, <2>2, <3>2
    <2> QED BY <2>1, <2>2
<1>7. CASE ~Matches(l.op, e, l.key) /\ ~FindStops(l, e)
    <2>1. PICK v \in Slots : v = l.step + 1
        BY <1>3, <1>7, EntriesAssumption DEF FindStops, Slots
    <2>2. PICK q : q = [l EXCEPT !.step = v]
        OBVIOUS
    <2>3. q \in LocType /\ q.step = v /\ Same(q, l, {"step"})
        BY <2>2, SetStep
    <2>4. Kid(q) = Kid(l)
        BY <2>3 DEF Kid, Same
    <2>5. Shape("probe", q)
        <3>1. CASE l.call = "array"
            BY <1>2, <2>3, <2>4, <3>1 DEF Shape, ArrayShape, Same
        <3>2. CASE l.call # "array"
            BY <1>2, <2>3, <3>2 DEF Shape, Same, NoLocals
        <3> QED BY <3>1, <3>2
    <2>6. tbl' = tbl /\ GotoWith(c, "probe", q)
        BY <1>1, <1>4, <1>7, <2>1, <2>2 DEF Probe
    <2>7. Goes(c, "probe") /\ loc'[c] = q
        BY <2>3, <2>5, <2>6, WithGoes, Names
    <2>8. l.step + 1 < Entries
        BY <2>1, EntriesAssumption DEF Slots
    <2> QED BY <1>1, <1>2, <1>4, <1>7, <2>1, <2>3, <2>6, <2>7, <2>8
<1> QED BY <1>5, <1>6, <1>7
----------------------------------------------------------------------------
(* What each step does to the table. *)
SameEntry(q, r, except) ==
    /\ "valid" \notin except => q.valid = r.valid
    /\ "key" \notin except => q.key = r.key
    /\ "mask" \notin except => q.mask = r.mask
    /\ "signaled" \notin except => q.signaled = r.signaled
    /\ "owner" \notin except => q.owner = r.owner
    /\ "parents" \notin except => q.parents = r.parents
    /\ "cnt" \notin except => q.cnt = r.cnt
    /\ "pending" \notin except => q.pending = r.pending
    /\ "data" \notin except => q.data = r.data
Only(e, except) ==
    /\ e \in Slots /\ tbl' \in [Slots -> EntryType]
    /\ \A g \in Slots : g # e => tbl'[g] = tbl[g]
    /\ SameEntry(tbl'[e], tbl[e], except)
    /\ \A g \in Slots : /\ "mask" \notin except => tbl'[g].mask = tbl[g].mask
                        /\ "pending" \notin except => tbl'[g].pending = tbl[g].pending
                        /\ "cnt" \notin except => tbl'[g].cnt = tbl[g].cnt /\ tbl'[g].parents = tbl[g].parents
                        /\ tbl'[g].valid = tbl[g].valid /\ tbl'[g].key = tbl[g].key
                        /\ tbl'[g].owner = tbl[g].owner /\ tbl'[g].signaled = tbl[g].signaled

(* Replacing an entry by one that differs in some fields. *)
LEMMA OnlyIf ==
    ASSUME Types, NEW e \in Slots, NEW r \in EntryType, tbl' = [tbl EXCEPT ![e] = r], NEW except,
           SameEntry(r, tbl[e], except),
           {"valid", "key", "owner", "signaled"} \cap except = {},
           "parents" \in except => "cnt" \in except
    PROVE  Only(e, except) /\ tbl'[e] = r
<1>1. tbl' \in [Slots -> EntryType] /\ tbl'[e] = r /\ \A g \in Slots : g # e => tbl'[g] = tbl[g]
    BY DEF Types
<1> QED BY <1>1 DEF Only, SameEntry

(* A registration changes mask and data of one entry. *)
LEMMA RegisterTable ==
    ASSUME Types, NEW c \in Clients, Register(c), loc[c].ent \in Slots
    PROVE  /\ Only(loc[c].ent, {"mask", "data"})
           /\ tbl'[loc[c].ent].mask = tbl[loc[c].ent].mask \cup {c}
<1>1. PICK e \in Slots : e = loc[c].ent
    OBVIOUS
<1>2. PICK r \in EntryType : r = tbl[e]
    BY DEF Types
<1>3. PICK q : q = [r EXCEPT !.mask = r.mask \cup {c}, !.data = r.data \cup {c}]
    OBVIOUS
<1>4. q \in EntryType /\ q.mask = r.mask \cup {c} /\ SameEntry(q, r, {"mask", "data"})
    BY <1>3 DEF EntryType, SameEntry
<1>5. tbl' = [tbl EXCEPT ![e] = q]
    BY <1>1, <1>2, <1>3 DEF Register, Types, EntryType
<1>6. Only(e, {"mask", "data"}) /\ tbl'[e] = q
    <2>1. {"valid", "key", "owner", "signaled"} \cap {"mask", "data"} = {} /\ "parents" \notin {"mask", "data"}
        OBVIOUS
    <2>2. SameEntry(q, tbl[e], {"mask", "data"}) /\ q \in EntryType
        BY <1>2, <1>4
    <2> QED BY <1>5, <2>1, <2>2, OnlyIf
<1> QED BY <1>1, <1>2, <1>4, <1>6

(* The client of a join is put in its mask. *)
LEMMA MaskTable ==
    ASSUME Types, NEW c \in Clients, MaskJoin(c), loc[c].ent \in Slots
    PROVE  /\ Only(loc[c].ent, {"mask"})
           /\ tbl'[loc[c].ent].mask = tbl[loc[c].ent].mask \cup {c}
<1>1. PICK e \in Slots : e = loc[c].ent
    OBVIOUS
<1>2. PICK r \in EntryType : r = tbl[e]
    BY DEF Types
<1>3. PICK q : q = [r EXCEPT !.mask = r.mask \cup {c}]
    OBVIOUS
<1>4. q \in EntryType /\ q.mask = r.mask \cup {c} /\ SameEntry(q, r, {"mask"})
    BY <1>3 DEF EntryType, SameEntry
<1>5. tbl' = [tbl EXCEPT ![e] = q]
    BY <1>1, <1>2, <1>3 DEF MaskJoin, Types, EntryType
<1>6. Only(e, {"mask"}) /\ tbl'[e] = q
    BY <1>2, <1>4, <1>5, OnlyIf
<1> QED BY <1>1, <1>2, <1>4, <1>6

(* A reset takes its client out of one mask. *)
LEMMA ClearTable ==
    ASSUME Types, NEW c \in Clients, ClearWait(c)
    PROVE  /\ Only(loc[c].slot, {"mask"})
           /\ tbl'[loc[c].slot].mask = tbl[loc[c].slot].mask \ {c}
<1>1. PICK e \in Slots : e = loc[c].slot
    BY DEF Types, LocType
<1>2. PICK r \in EntryType : r = tbl[e]
    BY DEF Types
<1>3. PICK q : q = [r EXCEPT !.mask = r.mask \ {c}]
    OBVIOUS
<1>4. q \in EntryType /\ q.mask = r.mask \ {c} /\ SameEntry(q, r, {"mask"})
    BY <1>3 DEF EntryType, SameEntry
<1>5. tbl' = [tbl EXCEPT ![e] = q]
    BY <1>1, <1>2, <1>3 DEF ClearWait, Types, EntryType
<1>6. Only(e, {"mask"}) /\ tbl'[e] = q
    BY <1>2, <1>4, <1>5, OnlyIf
<1> QED BY <1>1, <1>2, <1>4, <1>6

(* The data of the client goes into one entry. *)
LEMMA StoreTable ==
    ASSUME Types, NEW c \in Clients, StoreData(c), loc[c].join \in Slots
    PROVE  Only(loc[c].join, {"data"})
<1>1. PICK e \in Slots : e = loc[c].join
    OBVIOUS
<1>2. PICK r \in EntryType : r = tbl[e]
    BY DEF Types
<1>3. PICK q : q = [r EXCEPT !.data = r.data \cup {c}]
    OBVIOUS
<1>4. q \in EntryType /\ SameEntry(q, r, {"data"})
    BY <1>3 DEF EntryType, SameEntry
<1>5. tbl' = [tbl EXCEPT ![e] = q]
    BY <1>1, <1>2, <1>3 DEF StoreData, Types, EntryType
<1>6. Only(e, {"data"}) /\ tbl'[e] = q
    BY <1>2, <1>4, <1>5, OnlyIf
<1> QED BY <1>1, <1>6

(* A link counts off the join or appends it to the child's parents. *)
LEMMA LinkTable ==
    ASSUME Types, NEW c \in Clients, Link(c), loc[c].join \in Slots, loc[c].ent \in Slots
    PROVE  LET l == loc[c]
               n == tbl[l.ent].cnt + 1
           IN  /\ tbl[l.ent].signaled =>
                     /\ Only(l.join, {"pending"})
                     /\ tbl'[l.join].pending = tbl[l.join].pending - 1
               /\ ~tbl[l.ent].signaled /\ ~TooMany(n) =>
                     /\ Only(l.ent, {"cnt", "parents"})
                     /\ n \in 1..MaxParents
                     /\ tbl'[l.ent].cnt = n
                     /\ tbl'[l.ent].parents = [tbl[l.ent].parents EXCEPT ![n] = l.join]
               /\ ~tbl[l.ent].signaled /\ TooMany(n) => tbl' = tbl
<1>1. PICK j \in Slots : j = loc[c].join
    OBVIOUS
<1>2. PICK e \in Slots : e = loc[c].ent
    OBVIOUS
<1>3. CASE tbl[e].signaled
    <2>1. PICK r \in EntryType : r = tbl[j]
        BY DEF Types
    <2>2. PICK v \in Int : v = r.pending - 1
        BY DEF EntryType
    <2>3. PICK q : q = [r EXCEPT !.pending = v]
        OBVIOUS
    <2>4. q \in EntryType /\ q.pending = v /\ SameEntry(q, r, {"pending"})
        BY <2>3 DEF EntryType, SameEntry
    <2>5. tbl' = [tbl EXCEPT ![j] = q]
        BY <1>1, <1>2, <1>3, <2>1, <2>2, <2>3 DEF Link, ChildSignaled, Types, EntryType
    <2>6. Only(j, {"pending"}) /\ tbl'[j] = q
        BY <2>1, <2>4, <2>5, OnlyIf
    <2> QED BY <1>1, <1>2, <1>3, <2>1, <2>2, <2>4, <2>6
<1>4. CASE ~tbl[e].signaled /\ ~TooMany(tbl[e].cnt + 1)
    <2>1. PICK r \in EntryType : r = tbl[e]
        BY DEF Types
    <2>2. PICK n \in 1..(MaxParents - 1) : n = r.cnt + 1
        BY <1>4, <2>1, ConfFacts DEF EntryType, TooMany, Types
    <2>3. PICK p \in [1..MaxParents -> Slots \cup {NoSlot}] : p = [r.parents EXCEPT ![n] = j]
        <3>1. r.parents \in [1..MaxParents -> Slots \cup {NoSlot}]
            BY DEF EntryType
        <3> QED BY <3>1
    <2>4. PICK q : q = [r EXCEPT !.cnt = n, !.parents = p]
        OBVIOUS
    <2>a. n \in 0..(MaxParents - 1)
        BY <2>2, ConfFacts DEF Types
    <2>5. q \in EntryType /\ q.cnt = n /\ q.parents = p /\ SameEntry(q, r, {"cnt", "parents"})
        BY <2>a, <2>4 DEF EntryType, SameEntry
    <2>6. tbl' = [tbl EXCEPT ![e].cnt = n, ![e].parents[n] = j]
        BY <1>1, <1>2, <1>4, <2>1, <2>2 DEF Link, ChildSignaled
    <2>7. tbl' = [tbl EXCEPT ![e] = q]
        BY <2>1, <2>3, <2>4, <2>6 DEF Types, EntryType
    <2>8. Only(e, {"cnt", "parents"}) /\ tbl'[e] = q
        BY <2>1, <2>5, <2>7, OnlyIf
    <2>9. n \in 1..MaxParents
        BY <2>2, ConfFacts DEF Types
    <2> QED BY <1>1, <1>2, <1>4, <2>1, <2>2, <2>3, <2>5, <2>8, <2>9
<1>5. CASE ~tbl[e].signaled /\ TooMany(tbl[e].cnt + 1)
    BY <1>1, <1>2, <1>5 DEF Link, ChildSignaled
<1> QED BY <1>2, <1>3, <1>4, <1>5

(* The size of an interval. *)
LEMMA UpTo ==
    ASSUME NEW m \in Nat
    PROVE  IsFiniteSet(1..m) /\ Cardinality(1..m) = m
<1>1. /\ IsFiniteSet(1..m)
      /\ Cardinality(1..m) = IF 1 > m THEN 0 ELSE m - 1 + 1
    BY FS_Interval
<1> QED BY <1>1

(* A cut leaves no more links than there were, and none to the join. *)
LEMMA CutTable ==
    ASSUME Types, NEW c \in Clients, Cut(c), loc[c].ent \in Slots
    PROVE  LET l == loc[c]
               r == tbl[l.ent]
               q == tbl'[l.ent]
           IN  /\ Only(l.ent, {"cnt", "parents"})
               /\ q.cnt <= r.cnt
               /\ q.parents = [i \in 1..MaxParents |->
                                  IF i \in 1..r.cnt /\ r.parents[i] = l.join THEN NoSlot ELSE r.parents[i]]
               /\ q.cnt = r.cnt - Cardinality({i \in 1..r.cnt : r.parents[i] = l.join})
<1>1. PICK e \in Slots : e = loc[c].ent
    OBVIOUS
<1>2. PICK r \in EntryType : r = tbl[e]
    BY DEF Types
<1>3. PICK j : j = loc[c].join
    OBVIOUS
<1>4. PICK cut : cut = {i \in 1..r.cnt : r.parents[i] = j}
    OBVIOUS
<1>5. r.cnt \in 0..(MaxParents - 1) /\ r.parents \in [1..MaxParents -> Slots \cup {NoSlot}]
    BY DEF EntryType
<1>6. MaxParents \in Nat /\ MaxParents > 0
    BY ConfFacts DEF Types
<1>7. PICK n \in 0..(MaxParents - 1) : n = r.cnt - Cardinality(cut) /\ n <= r.cnt
    <2>1. IsFiniteSet(1..r.cnt) /\ Cardinality(1..r.cnt) = r.cnt
        <3>1. r.cnt \in Nat
            BY <1>5, <1>6
        <3> QED BY <3>1, UpTo
    <2>2. cut \in SUBSET (1..r.cnt)
        BY <1>4
    <2>3. IsFiniteSet(cut) /\ Cardinality(cut) <= r.cnt
        BY <2>1, <2>2, FS_Subset
    <2>4. Cardinality(cut) \in Nat
        BY <2>3, FS_CardinalityType
    <2> QED BY <1>5, <1>6, <2>3, <2>4
<1>8. PICK p : p = [i \in 1..MaxParents |-> IF i \in cut THEN NoSlot ELSE r.parents[i]]
    OBVIOUS
<1>9. p \in [1..MaxParents -> Slots \cup {NoSlot}]
    BY <1>5, <1>8
<1>10. PICK q : q = [r EXCEPT !.cnt = n, !.parents = p]
    OBVIOUS
<1>11. q \in EntryType /\ q.cnt = n /\ q.parents = p /\ SameEntry(q, r, {"cnt", "parents"})
    BY <1>7, <1>9, <1>10 DEF EntryType, SameEntry
<1>12. tbl' = [tbl EXCEPT ![e].cnt = n, ![e].parents = p]
    <2>1. tbl' = [tbl EXCEPT ![e].cnt = @ - Cardinality(cut),
                      ![e].parents = [i \in 1..MaxParents |-> IF i \in cut THEN NoSlot ELSE @[i]]]
        BY <1>1, <1>2, <1>3, <1>4 DEF Cut
    <2> QED BY <1>2, <1>7, <1>8, <2>1 DEF Types, EntryType
<1>13. tbl' = [tbl EXCEPT ![e] = q]
    BY <1>2, <1>10, <1>12 DEF Types, EntryType
<1>14. Only(e, {"cnt", "parents"}) /\ tbl'[e] = q
    BY <1>2, <1>11, <1>13, OnlyIf
<1>15. p = [i \in 1..MaxParents |->
                IF i \in 1..r.cnt /\ r.parents[i] = j THEN NoSlot ELSE r.parents[i]]
    BY <1>4, <1>8
<1> QED BY <1>1, <1>2, <1>3, <1>4, <1>7, <1>11, <1>14, <1>15

(* A reserved and a free entry. *)
LEMMA FreshFacts ==
    ASSUME Types
    PROVE  /\ FreeEntry \in EntryType /\ EntryOK(FreeEntry)
           /\ FreeEntry.valid = FALSE /\ FreeEntry.key = NoKey /\ FreeEntry.owner = NoClient
           /\ FreeEntry.mask = {} /\ FreeEntry.cnt = 0 /\ FreeEntry.pending = 0
           /\ FreeEntry.signaled = FALSE
<1>1. MaxParents \in Nat /\ MaxParents > 0
    BY ConfFacts DEF Types
<1>2. NoParents \in [1..MaxParents -> Slots \cup {NoSlot}]
    BY DEF NoParents
<1>3. 0 \in 0..(MaxParents - 1)
    BY <1>1
<1>4. FreeEntry \in EntryType
    BY <1>2, <1>3 DEF FreeEntry, EntryType
<1>5. NoKey \notin Arrays /\ NoClient # JoinClient
    BY KeysAssumption, ClientsAssumption DEF Keys
<1>6. EntryOK(FreeEntry)
    BY <1>5 DEF FreeEntry, EntryOK
<1> QED BY <1>4, <1>6 DEF FreeEntry

Fresh(r, k, o, n) ==
    /\ EntryOK(r) /\ r.valid = TRUE /\ r.key = k /\ r.owner = o /\ r.mask = {} /\ r.cnt = 0
    /\ r.pending = n /\ r.signaled = FALSE

(* What a reserved entry holds. *)
LEMMA ReservedFacts ==
    ASSUME Types, NEW k \in Keys, NEW o \in Clients \cup {JoinClient}, NEW n \in Int,
           o = JoinClient <=> k \in Arrays, o # JoinClient => n = 0,
           NEW r, r = Reserved(k, o, n)
    PROVE  r \in EntryType /\ Fresh(r, k, o, n)
<1>1. PICK q \in EntryType : q = FreeEntry
    BY FreshFacts
<1>2. r = [q EXCEPT !.valid = TRUE, !.key = k, !.owner = o, !.pending = n]
    BY <1>1 DEF Reserved
<1>3. r \in EntryType
    BY <1>2 DEF EntryType
<1>4. /\ r.valid = TRUE /\ r.key = k /\ r.owner = o /\ r.mask = q.mask /\ r.cnt = q.cnt
      /\ r.pending = n /\ r.signaled = q.signaled
    BY <1>2 DEF EntryType
<1>5. q.mask = {} /\ q.cnt = 0 /\ q.signaled = FALSE
    BY <1>1, FreshFacts
<1>6. k # NoKey /\ o # NoClient /\ JoinClient \notin Clients
    BY KeysAssumption, ClientsAssumption
<1> QED BY <1>3, <1>4, <1>5, <1>6 DEF EntryOK, Fresh

(* A lookup that hits. *)
Puts(e, r) ==
    /\ e \in Slots /\ r \in EntryType /\ tbl' \in [Slots -> EntryType] /\ tbl'[e] = r
    /\ \A g \in Slots : g # e => tbl'[g] = tbl[g]

(* What a lookup that matches does to the table. *)
LEMMA HitTable ==
    ASSUME Types, Shapes, NEW c \in Clients, NEW e \in Slots, pc[c] = "probe",
           Matches(loc[c].op, e, loc[c].key),
           tbl' = [tbl EXCEPT ![e] = Processed(loc[c].op, c, e, loc[c].key)]
    PROVE  LET l == loc[c] IN
           /\ l.op \in {"create", "join", "destroy", "find"}
           /\ l.op = "create" => /\ l.call = "create" /\ l.key \in Fences /\ ~tbl[e].valid
                                 /\ Puts(e, tbl'[e]) /\ Fresh(tbl'[e], l.key, c, 0)
           /\ l.op = "join" => /\ l.call = "array" /\ l.key \in Arrays /\ l.arr = l.key /\ ~tbl[e].valid
                               /\ Puts(e, tbl'[e]) /\ Fresh(tbl'[e], l.key, JoinClient, Size(l.key))
           /\ l.op = "destroy" => tbl[e].key = l.key /\ Puts(e, FreeEntry)
           /\ l.op = "find" => tbl[e].key = l.key /\ tbl' = tbl
<1>1. PICK l \in LocType : l = loc[c]
    BY DEF Types
<1>2. Shape("probe", l)
    BY <1>1 DEF Shapes
<1>3. /\ l.op \in {"create", "join", "destroy", "find"}
      /\ l.op = "create" => l.call = "create" /\ l.key \in Fences
      /\ l.op = "join" => l.call = "array" /\ l.key \in Arrays /\ l.arr = l.key
    BY <1>2 DEF Shape, ArrayShape
<1>4. ASSUME NEW r \in EntryType, tbl' = [tbl EXCEPT ![e] = r] PROVE Puts(e, r)
    BY <1>4 DEF Types, Puts
<1>5. CASE l.op = "create"
    <2>1. PICK r : r = Reserved(l.key, c, 0)
        OBVIOUS
    <2>2. l.key \in Keys /\ l.key \notin Arrays /\ c # JoinClient
        BY <1>3, <1>5, KeysAssumption, ClientsAssumption DEF Keys
    <2>3. r \in EntryType /\ Fresh(r, l.key, c, 0)
        BY <2>1, <2>2, ReservedFacts
    <2>4. tbl' = [tbl EXCEPT ![e] = r]
        BY <1>1, <1>5, <2>1 DEF Processed
    <2>5. ~tbl[e].valid
        BY <1>1, <1>5 DEF Matches, IsCreate
    <2>6. Puts(e, r)
        BY <1>4, <2>3, <2>4
    <2>7. tbl'[e] = r
        BY <2>6 DEF Puts
    <2> QED BY <1>1, <1>3, <1>5, <2>3, <2>5, <2>6, <2>7
<1>6. CASE l.op = "join"
    <2>0. Size(l.key) \in Int
        BY <1>3, <1>6, ConfFacts DEF Types
    <2>1. PICK r : r = Reserved(l.key, JoinClient, Size(l.key))
        OBVIOUS
    <2>2. l.key \in Keys /\ l.key \in Arrays
        BY <1>3, <1>6 DEF Keys
    <2>3. r \in EntryType /\ Fresh(r, l.key, JoinClient, Size(l.key))
        BY <2>0, <2>1, <2>2, ReservedFacts
    <2>4. tbl' = [tbl EXCEPT ![e] = r]
        BY <1>1, <1>6, <2>1 DEF Processed, Size
    <2>5. ~tbl[e].valid
        BY <1>1, <1>6 DEF Matches, IsCreate
    <2>6. Puts(e, r)
        BY <1>4, <2>3, <2>4
    <2>7. tbl'[e] = r
        BY <2>6 DEF Puts
    <2> QED BY <1>1, <1>3, <1>6, <2>3, <2>5, <2>6, <2>7
<1>7. CASE l.op = "destroy"
    <2>1. tbl' = [tbl EXCEPT ![e] = FreeEntry]
        BY <1>1, <1>7 DEF Processed
    <2>2. tbl[e].key = l.key
        BY <1>1, <1>7 DEF Matches, IsCreate
    <2>3. FreeEntry \in EntryType
        BY FreshFacts
    <2> QED BY <1>1, <1>4, <1>7, <2>1, <2>2, <2>3
<1>8. CASE l.op = "find"
    <2>1. tbl' = [tbl EXCEPT ![e] = tbl[e]]
        BY <1>1, <1>8 DEF Processed
    <2>2. tbl' = tbl
        BY <2>1 DEF Types
    <2>3. tbl[e].key = l.key
        BY <1>1, <1>8 DEF Matches, IsCreate
    <2> QED BY <1>1, <1>8, <2>2, <2>3
<1> QED BY <1>1, <1>3, <1>5, <1>6, <1>7, <1>8

(* How often an entry names another one as its parent. *)
LEMMA TimesFacts ==
    ASSUME Types, NEW e \in Slots
    PROVE  \A s : /\ Times(e, s) \in Nat
                  /\ IsFiniteSet({i \in 1..tbl[e].cnt : tbl[e].parents[i] = s})
                  /\ Times(e, s) > 0 <=> \E i \in 1..tbl[e].cnt : tbl[e].parents[i] = s
<1> SUFFICES ASSUME NEW s
             PROVE  /\ Times(e, s) \in Nat
                    /\ IsFiniteSet({i \in 1..tbl[e].cnt : tbl[e].parents[i] = s})
                    /\ Times(e, s) > 0 <=> \E i \in 1..tbl[e].cnt : tbl[e].parents[i] = s
    OBVIOUS
<1>1. PICK S : S = {i \in 1..tbl[e].cnt : tbl[e].parents[i] = s}
    OBVIOUS
<1>2. tbl[e].cnt \in Nat
    BY ConfFacts DEF Types, EntryType
<1>3. S \in SUBSET (1..tbl[e].cnt)
    BY <1>1
<1>4. IsFiniteSet(S)
    BY <1>2, <1>3, UpTo, FS_Subset
<1>5. Cardinality(S) \in Nat /\ (Cardinality(S) = 0 <=> S = {})
    BY <1>4, FS_CardinalityType, FS_EmptySet
<1>6. Times(e, s) = Cardinality(S)
    BY <1>1 DEF Times
<1> QED BY <1>1, <1>4, <1>5, <1>6

(* What the Fence CTL does to the table. *)
Full(e) == {s \in ParentsOf(e) : tbl[s].pending = Times(e, s)}
Told(s, e) ==
    /\ s = e => SameEntry(tbl'[s], tbl[s], {"signaled"}) /\ tbl'[s].signaled = TRUE
    /\ s # e /\ s \in Full(e) => tbl'[s] = FreeEntry
    /\ s # e /\ s \notin Full(e) => /\ SameEntry(tbl'[s], tbl[s], {"pending"})
                                    /\ tbl'[s].pending = tbl[s].pending - Times(e, s)

(* What a signal of the Fence CTL does to each entry. *)
LEMMA CtlTable ==
    ASSUME Types, NEW e \in Slots, CtlSignal(e)
    PROVE  /\ tbl[e].valid /\ tbl[e].owner # JoinClient /\ ~tbl[e].signaled
           /\ tbl' \in [Slots -> EntryType]
           /\ \A s \in Slots : Told(s, e)
           /\ Full(e) \subseteq Slots
           /\ done' = done \cup {tbl[e].key}
           /\ UNCHANGED <<enabled, pc, loc, made, conf>>
<1> DEFINE One(s) == [tbl[s] EXCEPT !.signaled = TRUE]
           Less(s) == [tbl[s] EXCEPT !.pending = @ - Times(e, s)]
<1>1. tbl' = [s \in Slots |-> IF s = e THEN One(s)
                              ELSE IF s \in Full(e) THEN FreeEntry ELSE Less(s)]
    BY DEF CtlSignal, Full
<1> HIDE DEF One, Less
<1>2. ASSUME NEW s \in Slots PROVE Told(s, e) /\ tbl'[s] \in EntryType
    <2>1. PICK r \in EntryType : r = tbl[s]
        BY DEF Types
    <2>2. CASE s = e
        <3>0. tbl'[s] = One(s)
            BY <1>1, <2>2
        <3>1. tbl'[s] = [r EXCEPT !.signaled = TRUE]
            BY <2>1, <3>0 DEF One
        <3>2. tbl'[s] \in EntryType /\ SameEntry(tbl'[s], r, {"signaled"}) /\ tbl'[s].signaled = TRUE
            BY <3>1 DEF EntryType, SameEntry
        <3> QED BY <2>1, <2>2, <3>2 DEF Told
    <2>3. CASE s # e /\ s \in Full(e)
        BY <1>1, <2>3, FreshFacts DEF Told
    <2>4. CASE s # e /\ s \notin Full(e)
        <3>a. Times(e, s) \in Nat
            BY TimesFacts
        <3>b. r.pending \in Int
            BY DEF EntryType
        <3>1. PICK v \in Int : v = r.pending - Times(e, s)
            BY <3>a, <3>b
        <3>0. tbl'[s] = Less(s)
            BY <1>1, <2>4
        <3>2. tbl'[s] = [r EXCEPT !.pending = v]
            BY <2>1, <3>0, <3>1 DEF Less
        <3>3. tbl'[s] \in EntryType /\ SameEntry(tbl'[s], r, {"pending"}) /\ tbl'[s].pending = v
            BY <3>2 DEF EntryType, SameEntry
        <3> QED BY <2>1, <2>4, <3>1, <3>3 DEF Told
    <2> QED BY <2>2, <2>3, <2>4
<1>3. tbl' \in [Slots -> EntryType]
    BY <1>1, <1>2
<1>4. Full(e) \subseteq Slots
    <2>1. tbl[e].parents \in [1..MaxParents -> Slots \cup {NoSlot}] /\ tbl[e].cnt \in 0..(MaxParents - 1)
        BY DEF Types, EntryType
    <2>2. MaxParents \in Nat
        BY ConfFacts DEF Types
    <2>3. \A i \in 1..tbl[e].cnt : tbl[e].parents[i] \in Slots \cup {NoSlot}
        BY <2>1, <2>2
    <2> QED BY <2>3 DEF Full, ParentsOf
<1> QED BY <1>2, <1>3, <1>4 DEF CtlSignal, bounds
----------------------------------------------------------------------------
(* The positions of a call on an array. *)
LEMMA LeftFinite ==
    ASSUME conf \in Configs, NEW a \in Arrays, NEW h \in Int
    PROVE  /\ Left(a, h) \subseteq 1..Size(a) /\ IsFiniteSet(Left(a, h))
           /\ Cardinality(Left(a, h)) \in Nat
           /\ \A k : IsFiniteSet(Occurs(a, h, k)) /\ Cardinality(Occurs(a, h, k)) \in Nat
<1>1. Size(a) \in Nat
    BY ConfFacts
<1>2. Left(a, h) \in SUBSET (1..Size(a))
    BY DEF Left
<1>3. IsFiniteSet(Left(a, h))
    BY <1>1, <1>2, UpTo, FS_Subset
<1>4. ASSUME NEW k PROVE IsFiniteSet(Occurs(a, h, k))
    <2>1. IsFiniteSet(1..(h - 1))
        BY FS_Interval
    <2>2. Occurs(a, h, k) \in SUBSET (1..(h - 1))
        BY DEF Occurs
    <2> QED BY <2>1, <2>2, FS_Subset
<1> QED BY <1>2, <1>3, <1>4, FS_CardinalityType

(* A call that is not failing has its join, handled up to its child. *)
LEMMA AtChild ==
    ASSUME IInv, NEW c \in Clients, Live(c), ~Undoing(c)
    PROVE  /\ loc[c].arr \in Arrays /\ JoinOf(c) \in Slots
           /\ tbl[JoinOf(c)].key = loc[c].arr /\ tbl[JoinOf(c)].owner = JoinClient
           /\ tbl[JoinOf(c)].valid
           /\ JoinHas(JoinOf(c), loc[c].idx)
<1>1. loc[c].call = "array" /\ ArrayOK(c) /\ ArrayShape(pc[c], loc[c])
    BY NoLocalsFacts DEF Live, Making, IInv, CallsOK, Shapes, Shape
<1>2. loc[c].arr \in Arrays /\ tbl[JoinOf(c)].key = loc[c].arr
    BY <1>1 DEF ArrayOK, ArrayShape
<1>3. JoinOf(c) \in Slots
    BY <1>1 DEF ArrayShape, JoinOf, Live, Making
<1>4. tbl[JoinOf(c)].owner = JoinClient /\ tbl[JoinOf(c)].valid
    <2>1. EntryOK(tbl[JoinOf(c)])
        BY <1>3 DEF IInv, TableOK
    <2>2. JoinClient # NoClient
        BY ClientsAssumption
    <2> QED BY <1>2, <2>1, <2>2 DEF EntryOK
<1>5. PICK h : JoinHas(JoinOf(c), h)
    BY <1>3, <1>4 DEF IInv, JoinsOK
<1>6. c \in Makers(JoinOf(c))
    BY <1>2 DEF Makers
<1>7. h = loc[c].idx
    BY <1>5, <1>6 DEF JoinHas, Handled
<1> QED BY <1>2, <1>3, <1>4, <1>5, <1>7

(* A child counted off to nothing is the last child. *)
LEMMA LastIsLast ==
    ASSUME IInv, NEW c \in Clients, pc[c] = "link"
    PROVE  /\ loc[c].call = "array" /\ ArrayShape("link", loc[c])
           /\ Live(c) /\ ~Undoing(c) /\ JoinOf(c) = loc[c].join
           /\ tbl[loc[c].join].pending = 1 => loc[c].idx = Size(loc[c].arr)
           /\ tbl[loc[c].join].pending >= 1
<1>1. loc[c].call = "array" /\ ArrayShape("link", loc[c])
    BY NoLocalsFacts DEF IInv, Shapes, Shape
<1>2. Live(c) /\ ~Undoing(c) /\ JoinOf(c) = loc[c].join
    BY <1>1 DEF Live, Making, Undoing, Failing, JoinOf, ArrayShape
<1>3. PICK l \in LocType : l = loc[c]
    BY DEF IInv, Types
<1>4. PICK a \in Arrays : a = l.arr
    BY <1>1, <1>3 DEF ArrayShape
<1>5. PICK h \in 1..Size(a) : h = l.idx
    BY <1>1, <1>3, <1>4 DEF ArrayShape
<1>6. Size(a) \in Nat /\ conf \in Configs
    BY ConfFacts DEF IInv, Types
<1>7. Cardinality(Left(a, h)) <= tbl[l.join].pending
    BY <1>2, <1>3, <1>4, <1>5, AtChild DEF JoinHas
<1>8. /\ IsFiniteSet(Left(a, h)) /\ Cardinality(Left(a, h)) \in Nat
    BY <1>5, <1>6, LeftFinite
<1>9. tbl[l.join].pending \in Int
    BY <1>1, <1>3 DEF IInv, Types, EntryType, ArrayShape
<1>10. h \in Left(a, h)
    BY <1>5, <1>6 DEF Left
<1>11. Cardinality(Left(a, h) \ {h}) = Cardinality(Left(a, h)) - 1 /\ IsFiniteSet(Left(a, h) \ {h})
    BY <1>8, <1>10, FS_RemoveElement
<1>12. Cardinality(Left(a, h) \ {h}) \in Nat
    BY <1>11, FS_CardinalityType
<1>13. ASSUME h # Size(a) PROVE Cardinality(Left(a, h) \ {h}) # 0
    <2>1. h + 1 \in Left(a, h) \ {h}
        BY <1>5, <1>6, <1>13 DEF Left
    <2> QED BY <1>11, <2>1, FS_EmptySet
<1>14. tbl[l.join].pending >= 1 /\ (tbl[l.join].pending = 1 => h = Size(a))
    BY <1>7, <1>8, <1>9, <1>11, <1>12, <1>13
<1> QED BY <1>1, <1>2, <1>3, <1>4, <1>5, <1>14

(* A step of a call either ends it or stays in it. *)
Continues(c) ==
    /\ loc'[c].call = loc[c].call /\ loc'[c].arr = loc[c].arr
    /\ loc[c].call \in {"create", "destroy", "wait"} => loc'[c].key = loc[c].key
Ends(c) == pc'[c] = "idle" /\ loc'[c] = NoLocals

(* A step of a client ends its call or continues it. *)
LEMMA StepGoes ==
    ASSUME IInv, NEW c \in Clients, Step(c)
    PROVE  (\E p : Goes(c, p)) /\ (Ends(c) \/ Continues(c)) /\ pc[c] # "idle"
<1> USE DEF Continues, Ends, Entered, Same
<1>0. Types /\ Shapes /\ TableOK
    BY DEF IInv
<1>1. CASE Probe(c)
    <2>1. Shape("probe", loc[c]) /\ pc[c] = "probe"
        BY <1>0, <1>1 DEF Probe, Shapes
    <2> QED BY <1>0, <1>1, <2>1, ProbeGoes DEF Goes
<1>2. CASE Enable(c) \/ Disable(c) \/ Recheck(c)
    BY <1>0, <1>2, ReturnGoes DEF Enable, Disable, Recheck, Goes
<1>3. CASE Register(c)
    BY <1>0, <1>3, RegisterGoes DEF Goes
<1>4. CASE MaskJoin(c)
    BY <1>0, <1>4, MaskGoes DEF Goes
<1>5. CASE Child(c)
    BY <1>0, <1>5, ChildGoes DEF Goes
<1>6. CASE Link(c)
    <2>1. tbl[loc[c].join].pending = 1 => loc[c].idx = Size(loc[c].arr)
        BY <1>6, LastIsLast DEF Link
    <2> QED BY <1>0, <1>6, <2>1, LinkGoes DEF Goes
<1>7. CASE StoreData(c)
    BY <1>0, <1>7, StoreGoes DEF Goes
<1>8. CASE SignalJoin(c)
    BY <1>0, <1>8, SignalJoinGoes DEF Goes
<1>9. CASE Unlink(c)
    BY <1>0, <1>9, UnlinkGoes DEF Goes
<1>10. CASE Cut(c) \/ SkipChild(c)
    BY <1>0, <1>10, BackGoes DEF Goes
<1>11. CASE ClearWait(c)
    BY <1>0, <1>11, ClearGoes DEF Goes
<1>12. CASE CheckOwner(c)
    BY <1>0, <1>12, OwnerGoes DEF Goes
<1>13. CASE SignalError(c)
    <2>1. tbl[loc[c].slot].key \in Fences
        <3>1. loc[c].call = "reset" /\ pc[c] = "error"
            BY <1>0, <1>13, NoLocalsFacts DEF SignalError, Shapes, Shape, ArrayShape
        <3>2. loc[c].slot \in Slots /\ tbl[loc[c].slot].owner = c
            BY <3>1 DEF IInv, ResetsOK, ResetOK, Types, LocType
        <3>3. EntryOK(tbl[loc[c].slot]) /\ tbl[loc[c].slot].key \in Keys \cup {NoKey}
            BY <1>0, <3>2 DEF TableOK, Types, EntryType
        <3> QED BY <3>2, <3>3, ClientsAssumption DEF EntryOK, Keys
    <2> QED BY <1>0, <1>13, <2>1, ErrorGoes DEF Goes
<1>14. CASE NextEntry(c)
    BY <1>0, <1>14, NextEntryGoes DEF Goes
<1> QED BY <1>1, <1>2, <1>3, <1>4, <1>5, <1>6, <1>7, <1>8, <1>9, <1>10, <1>11, <1>12, <1>13, <1>14
    DEF Step

(* Most steps leave the fences of the table alone; a lookup that hits      *)
(* reserves an entry for its key, or frees the entry of its key.           *)
Steady ==
    /\ tbl' \in [Slots -> EntryType]
    /\ \A e \in Slots : /\ tbl'[e].valid = tbl[e].valid /\ tbl'[e].key = tbl[e].key
                        /\ tbl'[e].owner = tbl[e].owner /\ tbl'[e].signaled = tbl[e].signaled
Reserves(c, e) ==
    LET l == loc[c] IN
    /\ Probe(c) /\ Puts(e, tbl'[e]) /\ ~tbl[e].valid /\ Goes(c, l.found)
    /\ e = ProbeAt(l.key, l.step) /\ loc'[c].ent = e /\ Same(loc'[c], l, {"ent"})
    /\ \/ l.op = "create" /\ l.call = "create" /\ l.key \in Fences /\ Fresh(tbl'[e], l.key, c, 0)
       \/ /\ l.op = "join" /\ l.call = "array" /\ l.key \in Arrays /\ l.arr = l.key
          /\ Fresh(tbl'[e], l.key, JoinClient, Size(l.key))
Frees(c, e) ==
    LET l == loc[c] IN
    /\ Probe(c) /\ Puts(e, FreeEntry) /\ tbl[e].key = l.key /\ l.op = "destroy" /\ Goes(c, l.found)
    /\ \/ l.found = "idle" /\ loc'[c] = NoLocals
       \/ l.found # "idle" /\ loc'[c].ent = e /\ Same(loc'[c], l, {"ent"})

(* A change of fields that do not identify the fence. *)
LEMMA OnlySteady ==
    ASSUME NEW e, NEW x, Only(e, x)
    PROVE  Steady
BY DEF Only, Steady

(* No change at all. *)
LEMMA SameSteady ==
    ASSUME Types, tbl' = tbl
    PROVE  Steady
BY DEF Types, Steady

(* A lookup's effect on the table. *)
LEMMA ProbeTable ==
    ASSUME IInv, NEW c \in Clients, Probe(c)
    PROVE  \/ tbl' = tbl
           \/ \E e \in Slots : Reserves(c, e) \/ Frees(c, e)
<1>1. PICK l \in LocType : l = loc[c]
    BY DEF IInv, Types
<1>2. PICK e : e = ProbeAt(l.key, l.step)
    OBVIOUS
<1>3. Types /\ Shapes
    BY DEF IInv
<1>4. pc[c] = "probe" /\ e \in Slots
    BY <1>1, <1>2, <1>3, ProbeGoes
<1>5. CASE ~Matches(l.op, e, l.key)
    BY <1>1, <1>2, <1>3, <1>5, ProbeGoes
<1>6. CASE Matches(l.op, e, l.key)
    <2>1. /\ tbl' = [tbl EXCEPT ![e] = Processed(l.op, c, e, l.key)]
          /\ Goes(c, l.found)
          /\ \/ l.found = "idle" /\ loc'[c] = NoLocals
             \/ l.found # "idle" /\ loc'[c].ent = e /\ Same(loc'[c], l, {"ent"})
        BY <1>1, <1>2, <1>3, <1>6, ProbeGoes
    <2>2. IsCreate(l.op) => l.found # "idle"
        BY <1>1, <1>3, <1>4 DEF Shapes, Shape, ArrayShape, IsCreate
    <2>3. /\ l.op \in {"create", "join", "destroy", "find"}
          /\ l.op = "create" => /\ l.call = "create" /\ l.key \in Fences /\ ~tbl[e].valid
                                /\ Puts(e, tbl'[e]) /\ Fresh(tbl'[e], l.key, c, 0)
          /\ l.op = "join" => /\ l.call = "array" /\ l.key \in Arrays /\ l.arr = l.key /\ ~tbl[e].valid
                              /\ Puts(e, tbl'[e]) /\ Fresh(tbl'[e], l.key, JoinClient, Size(l.key))
          /\ l.op = "destroy" => tbl[e].key = l.key /\ Puts(e, FreeEntry)
          /\ l.op = "find" => tbl' = tbl
        BY <1>1, <1>3, <1>4, <1>6, <2>1, HitTable
    <2>4. CASE l.op = "find"
        BY <2>3, <2>4
    <2>5. CASE l.op \in {"create", "join"}
        <3>1. Reserves(c, e)
            BY <1>1, <1>2, <2>1, <2>2, <2>3, <2>5 DEF Reserves, IsCreate
        <3> QED BY <1>4, <3>1
    <2>6. CASE l.op = "destroy"
        <3>1. Frees(c, e)
            BY <1>1, <1>2, <2>1, <2>3, <2>6 DEF Frees
        <3> QED BY <1>4, <3>1
    <2> QED BY <2>3, <2>4, <2>5, <2>6
<1> QED BY <1>5, <1>6

(* Every step is steady, reserves or frees. *)
LEMMA StepTable ==
    ASSUME IInv, NEW c \in Clients, Call(c) \/ Step(c)
    PROVE  Steady \/ \E e \in Slots : Reserves(c, e) \/ Frees(c, e)
<1>0. Types /\ Shapes
    BY DEF IInv
<1>1. CASE Call(c)
    BY <1>0, <1>1, SameSteady DEF Call, Create, Destroy, DestroyWithHandle, Wait, WaitArray, Reset
<1>2. CASE Enable(c) \/ Disable(c) \/ Recheck(c) \/ Child(c) \/ SignalJoin(c) \/ Unlink(c)
           \/ SkipChild(c) \/ CheckOwner(c) \/ SignalError(c) \/ NextEntry(c)
    BY <1>0, <1>2, SameSteady DEF Enable, Disable, Recheck, Child, SignalJoin, Unlink, SkipChild,
                                  CheckOwner, SignalError, NextEntry
<1>3. CASE Probe(c)
    BY <1>0, <1>3, SameSteady, ProbeTable
<1>4. CASE Register(c)
    BY <1>0, <1>4, RegisterGoes, RegisterTable, OnlySteady
<1>5. CASE MaskJoin(c)
    <2>1. loc[c].ent \in Slots
        BY <1>0, <1>5, NoLocalsFacts DEF MaskJoin, Shapes, Shape, ArrayShape
    <2> QED BY <1>0, <1>5, <2>1, MaskTable, OnlySteady
<1>6. CASE Link(c)
    <2>1. loc[c].join \in Slots /\ loc[c].ent \in Slots
        BY <1>0, <1>6, NoLocalsFacts DEF Link, Shapes, Shape, ArrayShape
    <2>2. tbl' = tbl \/ (\E e : Only(e, {"pending"}) \/ Only(e, {"cnt", "parents"}))
        BY <1>0, <1>6, <2>1, LinkTable
    <2> QED BY <1>0, <2>2, OnlySteady, SameSteady
<1>7. CASE StoreData(c)
    <2>1. loc[c].join \in Slots
        BY <1>0, <1>7, NoLocalsFacts DEF StoreData, Shapes, Shape, ArrayShape
    <2> QED BY <1>0, <1>7, <2>1, StoreTable, OnlySteady
<1>8. CASE Cut(c)
    <2>1. loc[c].ent \in Slots
        BY <1>0, <1>8, NoLocalsFacts DEF Cut, Shapes, Shape, ArrayShape
    <2> QED BY <1>0, <1>8, <2>1, CutTable, OnlySteady
<1>9. CASE ClearWait(c)
    BY <1>0, <1>9, ClearTable, OnlySteady
<1> QED BY <1>1, <1>2, <1>3, <1>4, <1>5, <1>6, <1>7, <1>8, <1>9 DEF Step

(* What the steps of clients do to made, done and enabled. *)
LEMMA StepHistory ==
    ASSUME NEW c \in Clients, Call(c) \/ Step(c)
    PROVE  /\ done' = done
           /\ \/ made' = made
              \/ \E f \in Fences : Create(c, f) /\ made' = made \cup {f}
           /\ \/ enabled' = enabled
              \/ Enable(c) /\ enabled' = enabled \cup {loc[c].key}
              \/ Disable(c) /\ enabled' = enabled \ {loc[c].key}
<1> USE DEF history, Signal
<1>1. CASE Call(c)
    BY <1>1 DEF Call, Create, Destroy, DestroyWithHandle, Wait, WaitArray, Reset
<1>2. CASE Enable(c) \/ Disable(c)
    BY <1>2 DEF Enable, Disable
<1>3. CASE Recheck(c) \/ Child(c) \/ SignalJoin(c) \/ Unlink(c) \/ SkipChild(c) \/ CheckOwner(c)
           \/ NextEntry(c) \/ Probe(c) \/ Register(c) \/ MaskJoin(c) \/ Link(c) \/ StoreData(c)
           \/ Cut(c) \/ ClearWait(c)
    BY <1>3 DEF Recheck, Child, SignalJoin, Unlink, SkipChild, CheckOwner, NextEntry, Probe,
                Register, MaskJoin, Link, StoreData, Cut, ClearWait
<1>4. CASE SignalError(c)
    <2>1. done' = done /\ made' = made /\ enabled' = enabled
        BY <1>4 DEF SignalError
    <2> QED BY <2>1
<1> QED BY <1>1, <1>2, <1>3, <1>4 DEF Step

(* Every call begins as an idle client and leaves the table alone. *)
LEMMA CallStarts ==
    ASSUME IInv, NEW c \in Clients, Call(c)
    PROVE  /\ \/ \E f \in Fences : Create(c, f) /\ Begins(c, "create", NoKey, "create", f, "enable")
              \/ \E f \in Fences : MayDestroy(f) /\ f \in made
                                   /\ \E x : Begins(c, "destroy", NoKey, "destroy", f, x)
              \/ \E f \in Fences : Wait(c, f) /\ Begins(c, "wait", NoKey, "find", f, "register")
              \/ \E a \in Arrays : WaitArray(c, a) /\ Begins(c, "array", a, "join", a, "mask")
              \/ \E keep \in BOOLEAN : /\ Reset(c, keep) /\ Goes(c, "clear")
                                       /\ loc'[c].call = "reset" /\ loc'[c].arr = NoKey
           /\ (\E p : Goes(c, p)) /\ tbl' = tbl /\ MayCall(c) /\ loc[c] = NoLocals
<1>0. Types /\ Shapes /\ TableOK
    BY DEF IInv
<1>1. pc[c] = "idle" => loc[c] = NoLocals
    BY <1>0 DEF Shapes, Shape, ArrayShape
<1>2. ASSUME NEW f \in Fences, Create(c, f) \/ Destroy(c, f) \/ Wait(c, f)
      PROVE  tbl' = tbl /\ MayCall(c) /\ pc[c] = "idle" /\ (Destroy(c, f) => MayDestroy(f))
    BY <1>2 DEF Create, Destroy, Wait, MayCall
<1>3. ASSUME NEW e \in Slots, DestroyWithHandle(c, e)
      PROVE  /\ tbl' = tbl /\ MayCall(c) /\ pc[c] = "idle"
             /\ tbl[e].key \in Fences /\ MayDestroy(tbl[e].key)
             /\ Begins(c, "destroy", NoKey, "destroy", tbl[e].key, "idle")
    BY <1>0, <1>3, HandleGoes DEF DestroyWithHandle, MayCall
<1>4. ASSUME NEW a \in Arrays, WaitArray(c, a)
      PROVE  tbl' = tbl /\ MayCall(c) /\ pc[c] = "idle"
    BY <1>4 DEF WaitArray, MayCall
<1>5. ASSUME NEW keep \in BOOLEAN, Reset(c, keep)
      PROVE  tbl' = tbl /\ MayCall(c) /\ pc[c] = "idle"
    BY <1>5 DEF Reset, MayCall
<1>6. done \subseteq made
    BY <1>0 DEF TableOK
<1>7. \A f \in Fences : MayDestroy(f) => f \in made
    BY <1>6 DEF MayDestroy
<1>8. CASE \E f \in Fences : Create(c, f) \/ Destroy(c, f) \/ Wait(c, f)
    <2>1. PICK f \in Fences : Create(c, f) \/ Destroy(c, f) \/ Wait(c, f)
        BY <1>8
    <2>2. tbl' = tbl /\ MayCall(c) /\ pc[c] = "idle" /\ (Destroy(c, f) => MayDestroy(f))
        BY <1>2, <2>1
    <2>3. CASE Create(c, f)
        <3>1. Begins(c, "create", NoKey, "create", f, "enable")
            BY <1>0, <2>3, CallGoes
        <3>2. Goes(c, "probe")
            BY <3>1 DEF Begins
        <3> QED BY <1>1, <2>2, <2>3, <3>1, <3>2
    <2>4. CASE Destroy(c, f)
        <3>1. Begins(c, "destroy", NoKey, "destroy", f, "disable")
            BY <1>0, <2>4, CallGoes
        <3>2. Goes(c, "probe")
            BY <3>1 DEF Begins
        <3> QED BY <1>1, <1>7, <2>2, <2>4, <3>1, <3>2
    <2>5. CASE Wait(c, f)
        <3>1. Begins(c, "wait", NoKey, "find", f, "register")
            BY <1>0, <2>5, CallGoes
        <3>2. Goes(c, "probe")
            BY <3>1 DEF Begins
        <3> QED BY <1>1, <2>2, <2>5, <3>1, <3>2
    <2> QED BY <2>1, <2>3, <2>4, <2>5
<1>9. CASE \E e \in Slots : DestroyWithHandle(c, e)
    <2>1. PICK e \in Slots : DestroyWithHandle(c, e)
        BY <1>9
    <2>2. PICK f \in Fences : f = tbl[e].key
        BY <1>3, <2>1
    <2>3. /\ tbl' = tbl /\ MayCall(c) /\ pc[c] = "idle" /\ MayDestroy(f)
          /\ Begins(c, "destroy", NoKey, "destroy", f, "idle")
        BY <1>3, <2>1, <2>2
    <2>4. Goes(c, "probe")
        BY <2>3 DEF Begins
    <2> QED BY <1>1, <1>7, <2>3, <2>4
<1>10. CASE \E a \in Arrays : WaitArray(c, a)
    <2>1. PICK a \in Arrays : WaitArray(c, a)
        BY <1>10
    <2>2. Begins(c, "array", a, "join", a, "mask")
        BY <1>0, <2>1, CallGoes
    <2>3. Goes(c, "probe")
        BY <2>2 DEF Begins
    <2> QED BY <1>1, <1>4, <2>1, <2>2, <2>3
<1>11. CASE \E keep \in BOOLEAN : Reset(c, keep)
    BY <1>0, <1>1, <1>5, <1>11, ResetGoes
<1> QED BY <1>8, <1>9, <1>10, <1>11 DEF Call

(* Types and shapes are kept. *)
LEMMA TypesStep == IInv /\ [Next]_vars => Types' /\ Shapes' /\ conf' = conf
<1> SUFFICES ASSUME IInv, [Next]_vars PROVE Types' /\ Shapes' /\ conf' = conf
    OBVIOUS
<1>0. conf' = conf
    BY ConfFixed
<1>1. Types /\ Shapes
    BY DEF IInv
<1>2. EntryType' = EntryType /\ LocType' = LocType /\ \A p, l : Shape(p, l)' <=> Shape(p, l)
    BY <1>0 DEF EntryType, LocType, Shape, ArrayShape, Size, Kid, Children, MaxParents
<1>3. ASSUME NEW c \in Clients, Call(c) \/ Step(c) PROVE Types' /\ Shapes'
    <2>1. PICK p : Goes(c, p)
        BY <1>3, StepGoes, CallStarts
    <2>2. tbl' \in [Slots -> EntryType]
        BY <1>3, StepTable DEF Steady, Reserves, Frees, Puts
    <2>3. Types'
        BY <1>0, <1>1, <1>2, <2>1, <2>2 DEF Types, Goes
    <2>4. \A o \in Clients : Shape(pc'[o], loc'[o])
        BY <1>1, <2>1 DEF Goes, Shapes
    <2>5. Shapes'
        BY <1>0, <2>4 DEF Shapes, Shape, ArrayShape, Size, Kid, Children
    <2> QED BY <2>3, <2>5
<1>4. ASSUME NEW e \in Slots, CtlSignal(e) PROVE Types' /\ Shapes'
    <2>1. tbl' \in [Slots -> EntryType] /\ UNCHANGED <<pc, loc>>
        BY <1>1, <1>4, CtlTable
    <2>2. Types'
        BY <1>0, <1>1, <1>2, <2>1 DEF Types
    <2>3. Shapes'
        BY <1>0, <1>1, <2>1 DEF Shapes, Shape, ArrayShape, Size, Kid, Children
    <2> QED BY <2>2, <2>3
<1>5. CASE UNCHANGED vars
    <2>1. UNCHANGED <<tbl, pc, loc>>
        BY <1>5 DEF vars
    <2>2. Types'
        BY <1>0, <1>1, <1>2, <2>1 DEF Types
    <2>3. Shapes'
        BY <1>0, <1>1, <2>1 DEF Shapes, Shape, ArrayShape, Size, Kid, Children
    <2> QED BY <1>0, <2>2, <2>3
<1> QED BY <1>0, <1>3, <1>4, <1>5 DEF Next, Ctl
----------------------------------------------------------------------------
(* What a step of a client does to the links and the counts. *)
SameLinks == \A e \in Slots : tbl'[e].cnt = tbl[e].cnt /\ tbl'[e].parents = tbl[e].parents
SamePending == \A e \in Slots : tbl'[e].pending = tbl[e].pending
Plain == Steady /\ SameLinks /\ SamePending
CountsOff(c) ==
    LET l == loc[c] IN
    /\ Link(c) /\ tbl[l.ent].signaled /\ Steady /\ SameLinks
    /\ tbl'[l.join].pending = tbl[l.join].pending - 1
    /\ \A e \in Slots : e # l.join => tbl'[e].pending = tbl[e].pending
Appends(c) ==
    LET l == loc[c]
        n == tbl[l.ent].cnt + 1
    IN  /\ Link(c) /\ ~tbl[l.ent].signaled /\ ~TooMany(n) /\ Steady /\ SamePending
        /\ n \in 1..MaxParents /\ tbl'[l.ent].cnt = n
        /\ tbl'[l.ent].parents = [tbl[l.ent].parents EXCEPT ![n] = l.join]
        /\ \A e \in Slots : e # l.ent => tbl'[e].cnt = tbl[e].cnt /\ tbl'[e].parents = tbl[e].parents
Blanks(c) ==
    LET l == loc[c]
        r == tbl[l.ent]
        q == tbl'[l.ent]
    IN  /\ Cut(c) /\ Steady /\ SamePending /\ q.cnt <= r.cnt
        /\ q.parents = [i \in 1..MaxParents |->
                           IF i \in 1..r.cnt /\ r.parents[i] = l.join THEN NoSlot ELSE r.parents[i]]
        /\ \A e \in Slots : e # l.ent => tbl'[e].cnt = tbl[e].cnt /\ tbl'[e].parents = tbl[e].parents

(* A change of neither links nor counts. *)
LEMMA OnlyPlain ==
    ASSUME NEW e, NEW x, Only(e, x), "cnt" \notin x, "pending" \notin x
    PROVE  Plain
BY OnlySteady DEF Only, Plain, SameLinks, SamePending

(* No change is plain. *)
LEMMA SamePlain ==
    ASSUME Types, tbl' = tbl
    PROVE  Plain
BY SameSteady DEF Plain, SameLinks, SamePending

(* Which of the three outcomes a link has. *)
LEMMA LinkKinds ==
    ASSUME IInv, NEW c \in Clients, Link(c)
    PROVE  LET r == tbl[loc[c].ent] IN
           /\ r.signaled => CountsOff(c)
           /\ ~r.signaled /\ ~TooMany(r.cnt + 1) => Appends(c)
           /\ ~r.signaled /\ TooMany(r.cnt + 1) => tbl' = tbl
<1>0. Types /\ Shapes
    BY DEF IInv
<1>1. loc[c].join \in Slots /\ loc[c].ent \in Slots
    BY <1>0, NoLocalsFacts DEF Link, Shapes, Shape, ArrayShape
<1>2. ASSUME tbl[loc[c].ent].signaled PROVE CountsOff(c)
    <2>1. Only(loc[c].join, {"pending"}) /\ tbl'[loc[c].join].pending = tbl[loc[c].join].pending - 1
        BY <1>0, <1>1, <1>2, LinkTable
    <2>2. Steady
        BY <2>1, OnlySteady
    <2> QED BY <1>2, <2>1, <2>2 DEF CountsOff, Only, SameLinks
<1>3. ASSUME ~tbl[loc[c].ent].signaled, ~TooMany(tbl[loc[c].ent].cnt + 1) PROVE Appends(c)
    <2>1. /\ Only(loc[c].ent, {"cnt", "parents"}) /\ tbl[loc[c].ent].cnt + 1 \in 1..MaxParents
          /\ tbl'[loc[c].ent].cnt = tbl[loc[c].ent].cnt + 1
          /\ tbl'[loc[c].ent].parents = [tbl[loc[c].ent].parents EXCEPT ![tbl[loc[c].ent].cnt + 1] = loc[c].join]
        BY <1>0, <1>1, <1>3, LinkTable
    <2>2. Steady
        BY <2>1, OnlySteady
    <2> QED BY <1>3, <2>1, <2>2 DEF Appends, Only, SamePending
<1>4. ASSUME ~tbl[loc[c].ent].signaled, TooMany(tbl[loc[c].ent].cnt + 1) PROVE tbl' = tbl
    BY <1>0, <1>1, <1>4, LinkTable
<1> QED BY <1>2, <1>3, <1>4

(* What a step does to links and counts. *)
LEMMA StepKinds ==
    ASSUME IInv, NEW c \in Clients, Call(c) \/ Step(c)
    PROVE  \/ Plain \/ CountsOff(c) \/ Appends(c) \/ Blanks(c)
           \/ \E e \in Slots : Reserves(c, e) \/ Frees(c, e)
<1>0. Types /\ Shapes
    BY DEF IInv
<1>1. CASE Call(c)
    BY <1>0, <1>1, SamePlain DEF Call, Create, Destroy, DestroyWithHandle, Wait, WaitArray, Reset
<1>2. CASE Enable(c) \/ Disable(c) \/ Recheck(c) \/ Child(c) \/ SignalJoin(c) \/ Unlink(c)
           \/ SkipChild(c) \/ CheckOwner(c) \/ SignalError(c) \/ NextEntry(c)
    BY <1>0, <1>2, SamePlain DEF Enable, Disable, Recheck, Child, SignalJoin, Unlink, SkipChild,
                                 CheckOwner, SignalError, NextEntry
<1>3. CASE Probe(c)
    BY <1>0, <1>3, SamePlain, ProbeTable
<1>4. CASE Register(c)
    <2>1. Only(loc[c].ent, {"mask", "data"})
        BY <1>0, <1>4, RegisterGoes, RegisterTable
    <2> QED BY <2>1, OnlyPlain
<1>5. CASE MaskJoin(c)
    <2>1. loc[c].ent \in Slots
        BY <1>0, <1>5, NoLocalsFacts DEF MaskJoin, Shapes, Shape, ArrayShape
    <2>2. Only(loc[c].ent, {"mask"})
        BY <1>0, <1>5, <2>1, MaskTable
    <2> QED BY <2>2, OnlyPlain
<1>6. CASE Link(c)
    BY <1>0, <1>6, SamePlain, LinkKinds
<1>7. CASE StoreData(c)
    <2>1. loc[c].join \in Slots
        BY <1>0, <1>7, NoLocalsFacts DEF StoreData, Shapes, Shape, ArrayShape
    <2>2. Only(loc[c].join, {"data"})
        BY <1>0, <1>7, <2>1, StoreTable
    <2> QED BY <2>2, OnlyPlain
<1>8. CASE Cut(c)
    <2>1. loc[c].ent \in Slots
        BY <1>0, <1>8, NoLocalsFacts DEF Cut, Shapes, Shape, ArrayShape
    <2>2. LET l == loc[c]
              r == tbl[l.ent]
              q == tbl'[l.ent]
          IN  /\ Only(l.ent, {"cnt", "parents"})
              /\ q.cnt <= r.cnt
              /\ q.parents = [i \in 1..MaxParents |->
                                 IF i \in 1..r.cnt /\ r.parents[i] = l.join THEN NoSlot ELSE r.parents[i]]
        BY <1>0, <1>8, <2>1, CutTable
    <2>3. Steady
        BY <2>2, OnlySteady
    <2>4. Blanks(c)
        BY <1>8, <2>2, <2>3 DEF Blanks, Only, SamePending
    <2> QED BY <2>4
<1>9. CASE ClearWait(c)
    <2>1. Only(loc[c].slot, {"mask"})
        BY <1>0, <1>9, ClearTable
    <2> QED BY <2>1, OnlyPlain
<1> QED BY <1>1, <1>2, <1>3, <1>4, <1>5, <1>6, <1>7, <1>8, <1>9 DEF Step

(* What the Fence CTL does: it frees joins only. *)
CtlEffect(e) ==
    /\ e \in Slots /\ tbl[e].valid /\ tbl[e].key \in Fences /\ tbl[e].owner # JoinClient
    /\ ~tbl[e].signaled /\ tbl[e].key \notin done /\ tbl'[e].signaled
    /\ tbl' \in [Slots -> EntryType]
    /\ \A s \in Full(e) : /\ s \in Slots /\ s # e /\ tbl[s].owner = JoinClient /\ tbl[s].valid
                          /\ tbl[s].key \in Arrays
                          /\ Times(e, s) > 0 /\ tbl[s].pending = Times(e, s) /\ tbl'[s] = FreeEntry
    /\ \A s \in Slots : s \notin Full(e) =>
          /\ SameEntry(tbl'[s], tbl[s], {"pending", "signaled"})
          /\ s # e => tbl'[s].signaled = tbl[s].signaled
          /\ tbl'[s].pending = tbl[s].pending - Times(e, s)
    /\ done' = done \cup {tbl[e].key}
    /\ UNCHANGED <<enabled, pc, loc, made, conf>>

(* The effect of a signal of the Fence CTL, with the invariant. *)
LEMMA CtlGoes ==
    ASSUME IInv, NEW e \in Slots, CtlSignal(e)
    PROVE  CtlEffect(e)
<1>0. Types /\ TableOK /\ LinksOK
    BY DEF IInv
<1>1. /\ tbl[e].valid /\ tbl[e].owner # JoinClient /\ ~tbl[e].signaled
      /\ tbl' \in [Slots -> EntryType]
      /\ \A s \in Slots : Told(s, e)
      /\ Full(e) \subseteq Slots
      /\ done' = done \cup {tbl[e].key}
      /\ UNCHANGED <<enabled, pc, loc, made, conf>>
    BY <1>0, CtlTable
<1>2. tbl[e].key \in Fences
    <2>1. EntryOK(tbl[e]) /\ tbl[e].key \in Keys \cup {NoKey}
        BY <1>0 DEF TableOK, Types, EntryType
    <2> QED BY <1>1, <2>1 DEF EntryOK, Keys
<1>3. tbl[e].key \notin done
    BY <1>0, <1>1, <1>2 DEF TableOK
<1>4. \A s : Times(e, s) \in Nat /\ (Times(e, s) > 0 <=> \E i \in 1..tbl[e].cnt : tbl[e].parents[i] = s)
    BY <1>0, TimesFacts
<1>5. \A s \in Slots : Times(e, s) > 0 => tbl[s].owner = JoinClient
    BY <1>0, <1>1, <1>4 DEF LinksOK, Pointing
<1>6. Times(e, e) = 0
    BY <1>1, <1>4, <1>5
<1>7. ASSUME NEW s \in Full(e)
      PROVE  /\ s \in Slots /\ s # e /\ tbl[s].owner = JoinClient /\ tbl[s].valid
             /\ tbl[s].key \in Arrays
             /\ Times(e, s) > 0 /\ tbl[s].pending = Times(e, s) /\ tbl'[s] = FreeEntry
    <2>1. s \in Slots /\ tbl[s].pending = Times(e, s)
        BY <1>1, <1>7 DEF Full
    <2>2. Times(e, s) > 0
        BY <1>4, <1>7 DEF Full, ParentsOf
    <2>3. tbl[s].owner = JoinClient /\ s # e
        BY <1>5, <1>6, <2>1, <2>2
    <2>4. tbl[s].valid /\ tbl[s].key \in Arrays
        BY <1>0, <2>1, <2>3, ClientsAssumption DEF TableOK, EntryOK
    <2>5. tbl'[s] = FreeEntry
        BY <1>1, <1>7, <2>1, <2>3 DEF Told
    <2> QED BY <2>1, <2>2, <2>3, <2>4, <2>5
<1>8. ASSUME NEW s \in Slots, s \notin Full(e)
      PROVE  /\ SameEntry(tbl'[s], tbl[s], {"pending", "signaled"})
             /\ s # e => tbl'[s].signaled = tbl[s].signaled
             /\ tbl'[s].pending = tbl[s].pending - Times(e, s)
    <2>1. Told(s, e)
        BY <1>1
    <2>2. CASE s = e
        <3>1. SameEntry(tbl'[e], tbl[e], {"signaled"}) /\ tbl[e].pending \in Int
            BY <1>0, <2>1, <2>2 DEF Told, Types, EntryType
        <3> QED BY <1>6, <2>2, <3>1 DEF SameEntry
    <2>3. CASE s # e
        BY <1>8, <2>1, <2>3 DEF Told, SameEntry
    <2> QED BY <2>2, <2>3
<1>9. tbl'[e].signaled
    BY <1>1 DEF Told
<1> QED BY <1>1, <1>2, <1>3, <1>7, <1>8, <1>9 DEF CtlEffect

(* A reservation is for a key that no entry has. *)
NewEntry(c, e) ==
    LET k == loc[c].key
        q == tbl'[e]
    IN  /\ pc[c] = "probe" /\ e \in Slots /\ ~tbl[e].valid /\ k \in Keys
        /\ tbl' \in [Slots -> EntryType] /\ \A g \in Slots : g # e => tbl'[g] = tbl[g]
        /\ EntryOK(q) /\ q.valid /\ q.key = k /\ ~q.signaled /\ q.cnt = 0 /\ q.mask = {}
        /\ \A g \in Slots : tbl[g].key # k
        /\ loc'[c].ent = e /\ Same(loc'[c], loc[c], {"ent"}) /\ Goes(c, loc[c].found)
        /\ k \in Fences => /\ loc[c].call = "create" /\ q.owner = c
                           /\ k \in made /\ k \notin done /\ k \notin enabled
        /\ k \in Arrays => /\ loc[c].call = "array" /\ loc[c].op = "join" /\ loc[c].arr = k
                           /\ q.owner = JoinClient /\ q.pending = Size(k)

(* A lookup that reserves makes a new entry. *)
LEMMA ReservesNew ==
    ASSUME IInv, NEW c \in Clients, NEW e \in Slots, Reserves(c, e)
    PROVE  NewEntry(c, e)
<1>1. PICK l \in LocType : l = loc[c]
    BY DEF IInv, Types
<1>2. CreateOK(c) /\ ArrayOK(c)
    BY DEF IInv, CallsOK
<1>3. /\ pc[c] = "probe" /\ tbl' \in [Slots -> EntryType] /\ ~tbl[e].valid
      /\ \A g \in Slots : g # e => tbl'[g] = tbl[g]
      /\ loc'[c].ent = e /\ Same(loc'[c], l, {"ent"}) /\ Goes(c, l.found)
    BY <1>1 DEF Reserves, Probe, Puts
<1>4. CASE /\ l.op = "create" /\ l.call = "create" /\ l.key \in Fences
           /\ Fresh(tbl'[e], l.key, c, 0)
    <2>1. /\ l.key \in made /\ l.key \notin done /\ l.key \notin enabled
          /\ \A g \in Slots : tbl[g].key # l.key
        BY <1>1, <1>2, <1>3, <1>4 DEF CreateOK
    <2>2. l.key \notin Arrays /\ l.key \in Keys
        BY <1>4, KeysAssumption DEF Keys
    <2> QED BY <1>1, <1>3, <1>4, <2>1, <2>2 DEF NewEntry, Fresh
<1>5. CASE /\ l.op = "join" /\ l.call = "array" /\ l.key \in Arrays /\ l.arr = l.key
           /\ Fresh(tbl'[e], l.key, JoinClient, Size(l.key))
    <2>1. \A g \in Slots : tbl[g].key # l.key
        BY <1>1, <1>2, <1>3, <1>5 DEF ArrayOK, Making
    <2>2. l.key \notin Fences /\ l.key \in Keys
        BY <1>5, KeysAssumption DEF Keys
    <2> QED BY <1>1, <1>3, <1>5, <2>1, <2>2 DEF NewEntry, Fresh
<1> QED BY <1>1, <1>4, <1>5 DEF Reserves

(* A lookup that frees: a destroy of a signaled fence that nobody uses, a  *)
(* call that takes its own join down, or a reset.                          *)
OldEntry(c, e) ==
    LET l == loc[c]
        k == l.key
    IN  /\ pc[c] = "probe" /\ l.op = "destroy" /\ e \in Slots /\ tbl[e].valid /\ tbl[e].key = k
        /\ tbl' \in [Slots -> EntryType] /\ tbl'[e] = FreeEntry
        /\ \A g \in Slots : g # e => tbl'[g] = tbl[g]
        /\ \/ l.call = "destroy" /\ k \in Fences /\ MayDestroy(k) /\ tbl[e].signaled
           \/ /\ l.call = "array" /\ k = l.arr /\ k \in Arrays /\ e = l.join /\ Ends(c)
              /\ l.sig \/ l.idx = 0
           \/ /\ l.call = "reset" /\ k \in Fences /\ e = l.slot /\ tbl[e].owner = c
              /\ \A o \in Clients : o # c => pc[o] = "idle"
              /\ ~tbl[e].signaled => \A w \in tbl[e].mask : <<w, k>> \notin owed

(* A lookup that frees takes an old entry away. *)
LEMMA FreesOld ==
    ASSUME IInv, NEW c \in Clients, NEW e \in Slots, Frees(c, e)
    PROVE  OldEntry(c, e)
<1>1. PICK l \in LocType : l = loc[c]
    BY DEF IInv, Types
<1>2. DestroyOK(c) /\ ArrayOK(c) /\ ResetOK(c) /\ Shape("probe", l) /\ pc[c] = "probe" /\ TableOK
    BY <1>1 DEF IInv, CallsOK, ResetsOK, Shapes, Frees, Probe
<1>3. /\ tbl' \in [Slots -> EntryType] /\ tbl'[e] = FreeEntry /\ \A g \in Slots : g # e => tbl'[g] = tbl[g]
      /\ tbl[e].key = l.key /\ l.op = "destroy"
    BY <1>1 DEF Frees, Puts
<1>4. l.key \in Keys => tbl[e].valid
    BY <1>2, <1>3, KeysAssumption DEF TableOK, EntryOK
<1>5. CASE l.call = "destroy"
    <2>1. l.key \in Fences /\ MayDestroy(l.key)
        BY <1>1, <1>2, <1>5, NoLocalsFacts DEF Shape, DestroyOK
    <2>2. l.key \in Keys /\ tbl[e].signaled
        BY <1>2, <1>3, <2>1 DEF TableOK, MayDestroy, Keys
    <2> QED BY <1>1, <1>2, <1>3, <1>4, <1>5, <2>1, <2>2 DEF OldEntry
<1>6. CASE l.call = "array"
    <2>1. ArrayShape("probe", l)
        BY <1>2, <1>6, NoLocalsFacts DEF Shape
    <2>2. l.key = l.arr /\ l.arr \in Arrays /\ (l.sig \/ l.idx = 0) /\ l.found = "idle"
        BY <1>3, <2>1 DEF ArrayShape
    <2>3. e = l.join
        BY <1>1, <1>2, <1>3, <1>6, <2>2 DEF ArrayOK, JoinOf
    <2>4. Ends(c)
        BY <1>1, <2>2 DEF Frees, Goes, Ends
    <2>5. l.key \in Keys
        BY <2>2 DEF Keys
    <2> QED BY <1>1, <1>2, <1>3, <1>4, <1>6, <2>2, <2>3, <2>4, <2>5 DEF OldEntry
<1>7. CASE l.call = "reset"
    <2>1. l.key \in Fences
        BY <1>2, <1>7, NoLocalsFacts DEF Shape
    <2>2. l.key \in Keys /\ tbl[e].valid /\ l.slot \in Slots
        BY <1>4, <2>1, <1>1 DEF Keys, LocType
    <2>3. /\ \A o \in Clients : o # c => pc[o] = "idle"
          /\ tbl[l.slot].owner = c /\ tbl[l.slot].key = l.key
          /\ ~tbl[l.slot].signaled => \A w \in tbl[l.slot].mask : <<w, tbl[l.slot].key>> \notin owed
        BY <1>1, <1>2, <1>7 DEF ResetOK
    <2>4. e = l.slot
        BY <1>2, <1>3, <2>2, <2>3 DEF TableOK
    <2> QED BY <1>1, <1>2, <1>3, <1>7, <2>1, <2>2, <2>3, <2>4 DEF OldEntry
<1> QED BY <1>2, <1>3, <1>5, <1>6, <1>7, NoLocalsFacts DEF Shape

(* The calls and histories that a step of a client changes. *)
LEMMA EnableKeys ==
    ASSUME IInv, NEW c \in Clients
    PROVE  /\ Enable(c) => loc[c].call = "create" /\ loc[c].key \in made
           /\ Disable(c) => loc[c].call = "destroy" /\ loc[c].key \in Fences
BY NoLocalsFacts DEF IInv, Shapes, Shape, ArrayShape, Enable, Disable, CallsOK, CreateOK

----------------------------------------------------------------------------

(* Every step keeps the entries well formed. *)
LEMMA EntriesStep == IInv /\ [Next]_vars => \A e \in Slots : EntryOK(tbl'[e])
<1> SUFFICES ASSUME IInv, [Next]_vars, NEW e \in Slots PROVE EntryOK(tbl'[e])
    OBVIOUS
<1>0. Types /\ TableOK /\ EntryOK(tbl[e]) /\ tbl[e] \in EntryType
    BY DEF IInv, TableOK, Types
<1>1. ASSUME NEW c \in Clients, Call(c) \/ Step(c) PROVE EntryOK(tbl'[e])
    <2>1. CASE Plain
        BY <1>0, <2>1 DEF Plain, Steady, SameLinks, SamePending, EntryOK
    <2>2. CASE CountsOff(c)
        <3>1. pc[c] = "link" /\ loc[c].join \in Slots /\ tbl[loc[c].join].owner = JoinClient
            BY <2>2, LastIsLast, AtChild DEF CountsOff, Link
        <3> QED BY <1>0, <2>2, <3>1 DEF CountsOff, Steady, SameLinks, EntryOK
    <2>3. CASE Appends(c)
        <3>1. pc[c] = "link" /\ loc[c].call = "array" /\ ArrayShape("link", loc[c]) /\ ArrayOK(c)
            BY <2>3, LastIsLast DEF Appends, Link, IInv, CallsOK
        <3>2. loc[c].ent \in Slots /\ tbl[loc[c].ent].key \in Fences
            BY <3>1 DEF ArrayShape, ArrayOK
        <3>3. tbl[loc[c].ent].owner # JoinClient
            BY <1>0, <3>2, KeysAssumption DEF TableOK, EntryOK
        <3> QED BY <1>0, <2>3, <3>2, <3>3 DEF Appends, Steady, SamePending, EntryOK
    <2>4. CASE Blanks(c)
        <3>1. tbl[e].owner = JoinClient => tbl'[e].cnt <= 0
            BY <1>0, <2>4 DEF Blanks, EntryOK
        <3>2. tbl'[e].cnt \in 0..(MaxParents - 1) /\ MaxParents \in Nat
            BY <1>0, <2>4, ConfFacts DEF Blanks, Steady, EntryType, Types
        <3>3. tbl[e].owner = JoinClient => tbl'[e].cnt = 0
            BY <3>1, <3>2
        <3> QED BY <1>0, <2>4, <3>3 DEF Blanks, Steady, SamePending, EntryOK
    <2>5. CASE \E g \in Slots : Reserves(c, g)
        <3>1. PICK g \in Slots : NewEntry(c, g)
            BY <2>5, ReservesNew
        <3> QED BY <1>0, <3>1 DEF NewEntry
    <2>6. CASE \E g \in Slots : Frees(c, g)
        <3>1. PICK g \in Slots : OldEntry(c, g)
            BY <2>6, FreesOld
        <3> QED BY <1>0, <3>1, FreshFacts DEF OldEntry
    <2> QED BY <1>1, <2>1, <2>2, <2>3, <2>4, <2>5, <2>6, StepKinds
<1>2. ASSUME NEW g \in Slots, CtlSignal(g) PROVE EntryOK(tbl'[e])
    <2>1. CtlEffect(g)
        BY <1>2, CtlGoes
    <2>2. CASE e \in Full(g)
        BY <1>0, <2>1, <2>2, FreshFacts DEF CtlEffect
    <2>3. CASE e \notin Full(g)
        <3>1. Times(g, e) \in Nat /\ (Times(g, e) > 0 <=> \E i \in 1..tbl[g].cnt : tbl[g].parents[i] = e)
            BY <1>0, TimesFacts
        <3>2. tbl[e].owner # JoinClient => Times(g, e) = 0
            BY <2>1, <3>1 DEF IInv, LinksOK, Pointing, CtlEffect
        <3>3. /\ tbl'[e].valid = tbl[e].valid /\ tbl'[e].key = tbl[e].key /\ tbl'[e].owner = tbl[e].owner
              /\ tbl'[e].cnt = tbl[e].cnt
              /\ tbl'[e].pending = tbl[e].pending - Times(g, e)
            BY <2>1, <2>3 DEF CtlEffect, SameEntry
        <3>4. tbl[e].owner # JoinClient => tbl'[e].pending = 0
            BY <1>0, <3>2, <3>3 DEF EntryOK
        <3>5. tbl[e].owner = JoinClient => tbl'[e].signaled = tbl[e].signaled
            BY <2>1, <2>3 DEF CtlEffect
        <3> QED BY <1>0, <3>3, <3>4, <3>5 DEF EntryOK
    <2> QED BY <2>2, <2>3
<1>3. CASE UNCHANGED vars
    BY <1>0, <1>3 DEF vars
<1> QED BY <1>1, <1>2, <1>3 DEF Next, Ctl

(* Every step keeps the table: a key has one entry. *)
LEMMA TableStep == IInv /\ [Next]_vars => TableOK'
<1> SUFFICES ASSUME IInv, [Next]_vars PROVE TableOK'
    OBVIOUS
<1>0. Types /\ TableOK
    BY DEF IInv
<1>1. \A e \in Slots : EntryOK(tbl'[e])
    BY EntriesStep
<1> DEFINE
    Unique == \A e, g \in Slots : tbl'[e].valid /\ tbl'[e].key = tbl'[g].key => e = g
    Sets == made' \subseteq Fences /\ done' \subseteq made' /\ enabled' \subseteq made'
    Flags == \A e \in Slots : tbl'[e].key \in Fences =>
                /\ tbl'[e].key \in made'
                /\ tbl'[e].signaled <=> tbl'[e].key \in done'
<1>2. ASSUME NEW c \in Clients, Call(c) \/ Step(c) PROVE Unique /\ Sets /\ Flags
    <2>1. done' = done /\ made \subseteq made'
        BY <1>2, StepHistory
    <2>2. Sets
        <3>1. made' \subseteq Fences
            BY <1>0, <1>2, StepHistory DEF TableOK
        <3>2. enabled' \subseteq made'
            BY <1>0, <1>2, <2>1, StepHistory, EnableKeys DEF TableOK
        <3> QED BY <1>0, <2>1, <3>1, <3>2 DEF TableOK
    <2>3. CASE Steady
        <3>1. Unique
            BY <1>0, <2>3 DEF TableOK, Steady
        <3>2. Flags
            BY <1>0, <2>1, <2>3 DEF TableOK, Steady
        <3> QED BY <2>2, <3>1, <3>2
    <2>4. CASE \E g \in Slots : Reserves(c, g)
        <3>1. PICK g \in Slots : NewEntry(c, g)
            BY <2>4, ReservesNew
        <3>2. Unique
            BY <1>0, <3>1 DEF TableOK, NewEntry
        <3>3. Flags
            BY <1>0, <2>1, <3>1 DEF TableOK, NewEntry
        <3> QED BY <2>2, <3>2, <3>3
    <2>5. CASE \E g \in Slots : Frees(c, g)
        <3>1. PICK g \in Slots : OldEntry(c, g)
            BY <2>5, FreesOld
        <3>2. tbl'[g].valid = FALSE /\ tbl'[g].key \notin Keys
            BY <1>0, <3>1, FreshFacts, KeysAssumption DEF OldEntry
        <3>3. \A e \in Slots : e # g => tbl'[e] = tbl[e]
            BY <3>1 DEF OldEntry
        <3>4. ASSUME NEW e \in Slots, NEW f \in Slots, tbl'[e].valid, tbl'[e].key = tbl'[f].key PROVE e = f
            <4>1. e # g /\ tbl'[e].key # NoKey /\ tbl'[g].key = NoKey
                BY <1>0, <1>1, <3>1, <3>2, <3>4, FreshFacts DEF EntryOK, OldEntry
            <4> QED BY <1>0, <3>3, <3>4, <4>1 DEF TableOK
        <3>5. Flags
            BY <1>0, <2>1, <3>2, <3>3 DEF TableOK, Keys
        <3> QED BY <2>2, <3>4, <3>5
    <2> QED BY <1>2, <2>3, <2>4, <2>5, StepTable
<1>3. ASSUME NEW g \in Slots, CtlSignal(g) PROVE Unique /\ Sets /\ Flags
    <2>1. CtlEffect(g)
        BY <1>3, CtlGoes
    <2>2. \A e \in Slots : \/ e \in Full(g) /\ tbl'[e] = FreeEntry
                           \/ /\ e \notin Full(g) /\ tbl'[e].valid = tbl[e].valid /\ tbl'[e].key = tbl[e].key
                              /\ e # g => tbl'[e].signaled = tbl[e].signaled
        BY <2>1 DEF CtlEffect, SameEntry
    <2>3. FreeEntry.valid = FALSE /\ FreeEntry.key = NoKey /\ NoKey \notin Keys
        BY <1>0, FreshFacts, KeysAssumption
    <2>4. ASSUME NEW e \in Slots, NEW f \in Slots, tbl'[e].valid, tbl'[e].key = tbl'[f].key PROVE e = f
        <3>1. e \notin Full(g) /\ tbl'[e].key # NoKey
            BY <1>1, <2>2, <2>3, <2>4 DEF EntryOK
        <3> QED BY <1>0, <2>2, <2>3, <2>4, <3>1 DEF TableOK
    <2>5. Sets
        BY <1>0, <2>1 DEF TableOK, CtlEffect
    <2>6. ASSUME NEW e \in Slots, tbl'[e].key \in Fences
          PROVE  tbl'[e].key \in made' /\ (tbl'[e].signaled <=> tbl'[e].key \in done')
        <3>1. e \notin Full(g) /\ tbl'[e].key = tbl[e].key /\ tbl'[e].valid = tbl[e].valid
            BY <2>2, <2>3, <2>6 DEF Keys
        <3>2. tbl[e].key \in made /\ (tbl[e].signaled <=> tbl[e].key \in done) /\ made' = made
            BY <1>0, <2>1, <2>6, <3>1 DEF TableOK, CtlEffect
        <3>3. CASE e = g
            BY <2>1, <2>6, <3>1, <3>2, <3>3 DEF CtlEffect
        <3>4. CASE e # g
            <4>1. tbl[e].key # tbl[g].key
                BY <1>0, <2>1, <3>4 DEF TableOK, CtlEffect
            <4> QED BY <2>1, <2>2, <3>1, <3>2, <3>4, <4>1 DEF CtlEffect
        <3> QED BY <3>3, <3>4
    <2> QED BY <2>4, <2>5, <2>6
<1>4. CASE UNCHANGED vars
    <2>1. tbl' = tbl /\ made' = made /\ done' = done /\ enabled' = enabled
        BY <1>4 DEF vars, history
    <2> QED BY <1>0, <2>1 DEF TableOK
<1>5. Unique /\ Sets /\ Flags
    BY <1>2, <1>3, <1>4 DEF Next, Ctl, TableOK
<1> QED BY <1>1, <1>5 DEF TableOK
----------------------------------------------------------------------------
(* A join, its links and what is left of its children. *)
LEMMA JoinPick ==
    ASSUME IInv, NEW j \in Slots, tbl[j].owner = JoinClient
    PROVE  /\ tbl[j].key \in Arrays /\ tbl[j].valid /\ ~tbl[j].signaled
           /\ \E h \in 1..(Size(tbl[j].key) + 1) : JoinHas(j, h)
<1>1. EntryOK(tbl[j])
    BY DEF IInv, TableOK
<1> QED BY <1>1, ClientsAssumption DEF EntryOK, IInv, JoinsOK

(* Only an unsignaled fence points, and at a join. *)
LEMMA PointingFence ==
    ASSUME IInv, NEW e \in Slots, NEW s \in Slots, Pointing(e, s)
    PROVE  /\ tbl[e].key \in Fences /\ tbl[e].key \notin done /\ tbl[s].owner = JoinClient
           /\ Times(e, s) > 0 /\ Times(e, s) \in Nat
<1>1. EntryOK(tbl[e]) /\ tbl[e].key \in Keys \cup {NoKey} /\ tbl[e].cnt \in Int
    BY ConfFacts DEF IInv, TableOK, Types, EntryType
<1>2. tbl[e].cnt > 0
    BY <1>1 DEF Pointing
<1>3. tbl[e].key \in Fences
    BY <1>1, <1>2 DEF Pointing, EntryOK, Keys
<1>4. tbl[e].key \notin done
    BY <1>3 DEF IInv, TableOK, Pointing
<1>5. Times(e, s) > 0 /\ Times(e, s) \in Nat
    BY TimesFacts DEF IInv, Pointing
<1> QED BY <1>3, <1>4, <1>5 DEF IInv, LinksOK

(* Who points to a join is one of the children the call has handled. *)
LEMMA PointsOccurs ==
    ASSUME IInv, NEW e \in Slots, NEW j \in Slots, Pointing(e, j),
           NEW h \in 1..(Size(tbl[j].key) + 1), JoinHas(j, h)
    PROVE  /\ \E i \in 1..(h - 1) : Children[tbl[j].key][i] = tbl[e].key
           /\ h - 1 \in 0..Size(tbl[j].key)
<1>1. /\ tbl[e].key \notin done /\ tbl[j].owner = JoinClient /\ Times(e, j) > 0 /\ Times(e, j) \in Nat
    BY PointingFence
<1>2. PICK a \in Arrays : a = tbl[j].key
    BY <1>1, JoinPick
<1>3. Size(a) \in Nat /\ conf \in Configs
    BY ConfFacts DEF IInv, Types
<1>4. Times(e, j) <= Cardinality(Occurs(a, h, tbl[e].key))
    BY <1>2 DEF JoinHas, Pointing
<1>5. h \in Int /\ h - 1 \in 0..Size(a)
    BY <1>2, <1>3
<1>6. IsFiniteSet(Occurs(a, h, tbl[e].key)) /\ Cardinality(Occurs(a, h, tbl[e].key)) \in Nat
    BY <1>3, <1>5, LeftFinite
<1>7. Occurs(a, h, tbl[e].key) # {}
    BY <1>1, <1>4, <1>6, FS_EmptySet
<1> QED BY <1>2, <1>5, <1>7 DEF Occurs

(* The places of an unsignaled child are left. *)
LEMMA OccursIn ==
    ASSUME NEW a \in Arrays, NEW h \in 1..(Size(a) + 1), Size(a) \in Nat, NEW k, k \notin done
    PROVE  Occurs(a, h, k) \in SUBSET Left(a, h)
BY DEF Occurs, Left

(* The last child of a join: nothing else is left. *)
LEMMA FullLeft ==
    ASSUME IInv, NEW e \in Slots, CtlEffect(e), NEW j \in Full(e),
           NEW h \in 1..(Size(tbl[j].key) + 1), JoinHas(j, h)
    PROVE  Left(tbl[j].key, h) = Occurs(tbl[j].key, h, tbl[e].key)
<1>1. PICK a \in Arrays : a = tbl[j].key
    BY DEF CtlEffect
<1>2. Size(a) \in Nat /\ conf \in Configs
    BY ConfFacts DEF IInv, Types
<1>3. PICK k : k = tbl[e].key
    OBVIOUS
<1>4. Occurs(a, h, k) \in SUBSET Left(a, h)
    BY <1>1, <1>2, <1>3, OccursIn DEF CtlEffect
<1>5. /\ Cardinality(Left(a, h)) <= tbl[j].pending /\ tbl[j].pending = Times(e, j)
      /\ Times(e, j) <= Cardinality(Occurs(a, h, k))
    BY <1>1, <1>3 DEF JoinHas, CtlEffect
<1>6. /\ IsFiniteSet(Left(a, h)) /\ Cardinality(Left(a, h)) \in Nat
      /\ Cardinality(Occurs(a, h, k)) \in Nat
    BY <1>1, <1>2, LeftFinite
<1>7. Cardinality(Occurs(a, h, k)) <= Cardinality(Left(a, h))
    BY <1>4, <1>6, FS_Subset
<1>8. Times(e, j) \in Nat
    BY TimesFacts DEF IInv
<1>9. Cardinality(Left(a, h)) = Cardinality(Occurs(a, h, k))
    BY <1>5, <1>6, <1>7, <1>8
<1>10. Left(a, h) = Occurs(a, h, k)
    BY <1>4, <1>6, <1>9, FS_Subset
<1> QED BY <1>1, <1>3, <1>10

(* A fence that the Fence CTL signals is the last one only when the call   *)
(* is past all the children.                                               *)
LEMMA LiveNotFull ==
    ASSUME IInv, NEW c \in Clients, Live(c), NEW e \in Slots, CtlEffect(e)
    PROVE  JoinOf(c) \notin Full(e)
<1> SUFFICES ASSUME JoinOf(c) \in Full(e) PROVE FALSE
    OBVIOUS
<1>1. PICK j \in Slots : j = JoinOf(c) /\ j \in Full(e)
    BY DEF CtlEffect
<1>2. loc[c].call = "array" /\ ArrayOK(c) /\ ArrayShape(pc[c], loc[c])
    BY NoLocalsFacts DEF Live, Making, IInv, CallsOK, Shapes, Shape
<1>3. PICK l \in LocType : l = loc[c]
    BY DEF IInv, Types
<1>4. PICK a \in Arrays : a = l.arr
    BY <1>2, <1>3 DEF ArrayShape
<1>5. tbl[j].key = a
    BY <1>1, <1>2, <1>3, <1>4 DEF ArrayOK
<1>6. Size(a) \in Nat
    BY ConfFacts DEF IInv, Types
<1>7. PICK h \in 1..(Size(a) + 1) : JoinHas(j, h)
    BY <1>1, <1>5, JoinPick DEF CtlEffect
<1>8. Left(a, h) = Occurs(a, h, tbl[e].key)
    BY <1>1, <1>5, <1>7, FullLeft
<1>9. h = Size(a) + 1
    <2>1. h <= Size(a) => h \in Left(a, h) /\ h \notin Occurs(a, h, tbl[e].key)
        BY <1>6 DEF Left, Occurs
    <2> QED BY <1>6, <1>8, <2>1
<1>10. Pointing(e, j)
    <2>1. Times(e, j) > 0 /\ tbl[e].valid /\ ~tbl[e].signaled
        BY <1>1 DEF CtlEffect
    <2>2. Times(e, j) > 0 <=> \E i \in 1..tbl[e].cnt : tbl[e].parents[i] = j
        BY TimesFacts DEF IInv
    <2> QED BY <2>1, <2>2 DEF Pointing
<1>11. PICK i \in 1..Size(a) : Children[a][i] = tbl[e].key
    BY <1>5, <1>6, <1>7, <1>9, <1>10, PointsOccurs
<1>12. c \in Makers(j)
    BY <1>3, <1>4, <1>5 DEF Makers
<1>13. Handled(c, h)
    BY <1>7, <1>12 DEF JoinHas
<1>14. ~l.sig
    <2>1. l.sig => Children[a][i] \in done
        BY <1>2, <1>3, <1>4 DEF ArrayOK
    <2> QED BY <1>11, <2>1 DEF CtlEffect
<1>15. Size(a) # 0
    BY <1>6
<1>16. ~Undoing(c) /\ l.idx = Size(a) + 1
    BY <1>3, <1>4, <1>6, <1>9, <1>13, <1>15 DEF Handled
<1> QED BY <1>3, <1>4, <1>6, <1>14, <1>15, <1>16 DEF Live
----------------------------------------------------------------------------
(* What a step of the system is to one client. *)
LEMMA CallsMove ==
    ASSUME IInv, [Next]_vars, NEW o \in Clients
    PROVE  \/ pc'[o] = pc[o] /\ loc'[o] = loc[o] /\ ~Call(o) /\ ~Step(o)
           \/ Step(o) /\ (Ends(o) \/ Continues(o)) /\ pc[o] # "idle"
           \/ Call(o) /\ loc[o] = NoLocals
<1>1. CASE Call(o)
    BY <1>1, CallStarts
<1>2. CASE Step(o)
    BY <1>2, StepGoes
<1>3. CASE ~Call(o) /\ ~Step(o)
    <2>1. ASSUME NEW c \in Clients, Call(c) \/ Step(c) PROVE pc'[o] = pc[o] /\ loc'[o] = loc[o]
        <3>1. c # o /\ \E p : Goes(c, p)
            BY <1>3, <2>1, CallStarts, StepGoes
        <3> QED BY <3>1 DEF Goes
    <2>2. ASSUME NEW g \in Slots, CtlSignal(g) PROVE pc'[o] = pc[o] /\ loc'[o] = loc[o]
        BY <2>2 DEF CtlSignal
    <2>3. CASE UNCHANGED vars
        BY <1>3, <2>3 DEF vars
    <2> QED BY <1>3, <2>1, <2>2, <2>3 DEF Next, Ctl
<1> QED BY <1>1, <1>2, <1>3

(* A call of a kind was of that kind before, or begins. *)
LEMMA CallsFrom ==
    ASSUME IInv, [Next]_vars, NEW o \in Clients
    PROVE  /\ loc'[o].call = "create" =>
                 \/ loc[o].call = "create" /\ loc'[o].key = loc[o].key
                 \/ \E f \in Fences : Create(o, f) /\ Begins(o, "create", NoKey, "create", f, "enable")
           /\ loc'[o].call = "destroy" =>
                 \/ loc[o].call = "destroy" /\ loc'[o].key = loc[o].key
                 \/ /\ MayDestroy(loc'[o].key) /\ loc'[o].key \in Fences
                    /\ Call(o) /\ \E x : Begins(o, "destroy", NoKey, "destroy", loc'[o].key, x)
           /\ loc'[o].call = "wait" =>
                 \/ loc[o].call = "wait" /\ loc'[o].key = loc[o].key
                 \/ \E f \in Fences : Wait(o, f) /\ Begins(o, "wait", NoKey, "find", f, "register")
           /\ loc'[o].call = "array" =>
                 \/ loc[o].call = "array" /\ loc'[o].arr = loc[o].arr
                 \/ \E a \in Arrays : WaitArray(o, a) /\ Begins(o, "array", a, "join", a, "mask")
           /\ loc'[o].call = "reset" =>
                 \/ loc[o].call = "reset"
                 \/ \E keep \in BOOLEAN : Reset(o, keep) /\ Goes(o, "clear")
<1>1. CASE pc'[o] = pc[o] /\ loc'[o] = loc[o]
    BY <1>1
<1>2. CASE Step(o) /\ Ends(o)
    BY <1>2, NoLocalsFacts DEF Ends
<1>3. CASE Step(o) /\ Continues(o)
    BY <1>3 DEF Continues
<1>4. CASE Call(o)
    <2>1. CASE \E f \in Fences : Create(o, f) /\ Begins(o, "create", NoKey, "create", f, "enable")
        BY <2>1 DEF Begins
    <2>2. CASE \E f \in Fences : MayDestroy(f) /\ f \in made
                                 /\ \E x : Begins(o, "destroy", NoKey, "destroy", f, x)
        <3>1. PICK f \in Fences : MayDestroy(f) /\ \E x : Begins(o, "destroy", NoKey, "destroy", f, x)
            BY <2>2
        <3>2. loc'[o].call = "destroy" /\ loc'[o].key = f
            BY <3>1 DEF Begins
        <3> QED BY <1>4, <3>1, <3>2
    <2>3. CASE \E f \in Fences : Wait(o, f) /\ Begins(o, "wait", NoKey, "find", f, "register")
        BY <2>3 DEF Begins
    <2>4. CASE \E a \in Arrays : WaitArray(o, a) /\ Begins(o, "array", a, "join", a, "mask")
        BY <2>4 DEF Begins
    <2>5. CASE \E keep \in BOOLEAN : Reset(o, keep) /\ Goes(o, "clear") /\ loc'[o].call = "reset"
        BY <2>5
    <2> QED BY <1>4, <2>1, <2>2, <2>3, <2>4, <2>5, CallStarts
<1> QED BY <1>1, <1>2, <1>3, <1>4, CallsMove

(* The keys in the table after a step. *)
LEMMA KeysAfter ==
    ASSUME IInv, [Next]_vars, NEW e \in Slots
    PROVE  \/ tbl'[e].key = tbl[e].key /\ tbl'[e].owner = tbl[e].owner /\ tbl'[e].valid = tbl[e].valid
           \/ \E c \in Clients : Probe(c) /\ NewEntry(c, e)
           \/ tbl'[e] = FreeEntry /\ \E c \in Clients : Probe(c) /\ OldEntry(c, e)
           \/ tbl'[e] = FreeEntry /\ \E g \in Slots : CtlEffect(g) /\ e \in Full(g)
<1>1. ASSUME NEW c \in Clients, Call(c) \/ Step(c)
      PROVE  \/ tbl'[e].key = tbl[e].key /\ tbl'[e].owner = tbl[e].owner /\ tbl'[e].valid = tbl[e].valid
             \/ Probe(c) /\ NewEntry(c, e)
             \/ tbl'[e] = FreeEntry /\ Probe(c) /\ OldEntry(c, e)
    <2>1. CASE Steady
        BY <2>1 DEF Steady
    <2>2. CASE \E g \in Slots : Reserves(c, g)
        <3>1. PICK g \in Slots : Reserves(c, g) /\ NewEntry(c, g)
            BY <2>2, ReservesNew
        <3>2. CASE e = g
            BY <3>1, <3>2 DEF Reserves
        <3>3. CASE e # g
            BY <3>1, <3>3 DEF NewEntry
        <3> QED BY <3>2, <3>3
    <2>3. CASE \E g \in Slots : Frees(c, g)
        <3>1. PICK g \in Slots : Frees(c, g) /\ OldEntry(c, g)
            BY <2>3, FreesOld
        <3>2. CASE e = g
            BY <3>1, <3>2 DEF Frees, OldEntry
        <3>3. CASE e # g
            BY <3>1, <3>3 DEF OldEntry
        <3> QED BY <3>2, <3>3
    <2> QED BY <1>1, <2>1, <2>2, <2>3, StepTable
<1>2. ASSUME NEW g \in Slots, CtlSignal(g)
      PROVE  \/ tbl'[e].key = tbl[e].key /\ tbl'[e].owner = tbl[e].owner /\ tbl'[e].valid = tbl[e].valid
             \/ tbl'[e] = FreeEntry /\ CtlEffect(g) /\ e \in Full(g)
    <2>1. CtlEffect(g)
        BY <1>2, CtlGoes
    <2> QED BY <2>1 DEF CtlEffect, SameEntry
<1>3. CASE UNCHANGED vars
    BY <1>3 DEF vars
<1> QED BY <1>1, <1>2, <1>3 DEF Next, Ctl

(* The histories after a step. *)
LEMMA SetsAfter ==
    ASSUME IInv, [Next]_vars
    PROVE  /\ done \subseteq done' /\ made \subseteq made'
           /\ \A k \in done' : k \in done \/ \E g \in Slots : CtlEffect(g) /\ k = tbl[g].key
           /\ \A k \in enabled' : k \in enabled \/ \E c \in Clients : (Enable(c) /\ k = loc[c].key)
           /\ \A k \in enabled : k \in enabled' \/ \E c \in Clients : Disable(c) /\ k = loc[c].key
<1>1. ASSUME NEW c \in Clients, Call(c) \/ Step(c)
      PROVE  /\ done = done' /\ made \subseteq made'
             /\ \A k \in enabled' : k \in enabled \/ (Enable(c) /\ k = loc[c].key)
             /\ \A k \in enabled : k \in enabled' \/ (Disable(c) /\ k = loc[c].key)
    <2>1. done = done' /\ made \subseteq made'
        BY <1>1, StepHistory
    <2>2. \/ enabled' = enabled
          \/ Enable(c) /\ enabled' = enabled \cup {loc[c].key}
          \/ Disable(c) /\ enabled' = enabled \ {loc[c].key}
        BY <1>1, StepHistory
    <2>3. ASSUME NEW k \in enabled' PROVE k \in enabled \/ (Enable(c) /\ k = loc[c].key)
        BY <2>2
    <2>4. ASSUME NEW k \in enabled PROVE k \in enabled' \/ (Disable(c) /\ k = loc[c].key)
        BY <2>2
    <2> QED BY <2>1, <2>3, <2>4
<1>2. ASSUME NEW g \in Slots, CtlSignal(g)
      PROVE  CtlEffect(g) /\ done' = done \cup {tbl[g].key} /\ made' = made /\ enabled' = enabled
    BY <1>2, CtlGoes DEF CtlEffect
<1>3. CASE UNCHANGED vars
    BY <1>3 DEF vars, history
<1> QED BY <1>1, <1>2, <1>3 DEF Next, Ctl

(* Every step keeps what a create relies on. *)
LEMMA CreateStep == IInv /\ [Next]_vars => \A c \in Clients : CreateOK(c)'
<1> SUFFICES ASSUME IInv, [Next]_vars, NEW c \in Clients, loc'[c].call = "create"
             PROVE  /\ loc'[c].key \in made' /\ loc'[c].key \notin enabled'
                    /\ pc'[c] = "probe" => loc'[c].key \notin done' /\ \A e \in Slots : tbl'[e].key # loc'[c].key
                    /\ \A e \in Slots : tbl'[e].key = loc'[c].key => tbl'[e].owner = c
                    /\ \A o \in Clients : loc'[o].call = "create" /\ loc'[o].key = loc'[c].key => o = c
    BY DEF CreateOK
<1>0. Types /\ Shapes /\ TableOK /\ \A o \in Clients : CreateOK(o)
    BY DEF IInv, CallsOK
<1>1. CASE \E f \in Fences : Create(c, f) /\ Begins(c, "create", NoKey, "create", f, "enable")
    <2>1. PICK f \in Fences : Create(c, f) /\ Begins(c, "create", NoKey, "create", f, "enable")
        BY <1>1
    <2>2. /\ f \notin made /\ made' = made \cup {f} /\ loc'[c].key = f
          /\ tbl' = tbl /\ enabled' = enabled /\ done' = done
          /\ \A o \in Clients : o # c => loc'[o] = loc[o]
        BY <2>1 DEF Create, Begins, Goes
    <2>3. f \notin enabled /\ f \notin done /\ \A e \in Slots : tbl[e].key # f
        BY <1>0, <2>2 DEF TableOK
    <2>4. \A o \in Clients : loc'[o].call = "create" /\ loc'[o].key = f => o = c
        BY <1>0, <2>2 DEF CreateOK
    <2> QED BY <2>2, <2>3, <2>4
<1>2. CASE loc[c].call = "create" /\ loc'[c].key = loc[c].key
    <2>1. PICK k \in Fences : k = loc[c].key
        BY <1>0, <1>2, NoLocalsFacts DEF Shapes, Shape
    <2>2. /\ k \in made /\ k \notin enabled
          /\ pc[c] = "probe" => k \notin done /\ \A e \in Slots : tbl[e].key # k
          /\ \A e \in Slots : tbl[e].key = k => tbl[e].owner = c
          /\ \A o \in Clients : loc[o].call = "create" /\ loc[o].key = k => o = c
        BY <1>0, <1>2, <2>1 DEF CreateOK
    <2>3. k \in Keys /\ FreeEntry.key # k
        BY <1>0, FreshFacts, KeysAssumption DEF Keys
    <2>4. k \notin enabled'
        <3>1. ASSUME NEW o \in Clients, Enable(o), k = loc[o].key PROVE FALSE
            <4>1. o = c
                BY <2>2, <3>1, EnableKeys
            <4>2. loc'[c] = NoLocals
                BY <1>0, <3>1, <4>1, ReturnGoes DEF Enable
            <4> QED BY <4>2, NoLocalsFacts
        <3> QED BY <2>2, <3>1, SetsAfter
    <2>5. ASSUME NEW e \in Slots, tbl'[e].key = k
          PROVE  tbl'[e].owner = c /\ (pc'[c] = "probe" => pc[c] = "probe" /\ FALSE)
        <3>0. pc'[c] = "probe" => pc[c] = "probe"
            <4>1. CASE pc'[c] = pc[c]
                BY <4>1
            <4>2. CASE Step(c)
                <5>1. pc[c] \in {"probe", "enable"}
                    BY <1>0, <1>2, NoLocalsFacts DEF Shapes, Shape
                <5>2. pc[c] = "enable" => Enable(c)
                    BY <4>2 DEF Step, Probe, Disable, Register, Recheck, MaskJoin, Child, Link,
                        StoreData, SignalJoin, Unlink, Cut, SkipChild, ClearWait, CheckOwner,
                        SignalError, NextEntry
                <5>3. Enable(c) => pc'[c] = "idle"
                    BY <1>0, ReturnGoes DEF Enable, Goes
                <5> QED BY <5>1, <5>2, <5>3
            <4>3. CASE Call(c)
                BY <1>2, <4>3, CallStarts, NoLocalsFacts
            <4> QED BY <4>1, <4>2, <4>3, CallsMove
        <3>1. CASE tbl'[e].key = tbl[e].key /\ tbl'[e].owner = tbl[e].owner
            BY <2>2, <2>5, <3>0, <3>1
        <3>2. CASE \E o \in Clients : Probe(o) /\ NewEntry(o, e)
            <4>1. PICK o \in Clients : Probe(o) /\ NewEntry(o, e)
                BY <3>2
            <4>2. o = c
                BY <2>2, <2>5, <4>1 DEF NewEntry
            <4>3. pc'[c] = loc[c].found /\ loc[c].found = "enable" /\ tbl'[e].owner = c
                BY <1>0, <1>2, <2>1, <4>1, <4>2, NoLocalsFacts DEF NewEntry, Goes, Shapes, Shape
            <4> QED BY <4>3
        <3> QED BY <2>3, <2>5, <3>1, <3>2, KeysAfter
    <2>6. pc'[c] = "probe" => k \notin done'
        <3> SUFFICES ASSUME pc'[c] = "probe", k \in done' PROVE FALSE
            OBVIOUS
        <3>1. CASE k \in done
            <4>1. pc[c] # "probe"
                BY <2>2, <3>1
            <4>2. pc[c] = "enable"
                BY <1>0, <1>2, <4>1, NoLocalsFacts DEF Shapes, Shape
            <4>3. Step(c)
                BY <1>2, <4>2, CallsMove, CallStarts, NoLocalsFacts
            <4>4. Enable(c)
                BY <4>2, <4>3 DEF Step, Probe, Disable, Register, Recheck, MaskJoin, Child, Link,
                    StoreData, SignalJoin, Unlink, Cut, SkipChild, ClearWait, CheckOwner,
                    SignalError, NextEntry
            <4>5. pc'[c] = "idle"
                BY <1>0, <4>4, ReturnGoes DEF Enable, Goes
            <4> QED BY <4>5
        <3>2. CASE \E g \in Slots : CtlEffect(g) /\ k = tbl[g].key
            <4>1. PICK g \in Slots : CtlEffect(g) /\ k = tbl[g].key
                BY <3>2
            <4>2. pc'[c] = pc[c]
                BY <4>1 DEF CtlEffect
            <4> QED BY <2>2, <4>1, <4>2
        <3> QED BY <3>1, <3>2, SetsAfter
    <2>7. ASSUME NEW o \in Clients, loc'[o].call = "create", loc'[o].key = k PROVE o = c
        <3>1. CASE loc[o].call = "create" /\ loc'[o].key = loc[o].key
            BY <2>2, <2>7, <3>1
        <3>2. CASE \E f \in Fences : Create(o, f) /\ Begins(o, "create", NoKey, "create", f, "enable")
            BY <2>2, <2>7, <3>2 DEF Begins, Create
        <3> QED BY <2>7, <3>1, <3>2, CallsFrom
    <2> QED BY <1>2, <2>1, <2>2, <2>4, <2>5, <2>6, <2>7, SetsAfter
<1> QED BY <1>1, <1>2, CallsFrom

(* Who is in use stays in use until its call is over; a call that begins   *)
(* waits for no fence that is being destroyed.                             *)
LEMMA InUseFrom ==
    ASSUME IInv, [Next]_vars, NEW k \in Fences, InUse(k)'
    PROVE  InUse(k) \/ MayHold(k)
<1>0. conf' = conf
    BY ConfFixed
<1>1. PICK o \in Clients : \/ loc'[o].call = "wait" /\ loc'[o].key = k
                           \/ loc'[o].call = "array" /\ ChildOf(k, loc'[o].arr)
    BY <1>0 DEF InUse, ChildOf, Children
<1>2. CASE loc'[o].call = "wait" /\ loc'[o].key = k
    <2>1. CASE loc[o].call = "wait" /\ loc'[o].key = loc[o].key
        BY <1>2, <2>1 DEF InUse
    <2>2. CASE \E f \in Fences : Wait(o, f) /\ Begins(o, "wait", NoKey, "find", f, "register")
        BY <1>2, <2>2 DEF Begins, Wait
    <2> QED BY <1>2, <2>1, <2>2, CallsFrom
<1>3. CASE loc'[o].call = "array" /\ ChildOf(k, loc'[o].arr)
    <2>1. CASE loc[o].call = "array" /\ loc'[o].arr = loc[o].arr
        BY <1>3, <2>1 DEF InUse
    <2>2. CASE \E a \in Arrays : WaitArray(o, a) /\ Begins(o, "array", a, "join", a, "mask")
        <3>1. PICK a \in Arrays : WaitArray(o, a) /\ loc'[o].arr = a
            BY <2>2 DEF Begins
        <3> QED BY <1>3, <3>1 DEF WaitArray, ArrayFree
    <2> QED BY <1>3, <2>1, <2>2, CallsFrom
<1> QED BY <1>1, <1>2, <1>3

(* Every step keeps what a destroy relies on. *)
LEMMA DestroyStep == IInv /\ [Next]_vars => \A c \in Clients : DestroyOK(c)'
<1> SUFFICES ASSUME IInv, [Next]_vars, NEW c \in Clients, loc'[c].call = "destroy"
             PROVE  MayDestroy(loc[c].key)'
    BY DEF DestroyOK
<1>1. PICK k : k = loc'[c].key
    OBVIOUS
<1>2. CASE loc[c].call = "destroy" /\ k = loc[c].key
    <2>1. k \in Fences
        BY <1>2, NoLocalsFacts DEF IInv, Shapes, Shape
    <2>2. k \in done /\ ~InUse(k) /\ ~MayHold(k)
        BY <1>2 DEF IInv, CallsOK, DestroyOK, MayDestroy, MayHold
    <2>3. ~InUse(k)'
        BY <2>1, <2>2, InUseFrom
    <2> QED BY <1>1, <2>2, <2>3, SetsAfter DEF InUse, MayDestroy
<1>3. CASE /\ MayDestroy(k) /\ k \in Fences
           /\ Call(c) /\ \E x : Begins(c, "destroy", NoKey, "destroy", k, x)
    <2>0. conf' = conf /\ k \in done /\ ~InUse(k)
        BY <1>3, ConfFixed DEF MayDestroy
    <2>1. \A o \in Clients : o # c => loc'[o] = loc[o]
        BY <1>3 DEF Begins, Goes
    <2>2. ~InUse(k)'
        BY <2>0, <2>1 DEF InUse, ChildOf, Children
    <2> QED BY <1>1, <2>0, <2>2, SetsAfter DEF InUse, MayDestroy
<1> QED BY <1>1, <1>2, <1>3, CallsFrom

(* The step that a client takes at each place. *)
LEMMA StepAt ==
    ASSUME NEW c \in Clients, Step(c)
    PROVE  /\ pc[c] = "probe" => Probe(c)
           /\ pc[c] = "enable" => Enable(c)
           /\ pc[c] = "disable" => Disable(c)
           /\ pc[c] = "register" => Register(c)
           /\ pc[c] = "recheck" => Recheck(c)
           /\ pc[c] = "mask" => MaskJoin(c)
           /\ pc[c] = "child" => Child(c)
           /\ pc[c] = "link" => Link(c)
           /\ pc[c] = "store" => StoreData(c)
           /\ pc[c] = "sigjoin" => SignalJoin(c)
           /\ pc[c] = "unlink" => Unlink(c)
           /\ pc[c] = "cut" => Cut(c)
           /\ pc[c] = "next" => SkipChild(c)
           /\ pc[c] = "clear" => ClearWait(c)
           /\ pc[c] = "check" => CheckOwner(c)
           /\ pc[c] = "error" => SignalError(c)
           /\ pc[c] = "advance" => NextEntry(c)
BY DEF Step, Probe, Enable, Disable, Register, Recheck, MaskJoin, Child, Link, StoreData,
       SignalJoin, Unlink, Cut, SkipChild, ClearWait, CheckOwner, SignalError, NextEntry

(* A lookup that finds. *)
Found(c) ==
    LET l == loc[c]
        q == loc'[c]
        e == ProbeAt(l.key, l.step)
    IN  /\ pc[c] = "probe" /\ e \in Slots /\ tbl' = tbl
        /\ \/ tbl[e].key = l.key /\ Goes(c, l.found) /\ q.ent = e /\ Same(q, l, {"ent"})
           \/ /\ tbl[e].key # l.key /\ l.step + 1 = Entries /\ Goes(c, l.failed)
              /\ q = IF l.failed = "idle" THEN NoLocals ELSE l
           \/ /\ tbl[e].key # l.key /\ l.step + 1 < Entries
              /\ Goes(c, "probe") /\ Same(q, l, {"step"}) /\ q.step = l.step + 1

(* A lookup that only finds leaves the table alone. *)
LEMMA FindGoes ==
    ASSUME IInv, NEW c \in Clients, Probe(c), loc[c].op = "find"
    PROVE  Found(c)
<1>1. PICK l \in LocType : l = loc[c]
    BY DEF IInv, Types
<1>2. PICK e : e = ProbeAt(l.key, l.step)
    OBVIOUS
<1>3. Types /\ Shapes
    BY DEF IInv
<1>4. pc[c] = "probe" /\ e \in Slots
    BY <1>1, <1>2, <1>3, ProbeGoes
<1>5. Shape("probe", l)
    BY <1>1, <1>3, <1>4 DEF Shapes
<1>6. l.found # "idle" /\ l.op = "find" /\ (Matches(l.op, e, l.key) <=> tbl[e].key = l.key)
    BY <1>1, <1>5, NoLocalsFacts DEF Shape, ArrayShape, Matches, IsCreate
<1>7. CASE tbl[e].key = l.key
    <2>1. /\ tbl' = [tbl EXCEPT ![e] = Processed(l.op, c, e, l.key)]
          /\ Goes(c, l.found) /\ loc'[c].ent = e /\ Same(loc'[c], l, {"ent"})
        BY <1>1, <1>2, <1>3, <1>6, <1>7, ProbeGoes
    <2>2. tbl' = tbl
        BY <1>1, <1>3, <1>4, <1>6, <1>7, <2>1, HitTable
    <2> QED BY <1>1, <1>2, <1>4, <1>7, <2>1, <2>2 DEF Found
<1>8. CASE tbl[e].key # l.key
    <2>1. tbl' = tbl
        BY <1>1, <1>2, <1>3, <1>6, <1>8, ProbeGoes
    <2>2. FindStops(l, e) => l.step + 1 = Entries
        BY <1>6 DEF FindStops, IsCreate
    <2>3. \/ /\ l.step + 1 = Entries /\ Goes(c, l.failed)
             /\ loc'[c] = IF l.failed = "idle" THEN NoLocals ELSE l
          \/ l.step + 1 < Entries /\ Goes(c, "probe") /\ Same(loc'[c], l, {"step"}) /\ loc'[c].step = l.step + 1
        BY <1>1, <1>2, <1>3, <1>6, <1>8, <2>2, ProbeGoes
    <2> QED BY <1>1, <1>2, <1>4, <1>8, <2>1, <2>3 DEF Found
<1> QED BY <1>7, <1>8

(* A fence that somebody uses stays in its entry, and stays a hw-fence. *)
LEMMA FenceStays ==
    ASSUME IInv, [Next]_vars, NEW e \in Slots, tbl[e].key \in Fences, InUse(tbl[e].key)
    PROVE  /\ tbl'[e].key = tbl[e].key /\ tbl'[e].owner = tbl[e].owner /\ tbl'[e].valid = tbl[e].valid
           /\ tbl[e].valid
<1>1. tbl[e].valid /\ tbl[e].owner # JoinClient
    <2>1. EntryOK(tbl[e])
        BY DEF IInv, TableOK
    <2> QED BY <2>1, KeysAssumption DEF EntryOK, Keys
<1>2. ASSUME NEW c \in Clients, OldEntry(c, e) PROVE FALSE
    <2>1. PICK o \in Clients : loc[o].call \in {"wait", "array"}
        BY DEF InUse
    <2>2. pc[o] # "idle"
        BY <2>1, NoLocalsFacts DEF IInv, Shapes, Shape, ArrayShape
    <2> QED BY <1>2, <2>1, <2>2, KeysAssumption DEF OldEntry, MayDestroy
<1>3. ASSUME NEW c \in Clients, NewEntry(c, e) PROVE FALSE
    BY <1>1, <1>3 DEF NewEntry
<1>4. ASSUME NEW g \in Slots, CtlEffect(g), e \in Full(g) PROVE FALSE
    BY <1>1, <1>4 DEF CtlEffect
<1> QED BY <1>1, <1>2, <1>3, <1>4, KeysAfter

(* A fence in use keeps its flag. *)
LEMMA EnabledStays ==
    ASSUME IInv, [Next]_vars, NEW k \in enabled, InUse(k)
    PROVE  k \in enabled'
<1>1. ASSUME NEW c \in Clients, Disable(c), k = loc[c].key PROVE FALSE
    <2>1. loc[c].call = "destroy"
        BY <1>1, EnableKeys
    <2> QED BY <1>1, <2>1 DEF IInv, CallsOK, DestroyOK, MayDestroy
<1> QED BY <1>1, SetsAfter

(* The masks. *)
LEMMA StepMask ==
    ASSUME IInv, NEW c \in Clients, Call(c) \/ Step(c)
    PROVE  \/ \A e \in Slots : tbl'[e].mask = tbl[e].mask
           \/ /\ Register(c) /\ loc[c].ent \in Slots
              /\ tbl'[loc[c].ent].mask = tbl[loc[c].ent].mask \cup {c}
              /\ \A e \in Slots : e # loc[c].ent => tbl'[e].mask = tbl[e].mask
           \/ /\ MaskJoin(c) /\ loc[c].ent \in Slots
              /\ tbl'[loc[c].ent].mask = tbl[loc[c].ent].mask \cup {c}
              /\ \A e \in Slots : e # loc[c].ent => tbl'[e].mask = tbl[e].mask
           \/ /\ ClearWait(c)
              /\ tbl'[loc[c].slot].mask = tbl[loc[c].slot].mask \ {c}
              /\ \A e \in Slots : e # loc[c].slot => tbl'[e].mask = tbl[e].mask
           \/ \E e \in Slots : Reserves(c, e) \/ Frees(c, e)
<1>0. Types /\ Shapes
    BY DEF IInv
<1>1. CASE Call(c)
    BY <1>0, <1>1 DEF Call, Create, Destroy, DestroyWithHandle, Wait, WaitArray, Reset
<1>2. CASE Enable(c) \/ Disable(c) \/ Recheck(c) \/ Child(c) \/ SignalJoin(c) \/ Unlink(c)
           \/ SkipChild(c) \/ CheckOwner(c) \/ SignalError(c) \/ NextEntry(c)
    BY <1>0, <1>2 DEF Enable, Disable, Recheck, Child, SignalJoin, Unlink, SkipChild,
                      CheckOwner, SignalError, NextEntry
<1>3. CASE Probe(c)
    BY <1>0, <1>3, ProbeTable
<1>4. CASE Register(c)
    BY <1>0, <1>4, RegisterGoes, RegisterTable DEF Only
<1>5. CASE MaskJoin(c)
    <2>1. loc[c].ent \in Slots
        BY <1>0, <1>5, NoLocalsFacts DEF MaskJoin, Shapes, Shape, ArrayShape
    <2> QED BY <1>0, <1>5, <2>1, MaskTable DEF Only
<1>6. CASE Link(c)
    <2>1. loc[c].join \in Slots /\ loc[c].ent \in Slots
        BY <1>0, <1>6, NoLocalsFacts DEF Link, Shapes, Shape, ArrayShape
    <2>2. tbl' = tbl \/ (\E e : Only(e, {"pending"}) \/ Only(e, {"cnt", "parents"}))
        BY <1>0, <1>6, <2>1, LinkTable
    <2> QED BY <2>2 DEF Only
<1>7. CASE StoreData(c)
    <2>1. loc[c].join \in Slots
        BY <1>0, <1>7, NoLocalsFacts DEF StoreData, Shapes, Shape, ArrayShape
    <2>2. Only(loc[c].join, {"data"})
        BY <1>0, <1>7, <2>1, StoreTable
    <2> QED BY <2>2 DEF Only
<1>8. CASE Cut(c)
    <2>1. loc[c].ent \in Slots
        BY <1>0, <1>8, NoLocalsFacts DEF Cut, Shapes, Shape, ArrayShape
    <2>2. Only(loc[c].ent, {"cnt", "parents"})
        BY <1>0, <1>8, <2>1, CutTable
    <2> QED BY <2>2 DEF Only
<1>9. CASE ClearWait(c)
    BY <1>0, <1>9, ClearTable DEF Only
<1> QED BY <1>1, <1>2, <1>3, <1>4, <1>5, <1>6, <1>7, <1>8, <1>9 DEF Step

(* A client leaves a mask only by its own reset. *)
LEMMA MaskStays ==
    ASSUME IInv, [Next]_vars, NEW e \in Slots, tbl[e].valid, tbl'[e].valid, NEW o \in tbl[e].mask
    PROVE  o \in tbl'[e].mask \/ (o \in Clients /\ ClearWait(o) /\ e = loc[o].slot)
<1>1. ASSUME NEW c \in Clients, Call(c) \/ Step(c)
      PROVE  o \in tbl'[e].mask \/ (ClearWait(c) /\ e = loc[c].slot /\ o = c)
    <2>1. CASE \A g \in Slots : tbl'[g].mask = tbl[g].mask
        BY <2>1
    <2>2. CASE /\ (Register(c) \/ MaskJoin(c))
               /\ tbl'[loc[c].ent].mask = tbl[loc[c].ent].mask \cup {c}
               /\ \A g \in Slots : g # loc[c].ent => tbl'[g].mask = tbl[g].mask
        BY <2>2
    <2>3. CASE /\ ClearWait(c)
               /\ tbl'[loc[c].slot].mask = tbl[loc[c].slot].mask \ {c}
               /\ \A g \in Slots : g # loc[c].slot => tbl'[g].mask = tbl[g].mask
        BY <2>3
    <2>4. CASE \E g \in Slots : Reserves(c, g)
        BY <2>4, ReservesNew DEF NewEntry
    <2>5. CASE \E g \in Slots : Frees(c, g)
        <3>1. PICK g \in Slots : OldEntry(c, g)
            BY <2>5, FreesOld
        <3>2. e # g
            BY <3>1, FreshFacts DEF OldEntry, IInv
        <3> QED BY <3>1, <3>2 DEF OldEntry
    <2> QED BY <1>1, <2>1, <2>2, <2>3, <2>4, <2>5, StepMask
<1>2. ASSUME NEW g \in Slots, CtlSignal(g) PROVE o \in tbl'[e].mask
    <2>1. CtlEffect(g)
        BY <1>2, CtlGoes
    <2>2. e \notin Full(g)
        BY <2>1, FreshFacts DEF CtlEffect, IInv
    <2> QED BY <2>1, <2>2 DEF CtlEffect, SameEntry
<1>3. CASE UNCHANGED vars
    BY <1>3 DEF vars
<1> QED BY <1>1, <1>2, <1>3 DEF Next, Ctl

(* Every step keeps what a wait relies on. *)
LEMMA WaitStep == IInv /\ [Next]_vars => \A c \in Clients : WaitOK(c)'
<1> SUFFICES ASSUME IInv, [Next]_vars, NEW c \in Clients, loc'[c].call = "wait"
             PROVE  /\ loc'[c].key \in enabled'
                    /\ pc'[c] # "probe" => tbl'[loc'[c].ent].key = loc'[c].key
                    /\ pc'[c] = "recheck" => c \in tbl'[loc'[c].ent].mask
    BY DEF WaitOK
<1>0. Types /\ Shapes /\ TableOK /\ WaitOK(c)
    BY DEF IInv, CallsOK
<1>1. CASE \E f \in Fences : Wait(c, f) /\ Begins(c, "wait", NoKey, "find", f, "register")
    BY <1>1 DEF Wait, Begins, Goes
<1>2. CASE loc[c].call = "wait" /\ loc'[c].key = loc[c].key
    <2>1. PICK k \in Fences : k = loc[c].key
        BY <1>0, <1>2, NoLocalsFacts DEF Shapes, Shape
    <2>2. /\ pc[c] \in {"probe", "register", "recheck"} /\ loc[c].op = "find" /\ loc[c].found = "register"
          /\ loc[c].failed = "idle"
          /\ pc[c] # "probe" => loc[c].ent \in Slots
        BY <1>0, <1>2, NoLocalsFacts DEF Shapes, Shape
    <2>3. InUse(k) /\ k \in enabled
        BY <1>0, <1>2, <2>1 DEF InUse, WaitOK
    <2>4. k \in enabled'
        BY <2>3, EnabledStays
    <2>5. ASSUME pc[c] # "probe"
          PROVE  /\ tbl'[loc[c].ent].key = k /\ tbl[loc[c].ent].valid /\ tbl'[loc[c].ent].valid
        <3>1. tbl[loc[c].ent].key = k
            BY <1>0, <1>2, <2>1, <2>5 DEF WaitOK
        <3> QED BY <2>1, <2>2, <2>3, <2>5, <3>1, FenceStays
    <2>6. CASE pc'[c] = pc[c] /\ loc'[c] = loc[c] /\ ~Step(c)
        <3>1. ASSUME pc[c] = "recheck" PROVE c \in tbl'[loc[c].ent].mask
            <4>1. c \in tbl[loc[c].ent].mask /\ loc[c].ent \in Slots
                BY <1>0, <1>2, <2>2, <3>1 DEF WaitOK
            <4>2. ~ClearWait(c)
                BY <3>1 DEF ClearWait
            <4> QED BY <2>5, <3>1, <4>1, <4>2, MaskStays
        <3> QED BY <1>2, <2>1, <2>4, <2>5, <2>6, <3>1
    <2>7. CASE Step(c) /\ pc[c] = "probe"
        <3>1. Found(c)
            BY <2>2, <2>7, StepAt, FindGoes
        <3>2. ProbeAt(loc[c].key, loc[c].step) \in Slots
            BY <3>1 DEF Found
        <3>3. pc'[c] # "recheck"
            BY <2>2, <3>1 DEF Found, Goes
        <3>4. pc'[c] # "probe" => tbl'[loc'[c].ent].key = k
            <4>1. loc'[c] # NoLocals
                BY NoLocalsFacts
            <4> QED BY <2>1, <2>2, <3>1, <4>1 DEF Found, Goes
        <3> QED BY <1>2, <2>1, <2>4, <3>3, <3>4
    <2>8. CASE Step(c) /\ pc[c] = "register"
        <3>1. Register(c)
            BY <2>8, StepAt
        <3>2. loc'[c] = loc[c] /\ c \in tbl'[loc[c].ent].mask
            BY <1>0, <2>2, <2>8, <3>1, RegisterGoes, RegisterTable
        <3> QED BY <1>2, <2>1, <2>4, <2>5, <2>8, <3>2
    <2>9. CASE Step(c) /\ pc[c] = "recheck"
        <3>1. loc'[c] = NoLocals
            BY <1>0, <2>9, StepAt, ReturnGoes DEF Recheck
        <3> QED BY <3>1, NoLocalsFacts
    <2>10. ~Call(c)
        BY <1>2, CallStarts, NoLocalsFacts
    <2> QED BY <2>2, <2>6, <2>7, <2>8, <2>9, <2>10, CallsMove
<1> QED BY <1>1, <1>2, CallsFrom

(* A step of a call on an array. *)
ArrayMove(c) ==
    LET l == loc[c]
        q == loc'[c]
    IN  /\ q.call = "array" /\ q.arr = l.arr
        /\ Making(c) => Making(c)' /\ JoinOf(c)' = JoinOf(c) /\ (Live(c)' => Live(c))
        /\ ~Making(c) /\ Making(c)' => \E e \in Slots : Reserves(c, e) /\ JoinOf(c)' = e
        /\ q.sig => l.sig \/ (Link(c) /\ tbl[l.ent].signaled /\ tbl[l.join].pending = 1)
        /\ q.found = "link" /\ pc'[c] \in {"probe", "link"} =>
              \/ q.key \in enabled /\ enabled' = enabled
              \/ l.found = "link" /\ pc[c] = "probe" /\ q.key = l.key
        /\ pc'[c] = "link" => tbl' = tbl /\ tbl[q.ent].key = q.key

(* How a call on an array goes on. *)
LEMMA ArrayMoves ==
    ASSUME IInv, NEW c \in Clients, Step(c), conf' = conf,
           loc[c].call = "array", loc'[c].call = "array"
    PROVE  ArrayMove(c)
<1>0. Types /\ Shapes /\ TableOK /\ ArrayShape(pc[c], loc[c])
    BY NoLocalsFacts DEF IInv, Shapes, Shape
<1>1. PICK l \in LocType : l = loc[c]
    BY <1>0 DEF Types
<1>2. PICK n \in Nat : n = Size(l.arr)
    BY <1>0, <1>1, ConfFacts DEF ArrayShape, Types
<1>3. (\A a : Size(a)' = Size(a)) /\ loc'[c] # NoLocals /\ loc'[c].arr = l.arr
    <2>1. Continues(c)
        BY StepGoes, NoLocalsFacts DEF Ends
    <2> QED BY <1>1, <2>1, NoLocalsFacts DEF Size, Children, Continues
<1> USE DEF ArrayMove, Making, JoinOf, Live, Goes, Same, Entered
<1>4. CASE pc[c] = "probe" /\ l.op = "join"
    <2>1. Probe(c) /\ l.found = "mask" /\ l.failed = "idle" /\ l.key = l.arr /\ ~l.sig
        BY <1>0, <1>1, <1>4, StepAt DEF ArrayShape
    <2>2. PICK e : e = ProbeAt(l.key, l.step)
        OBVIOUS
    <2>3. CASE \E g \in Slots : Reserves(c, g)
        <3>1. PICK g \in Slots : Reserves(c, g)
            BY <2>3
        <3>2. pc'[c] = "mask" /\ loc'[c].ent = g /\ Same(loc'[c], l, {"ent"})
            BY <1>1, <2>1, <3>1 DEF Reserves
        <3> QED BY <1>1, <1>3, <1>4, <2>1, <3>1, <3>2
    <2>4. CASE ~\E g \in Slots : Reserves(c, g)
        <3>1. tbl' = tbl \/ \E g \in Slots : Frees(c, g)
            BY <2>1, <2>4, ProbeTable
        <3>2. ~\E g \in Slots : Frees(c, g)
            BY <1>1, <1>4 DEF Frees
        <3>3. ~Matches(l.op, e, l.key)
            <4>1. ASSUME Matches(l.op, e, l.key) PROVE FALSE
                <5>1. /\ e \in Slots /\ tbl' = [tbl EXCEPT ![e] = Processed(l.op, c, e, l.key)]
                    BY <1>0, <1>1, <2>1, <2>2, <4>1, ProbeGoes
                <5>2. tbl'[e].valid /\ ~tbl[e].valid
                    BY <1>0, <1>1, <1>4, <4>1, <5>1, HitTable DEF Fresh
                <5> QED BY <3>1, <3>2, <5>2
            <4> QED BY <4>1
        <3>4. pc'[c] = "probe" /\ Same(loc'[c], l, {"step"})
            BY <1>0, <1>1, <1>3, <2>1, <2>2, <3>3, ProbeGoes
        <3> QED BY <1>1, <1>3, <1>4, <2>1, <3>4
    <2> QED BY <2>3, <2>4
<1>5. CASE pc[c] = "mask"
    <2>1. MaskJoin(c)
        BY <1>5, StepAt
    <2>2. pc'[c] = "child" /\ loc'[c].join = l.ent /\ Same(loc'[c], l, {"join"})
        BY <1>0, <1>1, <2>1, MaskGoes
    <2> QED BY <1>1, <1>3, <1>5, <2>2
<1>6. CASE pc[c] = "child"
    <2>1. Child(c) /\ enabled' = enabled
        BY <1>6, StepAt DEF Child
    <2>2. \/ pc'[c] \in {"store", "unlink"} /\ loc'[c] = l
          \/ Kid(l) \in enabled /\ pc'[c] = "probe" /\ Entered(loc'[c], l, "find", Kid(l), "link", "unlink")
        BY <1>0, <1>1, <2>1, ChildGoes
    <2> QED BY <1>1, <1>3, <1>6, <2>1, <2>2
<1>7. CASE pc[c] = "store"
    <2>1. StoreData(c)
        BY <1>7, StepAt
    <2>2. \/ pc'[c] = "sigjoin" /\ loc'[c] = l
          \/ ~l.sig /\ n = 0 /\ pc'[c] = "unlink" /\ Same(loc'[c], l, {"idx"})
        BY <1>0, <1>1, <1>2, <1>3, <2>1, StoreGoes
    <2> QED BY <1>1, <1>2, <1>3, <1>7, <2>2
<1>8. CASE pc[c] = "sigjoin"
    <2>1. SignalJoin(c)
        BY <1>8, StepAt
    <2>2. pc'[c] = "probe" /\ Entered(loc'[c], l, "destroy", l.arr, "idle", "idle")
        BY <1>0, <1>1, <2>1, SignalJoinGoes
    <2> QED BY <1>1, <1>3, <1>8, <2>2
<1>9. CASE pc[c] = "unlink"
    <2>1. Unlink(c)
        BY <1>9, StepAt
    <2>2. /\ pc'[c] = "probe"
          /\ \/ Entered(loc'[c], l, "find", Kid(l), "cut", "next")
             \/ Entered(loc'[c], l, "destroy", l.arr, "idle", "idle")
        BY <1>0, <1>1, <2>1, UnlinkGoes
    <2> QED BY <1>1, <1>3, <1>9, <2>2
<1>10. CASE pc[c] \in {"cut", "next"}
    <2>1. Cut(c) \/ SkipChild(c)
        BY <1>10, StepAt
    <2>2. pc'[c] = "unlink" /\ Same(loc'[c], l, {"idx"}) /\ ArrayShape(pc[c], l) /\ loc'[c].idx = l.idx - 1
        BY <1>0, <1>1, <2>1, BackGoes
    <2>3. l.idx \in 1..n /\ l.sig = FALSE
        BY <1>1, <1>2, <1>10, <2>2 DEF ArrayShape, LocType
    <2> QED BY <1>1, <1>2, <1>3, <1>10, <2>2, <2>3
<1>11. CASE pc[c] = "link"
    <2>1. Link(c) /\ (tbl[l.join].pending = 1 => l.idx = Size(l.arr)) /\ ArrayShape("link", l)
        BY <1>1, <1>11, StepAt, LastIsLast
    <2>2. l.idx \in 1..n
        BY <1>2, <2>1 DEF ArrayShape
    <2>3. \/ /\ tbl[l.ent].signaled /\ pc'[c] = "child" /\ Same(loc'[c], l, {"idx", "sig"})
             /\ loc'[c].idx = l.idx + 1 /\ (loc'[c].sig <=> (tbl[l.join].pending = 1))
          \/ pc'[c] = "child" /\ Same(loc'[c], l, {"idx"}) /\ loc'[c].idx = l.idx + 1
          \/ pc'[c] = "unlink" /\ loc'[c] = l
        BY <1>0, <1>1, <2>1, LinkGoes
    <2> QED BY <1>1, <1>2, <1>3, <1>11, <2>1, <2>2, <2>3
<1>12. CASE pc[c] = "probe" /\ l.op = "find"
    <2>1. Found(c) /\ l.found \in {"link", "cut"} /\ l.failed \in {"unlink", "next"}
        BY <1>0, <1>1, <1>12, StepAt, FindGoes DEF ArrayShape
    <2>2. /\ tbl' = tbl
          /\ \/ /\ pc'[c] = l.found /\ Same(loc'[c], l, {"ent"})
                /\ tbl[loc'[c].ent].key = l.key
             \/ pc'[c] = l.failed /\ loc'[c] = l
             \/ pc'[c] = "probe" /\ Same(loc'[c], l, {"step"})
        BY <1>1, <2>1 DEF Found
    <2>3. Making(c) /\ JoinOf(c) = l.join
        BY <1>1, <1>12
    <2>4. /\ loc'[c].call = "array" /\ loc'[c].arr = l.arr /\ loc'[c].sig = l.sig /\ loc'[c].idx = l.idx
          /\ loc'[c].join = l.join /\ loc'[c].op = "find" /\ loc'[c].key = l.key /\ loc'[c].found = l.found
          /\ pc'[c] # "mask"
        BY <1>1, <1>12, <2>1, <2>2
    <2>5. Making(c)' /\ JoinOf(c)' = JoinOf(c) /\ (Live(c)' => Live(c))
        BY <1>1, <1>3, <2>3, <2>4
    <2> QED BY <1>1, <1>3, <1>12, <2>1, <2>2, <2>3, <2>4, <2>5
<1>13. CASE pc[c] = "probe" /\ l.op = "destroy"
    <2>1. Probe(c) /\ l.found = "idle" /\ l.failed = "idle"
        BY <1>0, <1>1, <1>13, StepAt DEF ArrayShape
    <2>2. pc'[c] = "probe" /\ Same(loc'[c], l, {"step"})
        BY <1>0, <1>1, <1>3, <2>1, ProbeGoes
    <2> QED BY <1>1, <1>3, <1>13, <2>1, <2>2
<1> QED BY <1>0, <1>1, <1>4, <1>5, <1>6, <1>7, <1>8, <1>9, <1>10, <1>11, <1>12, <1>13 DEF ArrayShape

(* An array has one call at a time. *)
LEMMA OneMaker ==
    ASSUME IInv, [Next]_vars, NEW c \in Clients, loc[c].call = "array", loc'[c].arr = loc[c].arr,
           NEW o \in Clients, loc'[o].arr = loc[c].arr
    PROVE  o = c
<1>1. loc[c].arr \in Arrays /\ ArrayOK(c)
    BY NoLocalsFacts DEF IInv, Shapes, Shape, ArrayShape, CallsOK
<1>2. NoKey \notin Arrays
    BY KeysAssumption DEF Keys
<1>3. loc'[o] = NoLocals \/ loc'[o].call = "array" \/ loc'[o].arr = NoKey
    BY TypesStep DEF Shapes, Shape
<1>4. loc'[o].call = "array"
    BY <1>1, <1>2, <1>3, NoLocalsFacts
<1>5. CASE loc[o].call = "array" /\ loc'[o].arr = loc[o].arr
    BY <1>1, <1>5 DEF ArrayOK
<1>6. CASE \E a \in Arrays : WaitArray(o, a) /\ Begins(o, "array", a, "join", a, "mask")
    BY <1>6 DEF Begins, WaitArray, ArrayFree
<1> QED BY <1>4, <1>5, <1>6, CallsFrom

(* The join of a call that is not past its children stays. *)
LEMMA JoinStays ==
    ASSUME IInv, [Next]_vars, NEW c \in Clients, Live(c), ~Ends(c)
    PROVE  LET j == JoinOf(c) IN
           /\ j \in Slots /\ tbl[j].key = loc[c].arr /\ tbl[j].owner = JoinClient /\ tbl[j].valid
           /\ tbl'[j].key = tbl[j].key /\ tbl'[j].owner = tbl[j].owner /\ tbl'[j].valid = tbl[j].valid
<1>1. loc[c].call = "array" /\ ArrayOK(c) /\ ArrayShape(pc[c], loc[c]) /\ pc[c] # "idle"
    BY NoLocalsFacts DEF Live, Making, IInv, CallsOK, Shapes, Shape, ArrayShape
<1>2. loc[c].arr \in Arrays /\ tbl[JoinOf(c)].key = loc[c].arr
    BY <1>1 DEF ArrayOK, ArrayShape
<1>3. PICK j \in Slots : j = JoinOf(c)
    BY <1>1 DEF ArrayShape, JoinOf, Live, Making
<1>4. tbl[j].owner = JoinClient /\ tbl[j].valid
    <2>1. EntryOK(tbl[j])
        BY <1>3 DEF IInv, TableOK
    <2> QED BY <1>2, <1>3, <2>1, ClientsAssumption DEF EntryOK
<1>5. ASSUME NEW o \in Clients, OldEntry(o, j) PROVE FALSE
    <2>1. loc[o].call = "array" => o = c
        BY <1>1, <1>2, <1>3, <1>5 DEF OldEntry, ArrayOK
    <2>2. loc[o].call = "reset" => o # c
        BY <1>1
    <2> QED BY <1>1, <1>2, <1>3, <1>5, <2>1, <2>2, KeysAssumption DEF OldEntry
<1>6. ASSUME NEW o \in Clients, NewEntry(o, j) PROVE FALSE
    BY <1>4, <1>6 DEF NewEntry
<1>7. ASSUME NEW g \in Slots, CtlEffect(g), j \in Full(g) PROVE FALSE
    BY <1>3, <1>7, LiveNotFull
<1>8. tbl'[j].key = tbl[j].key /\ tbl'[j].owner = tbl[j].owner /\ tbl'[j].valid = tbl[j].valid
    BY <1>5, <1>6, <1>7, KeysAfter
<1> QED BY <1>2, <1>3, <1>4, <1>8

(* When the last pending child is counted off, all are signaled. *)
LEMMA KidsDone ==
    ASSUME IInv, NEW c \in Clients, pc[c] = "link", tbl[loc[c].ent].signaled,
           tbl[loc[c].join].pending = 1
    PROVE  \A i \in 1..Size(loc[c].arr) : Children[loc[c].arr][i] \in done
<1>1. /\ loc[c].call = "array" /\ ArrayShape("link", loc[c])
      /\ Live(c) /\ ~Undoing(c) /\ JoinOf(c) = loc[c].join
      /\ loc[c].idx = Size(loc[c].arr)
    BY LastIsLast
<1>2. PICK a \in Arrays : a = loc[c].arr
    BY <1>1 DEF ArrayShape
<1>3. PICK n \in Nat : n = Size(a)
    BY ConfFacts DEF IInv, Types
<1>4. n > 0 /\ loc[c].ent \in Slots /\ loc[c].key = Children[a][n] /\ loc[c].key \in Fences
    BY <1>1, <1>2, <1>3 DEF ArrayShape, Kid
<1>5. JoinHas(loc[c].join, n) /\ tbl[loc[c].join].key = a
    BY <1>1, <1>2, <1>3, AtChild
<1>6. Cardinality(Left(a, n)) <= 1
    BY <1>5 DEF JoinHas
<1>7. IsFiniteSet(Left(a, n)) /\ Cardinality(Left(a, n)) \in Nat /\ n \in Left(a, n)
    BY <1>3, <1>4, LeftFinite DEF IInv, Types, Left
<1>8. Cardinality(Left(a, n) \ {n}) = Cardinality(Left(a, n)) - 1 /\ IsFiniteSet(Left(a, n) \ {n})
    BY <1>7, FS_RemoveElement
<1>9. Cardinality(Left(a, n) \ {n}) \in Nat
    BY <1>8, FS_CardinalityType
<1>10. Cardinality(Left(a, n) \ {n}) = 0
    BY <1>6, <1>7, <1>8, <1>9
<1>11. Left(a, n) \ {n} = {}
    BY <1>8, <1>10, FS_EmptySet
<1>12. Children[a][n] \in done
    <2>1. tbl[loc[c].ent].key = loc[c].key
        BY <1>1 DEF IInv, CallsOK, ArrayOK
    <2> QED BY <1>4, <2>1 DEF IInv, TableOK
<1>13. ASSUME NEW i \in 1..n PROVE Children[a][i] \in done
    <2>1. CASE i = n
        BY <1>12, <2>1
    <2>2. CASE i # n
        <3>1. i \notin Left(a, n)
            BY <1>11, <2>2
        <3> QED BY <1>3, <3>1 DEF Left
    <2> QED BY <2>1, <2>2
<1> QED BY <1>2, <1>3, <1>13

(* Every step keeps what a call on an array relies on. *)
LEMMA ArrayStep == IInv /\ [Next]_vars => \A c \in Clients : ArrayOK(c)'
<1> SUFFICES ASSUME IInv, [Next]_vars, NEW c \in Clients, loc'[c].call = "array"
             PROVE  ArrayOK(c)'
    BY DEF ArrayOK
<1>0. Types /\ Shapes /\ TableOK /\ ArrayOK(c) /\ conf' = conf
    BY ConfFixed DEF IInv, CallsOK
<1>00. \A a : Size(a)' = Size(a)
    BY <1>0 DEF Size, Children
<1>000. Children' = Children
    BY <1>0 DEF Children
<1>1. CASE \E a \in Arrays : WaitArray(c, a) /\ Begins(c, "array", a, "join", a, "mask")
    <2>1. PICK a \in Arrays : WaitArray(c, a) /\ Begins(c, "array", a, "join", a, "mask")
        BY <1>1
    <2>2. /\ loc'[c].arr = a /\ pc'[c] = "probe" /\ loc'[c].op = "join" /\ loc'[c].found = "mask"
          /\ ~loc'[c].sig /\ tbl' = tbl /\ ArrayFree(a)
          /\ \A o \in Clients : o # c => loc'[o] = loc[o]
        BY <2>1 DEF WaitArray, Begins, Goes
    <2> QED BY <2>2 DEF ArrayOK, Making, Live, ArrayFree
<1>2. CASE loc[c].call = "array" /\ loc'[c].arr = loc[c].arr
    <2>0. ArrayShape(pc[c], loc[c]) /\ pc[c] # "idle"
        BY <1>0, <1>2, NoLocalsFacts DEF Shapes, Shape, ArrayShape
    <2>1. PICK a \in Arrays : a = loc[c].arr
        BY <2>0 DEF ArrayShape
    <2>2. ~Ends(c) /\ ~Call(c)
        BY <1>2, NoLocalsFacts, CallStarts DEF Ends
    <2>4. (pc'[c] = pc[c] /\ loc'[c] = loc[c]) \/ (Step(c) /\ ArrayMove(c))
        BY <1>0, <1>2, <2>2, ArrayMoves, CallsMove
    <2>5. /\ Making(c) => Making(c)' /\ JoinOf(c)' = JoinOf(c) /\ (Live(c)' => Live(c))
          /\ ~Making(c) /\ Making(c)' => \E e \in Slots : Reserves(c, e) /\ JoinOf(c)' = e
        BY <1>00, <2>4 DEF ArrayMove, Making, JoinOf, Live
    <2>6. \A o \in Clients : loc'[o].arr = a => o = c
        BY <1>2, <2>1, OneMaker
    <2>7. ASSUME loc[c].found = "link", pc[c] \in {"probe", "link"} PROVE loc[c].key \in enabled'
        <3>1. loc[c].key \in enabled
            BY <1>0, <1>2, <2>7 DEF ArrayOK
        <3>2. loc[c].key = Kid(loc[c]) /\ loc[c].idx \in 1..Size(loc[c].arr)
            BY <2>0, <2>7 DEF ArrayShape
        <3>3. InUse(loc[c].key)
            BY <1>2, <3>2 DEF InUse, ChildOf, Kid, Size
        <3> QED BY <3>1, <3>3, EnabledStays
    <2>8. loc'[c].found = "link" /\ pc'[c] \in {"probe", "link"} => loc'[c].key \in enabled'
        BY <2>4, <2>7 DEF ArrayMove
    <2>9. ASSUME pc[c] = "link" PROVE tbl'[loc[c].ent].key = loc[c].key
        <3>1. loc[c].key = Kid(loc[c]) /\ loc[c].idx \in 1..Size(loc[c].arr) /\ loc[c].key \in Fences
              /\ loc[c].ent \in Slots
            BY <2>0, <2>9 DEF ArrayShape
        <3>2. InUse(loc[c].key)
            BY <1>2, <3>1 DEF InUse, ChildOf, Kid, Size
        <3>3. tbl[loc[c].ent].key = loc[c].key
            BY <1>0, <1>2, <2>9 DEF ArrayOK
        <3> QED BY <3>1, <3>2, <3>3, FenceStays
    <2>10. pc'[c] = "link" => tbl'[loc'[c].ent].key = loc'[c].key
        BY <2>4, <2>9 DEF ArrayMove
    <2>11. ASSUME NEW e \in Slots, tbl'[e].key = a PROVE Making(c)' /\ e = JoinOf(c)'
        <3>1. CASE tbl'[e].key = tbl[e].key
            BY <1>0, <1>2, <2>1, <2>5, <2>11, <3>1 DEF ArrayOK
        <3>2. CASE \E o \in Clients : Probe(o) /\ NewEntry(o, e)
            <4>1. PICK o \in Clients : Probe(o) /\ NewEntry(o, e)
                BY <3>2
            <4>2. loc[o].call = "array" /\ loc[o].op = "join" /\ loc[o].arr = a /\ pc[o] = "probe"
                BY <2>1, <2>11, <4>1 DEF NewEntry
            <4>3. o = c
                BY <1>0, <1>2, <2>1, <4>2 DEF ArrayOK
            <4>4. loc[c].found = "mask"
                BY <2>0, <4>2, <4>3 DEF ArrayShape
            <4>5. pc'[c] = "mask" /\ loc'[c].ent = e
                BY <4>1, <4>3, <4>4 DEF NewEntry, Goes
            <4> QED BY <4>5 DEF Making, JoinOf
        <3>3. tbl'[e] # FreeEntry
            BY <1>0, <2>11, FreshFacts, KeysAssumption DEF Keys
        <3> QED BY <3>1, <3>2, <3>3, KeysAfter
    <2>12. Live(c)' => tbl'[JoinOf(c)'].key = a
        <3>1. CASE Making(c)
            BY <2>1, <2>2, <2>5, <3>1, JoinStays
        <3>2. CASE ~Making(c) /\ Making(c)'
            <4>1. PICK e \in Slots : Reserves(c, e) /\ JoinOf(c)' = e
                BY <2>5, <3>2
            <4>2. loc[c].op = "join"
                BY <1>2, <3>2 DEF Making
            <4>3. loc[c].key = a
                BY <2>0, <2>1, <4>2, <3>2, <1>2 DEF ArrayShape, Making
            <4> QED BY <4>1, <4>3, ReservesNew DEF NewEntry
        <3>3. CASE ~Making(c)'
            BY <3>3 DEF Live
        <3> QED BY <3>1, <3>2, <3>3
    <2>13. loc'[c].sig => \A i \in 1..Size(a) : Children[a][i] \in done'
        <3>1. loc[c].sig => \A i \in 1..Size(a) : Children[a][i] \in done
            BY <1>0, <1>2, <2>1 DEF ArrayOK
        <3>2. Link(c) /\ tbl[loc[c].ent].signaled /\ tbl[loc[c].join].pending = 1
              => \A i \in 1..Size(a) : Children[a][i] \in done
            BY <2>1, KidsDone DEF Link
        <3> QED BY <2>4, <3>1, <3>2, SetsAfter DEF ArrayMove
    <2> QED BY <1>2, <1>00, <1>000, <2>1, <2>6, <2>8, <2>10, <2>11, <2>12, <2>13 DEF ArrayOK
<1> QED BY <1>1, <1>2, CallsFrom

(* Every step keeps what the calls rely on. *)
LEMMA CallsStep == IInv /\ [Next]_vars => CallsOK'
BY CreateStep, DestroyStep, WaitStep, ArrayStep DEF CallsOK
----------------------------------------------------------------------------
(* A reset is alone. *)
LEMMA ResetsStep == IInv /\ QuietReset /\ [Next]_vars => ResetsOK'
<1> SUFFICES ASSUME IInv, QuietReset, [Next]_vars, NEW c \in Clients, loc'[c].call = "reset"
             PROVE  ResetOK(c)'
    BY DEF ResetsOK, ResetOK
<1>0. Types /\ Shapes /\ TableOK /\ ResetOK(c)
    BY DEF IInv, ResetsOK
<1>1. CASE \E keep \in BOOLEAN : Reset(c, keep) /\ Goes(c, "clear")
    <2>1. PICK keep \in BOOLEAN : Reset(c, keep) /\ Goes(c, "clear")
        BY <1>1
    <2>2. (\A o \in Clients : pc[o] = "idle") /\ pc'[c] = "clear"
        BY <2>1 DEF Reset, MayReset, Goes
    <2>3. \A o \in Clients : o # c => pc'[o] = "idle"
        BY <2>1, <2>2 DEF Goes
    <2> QED BY <2>2, <2>3 DEF ResetOK
<1>2. CASE loc[c].call = "reset"
    <2>1. \A o \in Clients : o # c => pc[o] = "idle"
        BY <1>0, <1>2 DEF ResetOK
    <2>2. ASSUME NEW o \in Clients PROVE ~Call(o) /\ (o # c => ~Step(o) /\ pc'[o] = "idle")
        <3>1. ~Call(o)
            BY <1>2, CallStarts DEF MayCall
        <3>2. o # c => ~Step(o)
            BY <2>1, StepGoes
        <3> QED BY <2>1, <3>1, <3>2, CallsMove
    <2>3. PICK s \in Slots : s = loc[c].slot
        BY <1>0 DEF Types, LocType
    <2>4. pc[c] \in {"clear", "check", "error", "advance", "probe"} /\ loc[c].arr = NoKey
        BY <1>0, <1>2, NoLocalsFacts DEF Shapes, Shape
    <2>5. pc[c] \in {"error", "probe"} =>
              /\ tbl[s].owner = c
              /\ ~tbl[s].signaled => \A w \in tbl[s].mask :
                    <<w, tbl[s].key>> \in owed => pc[c] = "error" /\ w \in loc[c].todo
              /\ pc[c] = "probe" => loc[c].key = tbl[s].key
        BY <1>0, <1>2, <2>3 DEF ResetOK
    <2> DEFINE
        Good(p, q) ==
            /\ p \in {"error", "probe"} =>
                  /\ tbl'[q.slot].owner = c
                  /\ ~tbl'[q.slot].signaled => \A w \in tbl'[q.slot].mask :
                        <<w, tbl'[q.slot].key>> \in owed' => p = "error" /\ w \in q.todo
            /\ p = "probe" => q.key = tbl'[q.slot].key
    <2>6. Good(pc'[c], loc'[c]) => ResetOK(c)'
        <3> SUFFICES ASSUME Good(pc'[c], loc'[c]) PROVE ResetOK(c)'
            OBVIOUS
        <3>1. \A o \in Clients : o # c => pc'[o] = "idle"
            BY <2>2
        <3> QED BY <3>1 DEF ResetOK
    <2> SUFFICES Good(pc'[c], loc'[c])
        BY <2>6
    <2>7. ASSUME NEW g \in Slots, CtlSignal(g) PROVE Good(pc'[c], loc'[c])
        <3>1. CtlEffect(g)
            BY <2>7, CtlGoes
        <3>2. pc' = pc /\ loc' = loc /\ owed' \subseteq owed
            BY <2>7, <3>1 DEF CtlEffect, CtlSignal, Signal
        <3>3. CASE pc[c] \in {"error", "probe"}
            <4>1. s \notin Full(g)
                BY <2>5, <3>1, <3>3, ClientsAssumption DEF CtlEffect
            <4>2. /\ tbl'[s].owner = tbl[s].owner /\ tbl'[s].key = tbl[s].key /\ tbl'[s].mask = tbl[s].mask
                  /\ tbl'[s].signaled \/ ~tbl[s].signaled
                BY <3>1, <4>1 DEF CtlEffect, SameEntry
            <4>3. s # g => tbl'[s].signaled = tbl[s].signaled
                BY <3>1, <4>1 DEF CtlEffect
            <4>4. tbl'[g].signaled
                BY <3>1 DEF CtlEffect
            <4> QED BY <2>3, <2>5, <3>2, <3>3, <4>2, <4>3, <4>4
        <3>4. CASE pc[c] \notin {"error", "probe"}
            BY <3>2, <3>4
        <3> QED BY <3>3, <3>4
    <2>8. CASE UNCHANGED vars
        <3>1. pc' = pc /\ loc' = loc /\ owed' = owed /\ tbl' = tbl
            BY <2>8 DEF vars, history
        <3> QED BY <2>3, <2>5, <3>1
    <2>9. ASSUME Step(c) PROVE Good(pc'[c], loc'[c])
        <3>1. CASE pc[c] = "clear"
            <4>1. pc'[c] = "check"
                BY <1>0, <2>9, <3>1, StepAt, ClearGoes DEF Goes
            <4> QED BY <4>1
        <3>2. CASE pc[c] = "check"
            <4>1. CheckOwner(c)
                BY <2>9, <3>2, StepAt
            <4>2. \/ pc'[c] = "advance"
                  \/ /\ tbl[s].owner = c /\ pc'[c] = "error" /\ Same(loc'[c], loc[c], {"todo"})
                     /\ loc'[c].todo = ToSignal(s)
                BY <1>0, <2>3, <4>1, OwnerGoes DEF Goes
            <4>3. tbl' = tbl /\ tbl[s].mask \subseteq Clients
                BY <1>0, <4>1 DEF CheckOwner, Types, EntryType
            <4>4. CASE pc'[c] = "advance"
                BY <4>4
            <4>5. CASE /\ tbl[s].owner = c /\ pc'[c] = "error" /\ Same(loc'[c], loc[c], {"todo"})
                       /\ loc'[c].todo = ToSignal(s)
                <5>1. loc'[c].slot = s
                    BY <2>3, <4>5 DEF Same
                <5>2. ~tbl[s].signaled => loc'[c].todo = Clients
                    BY <4>5 DEF ToSignal
                <5> QED BY <4>3, <4>5, <5>1, <5>2
            <4> QED BY <4>2, <4>4, <4>5
        <3>3. CASE pc[c] = "error"
            <4>1. SignalError(c) /\ tbl' = tbl
                BY <2>9, <3>3, StepAt DEF SignalError
            <4>2. tbl[s].key \in Fences
                <5>1. EntryOK(tbl[s]) /\ tbl[s].key \in Keys \cup {NoKey} /\ tbl[s].owner = c
                    BY <1>0, <2>5, <3>3 DEF TableOK, Types, EntryType
                <5> QED BY <5>1, ClientsAssumption DEF EntryOK, Keys
            <4>3. CASE \E w \in loc[c].todo : Tells(c, s, w)
                <5>1. PICK w \in loc[c].todo :
                          /\ Goes(c, "error") /\ Same(loc'[c], loc[c], {"todo"})
                          /\ loc'[c].todo = loc[c].todo \ {w}
                          /\ IF w \in tbl[s].mask
                             THEN Signal({<<w, tbl[s].key>>}, {<<o, tbl[s].key>> : o \in tbl[s].data})
                                  /\ UNCHANGED <<made, done>>
                             ELSE UNCHANGED history
                    BY <4>3 DEF Tells
                <5>2. pc'[c] = "error" /\ loc'[c].slot = s /\ loc'[c].todo = loc[c].todo \ {w}
                    BY <2>3, <5>1 DEF Goes, Same
                <5>3. owed' = owed \/ owed' = owed \ {<<w, tbl[s].key>>}
                    BY <5>1 DEF Signal, history
                <5>4. w \in tbl[s].mask => <<w, tbl[s].key>> \notin owed'
                    BY <5>1 DEF Signal
                <5>5. ASSUME ~tbl[s].signaled, NEW v \in tbl[s].mask, <<v, tbl[s].key>> \in owed'
                      PROVE  v \in loc[c].todo \ {w}
                    <6>1. <<v, tbl[s].key>> \in owed
                        BY <5>3, <5>5
                    <6>2. v \in loc[c].todo
                        BY <2>5, <3>3, <5>5, <6>1
                    <6>3. v # w
                        BY <5>4, <5>5
                    <6> QED BY <6>2, <6>3
                <5> QED BY <2>5, <3>3, <4>1, <5>2, <5>5
            <4>4. CASE /\ loc[c].todo = {} /\ Goes(c, "probe")
                       /\ Entered(loc'[c], loc[c], "destroy", tbl[s].key, "advance", "advance")
                       /\ UNCHANGED history
                <5>1. pc'[c] = "probe" /\ loc'[c].slot = s /\ loc'[c].key = tbl[s].key /\ owed' = owed
                    BY <2>3, <4>4 DEF Goes, Entered, Same, history
                <5> QED BY <2>5, <3>3, <4>1, <4>4, <5>1
            <4>5. CASE Goes(c, "advance")
                BY <4>5 DEF Goes
            <4> QED BY <1>0, <2>3, <4>1, <4>2, <4>3, <4>4, <4>5, TellsGoes
        <3>4. CASE pc[c] = "advance"
            <4>1. pc'[c] \in {"clear", "idle"}
                BY <1>0, <2>9, <3>4, StepAt, NextEntryGoes DEF Goes
            <4> QED BY <4>1
        <3>5. CASE pc[c] = "probe"
            <4>1. Probe(c)
                BY <2>9, <3>5, StepAt
            <4>2. loc[c].found = "advance" /\ loc[c].failed = "advance"
                BY <1>0, <1>2, <3>5, NoLocalsFacts DEF Shapes, Shape
            <4>3. \/ pc'[c] = "advance"
                  \/ tbl' = tbl /\ pc'[c] = "probe" /\ Same(loc'[c], loc[c], {"step"})
                BY <1>0, <4>1, <4>2, ProbeGoes DEF Goes
            <4>4. owed' = owed
                BY <4>1 DEF Probe, history
            <4>5. CASE pc'[c] = "advance"
                BY <4>5
            <4>6. CASE tbl' = tbl /\ pc'[c] = "probe" /\ Same(loc'[c], loc[c], {"step"})
                <5>1. loc'[c].slot = s /\ loc'[c].key = loc[c].key
                    BY <2>3, <4>6 DEF Same
                <5> QED BY <2>5, <3>5, <4>4, <4>6, <5>1
            <4> QED BY <4>3, <4>5, <4>6
        <3> QED BY <2>4, <3>1, <3>2, <3>3, <3>4, <3>5
    <2>10. \/ Step(c) \/ (\E g \in Slots : CtlSignal(g)) \/ UNCHANGED vars
        BY <2>2 DEF Next, Ctl
    <2> QED BY <2>7, <2>8, <2>9, <2>10
<1> QED BY <1>1, <1>2, CallsFrom
----------------------------------------------------------------------------
(* The links after a step. *)
Where(m, f, s) == {i \in 1..m : f[i] = s}
Count(m, f, s) == Cardinality(Where(m, f, s))

(* The number of places with a value. *)
LEMMA CountOf ==
    ASSUME NEW m \in Nat, NEW f, NEW s
    PROVE  /\ IsFiniteSet(Where(m, f, s)) /\ Count(m, f, s) \in Nat
           /\ Count(m, f, s) > 0 <=> \E i \in 1..m : f[i] = s
<1>1. Where(m, f, s) \in SUBSET (1..m)
    BY DEF Where
<1>2. IsFiniteSet(Where(m, f, s))
    BY <1>1, UpTo, FS_Subset
<1>3. Count(m, f, s) \in Nat
    BY <1>2, FS_CardinalityType DEF Count
<1>4. Count(m, f, s) = 0 <=> Where(m, f, s) = {}
    BY <1>2, FS_EmptySet DEF Count
<1>5. Count(m, f, s) > 0 <=> Where(m, f, s) # {}
    BY <1>3, <1>4
<1>6. Where(m, f, s) # {} <=> \E i \in 1..m : f[i] = s
    BY DEF Where
<1> QED BY <1>2, <1>3, <1>5, <1>6

(* Fewer places, smaller count. *)
LEMMA MoreOf ==
    ASSUME NEW m \in Nat, NEW f, NEW n \in Nat, NEW g, NEW s,
           \A i \in 1..n : g[i] = s => i \in 1..m /\ f[i] = s
    PROVE  Count(n, g, s) <= Count(m, f, s)
<1>1. IsFiniteSet(Where(m, f, s))
    BY CountOf
<1>2. Where(n, g, s) \in SUBSET Where(m, f, s)
    BY DEF Where
<1> QED BY <1>1, <1>2, FS_Subset DEF Count

Longer(m, f, n, g, s) == n = m + 1 /\ g[n] = s /\ \A i \in 1..m : g[i] = f[i]

(* One place more, one more counted. *)
LEMMA OneMore ==
    ASSUME NEW m \in Nat, NEW f, NEW n, NEW g, NEW s, Longer(m, f, n, g, s)
    PROVE  Count(n, g, s) = Count(m, f, s) + 1
<1>1. IsFiniteSet(Where(m, f, s))
    BY CountOf
<1>2. Where(n, g, s) = Where(m, f, s) \cup {n} /\ n \notin Where(m, f, s)
    BY DEF Where, Longer
<1>3. Cardinality(Where(m, f, s) \cup {n}) = Cardinality(Where(m, f, s)) + 1
    BY <1>1, <1>2, FS_AddElement
<1> QED BY <1>2, <1>3 DEF Count

TimesMove(e, s) ==
    /\ Times(e, s)' \in Nat
    /\ Times(e, s)' > 0 <=> \E i \in 1..tbl'[e].cnt : tbl'[e].parents[i] = s
    /\ \/ (\E c \in Clients : NewEntry(c, e)) /\ Times(e, s)' = 0
       \/ /\ tbl[e].valid /\ ~tbl[e].signaled /\ tbl'[e].key = tbl[e].key
          /\ \/ Times(e, s)' <= Times(e, s)
             \/ \E c \in Clients : /\ Appends(c) /\ e = loc[c].ent /\ s = loc[c].join
                                   /\ Times(e, s)' = Times(e, s) + 1

(* How the links of an unsignaled child to a join change. *)
LEMMA TimesAfter ==
    ASSUME IInv, [Next]_vars, NEW e \in Slots, NEW s \in Slots, tbl'[e].valid, ~tbl'[e].signaled
    PROVE  TimesMove(e, s)
<1>0. Types /\ Types' /\ conf' = conf
    BY TypesStep DEF IInv
<1>1. PICK m \in Nat : m = tbl[e].cnt
    BY <1>0, ConfFacts DEF Types, EntryType
<1>2. MaxParents \in Nat /\ MaxParents' = MaxParents
    BY <1>0, ConfFacts DEF Types, MaxParents
<1>3. PICK n \in Nat : n = tbl'[e].cnt
    <2>1. tbl'[e] \in EntryType'
        BY <1>0 DEF Types
    <2>2. tbl'[e].cnt \in 0..(MaxParents - 1)
        BY <1>2, <2>1 DEF EntryType
    <2> QED BY <1>2, <2>2
<1>4. PICK f \in [1..MaxParents -> Slots \cup {NoSlot}] : f = tbl[e].parents
    BY <1>0 DEF Types, EntryType
<1>5. PICK g : g = tbl'[e].parents
    OBVIOUS
<1>6. Times(e, s) = Count(m, f, s)
    BY <1>1, <1>4 DEF Times, Count, Where
<1>7. Times(e, s)' = Count(n, g, s)
    BY <1>3, <1>5 DEF Times, Count, Where
<1>8. /\ Times(e, s)' \in Nat
      /\ Times(e, s)' > 0 <=> \E i \in 1..n : g[i] = s
    BY <1>7, CountOf
<1>9. \/ (\E c \in Clients : NewEntry(c, e)) /\ Times(e, s)' = 0
      \/ /\ tbl[e].valid /\ ~tbl[e].signaled /\ tbl'[e].key = tbl[e].key
         /\ \/ Times(e, s)' <= Times(e, s)
            \/ \E c \in Clients : /\ Appends(c) /\ e = loc[c].ent /\ s = loc[c].join
                                  /\ Times(e, s)' = Times(e, s) + 1
    <2>0. Times(e, s) \in Nat
        BY <1>6, CountOf
    <2>1. ASSUME tbl[e].valid, ~tbl[e].signaled, tbl'[e].key = tbl[e].key, n = m, g = f
          PROVE  Times(e, s)' <= Times(e, s)
        BY <1>6, <1>7, <2>0, <2>1
    <2>2. ASSUME NEW c \in Clients, Call(c) \/ Step(c)
          PROVE  \/ NewEntry(c, e) /\ Times(e, s)' = 0
                 \/ /\ tbl[e].valid /\ ~tbl[e].signaled /\ tbl'[e].key = tbl[e].key
                    /\ \/ Times(e, s)' <= Times(e, s)
                       \/ /\ Appends(c) /\ e = loc[c].ent /\ s = loc[c].join
                          /\ Times(e, s)' = Times(e, s) + 1
        <3>1. CASE Plain \/ CountsOff(c)
            <4>1. tbl[e].valid /\ ~tbl[e].signaled /\ tbl'[e].key = tbl[e].key /\ n = m /\ g = f
                BY <1>1, <1>3, <1>4, <1>5, <3>1 DEF Plain, CountsOff, Steady, SameLinks
            <4> QED BY <2>1, <4>1
        <3>2. CASE Appends(c)
            <4>1. tbl[e].valid /\ ~tbl[e].signaled /\ tbl'[e].key = tbl[e].key
                BY <3>2 DEF Appends, Steady
            <4>2. CASE e # loc[c].ent
                <5>1. n = m /\ g = f
                    BY <1>1, <1>3, <1>4, <1>5, <3>2, <4>2 DEF Appends
                <5> QED BY <2>1, <4>1, <5>1
            <4>3. CASE e = loc[c].ent
                <5>1. n = m + 1 /\ m + 1 \in 1..MaxParents /\ g = [f EXCEPT ![m + 1] = loc[c].join]
                    BY <1>1, <1>3, <1>4, <1>5, <3>2, <4>3 DEF Appends
                <5>2. g[m + 1] = loc[c].join /\ \A i \in 1..m : g[i] = f[i]
                    BY <1>2, <5>1
                <5>3. CASE s = loc[c].join
                    <6>0. Longer(m, f, n, g, s)
                        BY <5>1, <5>2, <5>3 DEF Longer
                    <6>2. Count(n, g, s) = Count(m, f, s) + 1
                        BY <6>0, OneMore
                    <6>1. Times(e, s)' = Times(e, s) + 1
                        BY <1>6, <1>7, <5>1, <6>2
                    <6> QED BY <3>2, <4>1, <4>3, <5>3, <6>1
                <5>4. CASE s # loc[c].join
                    <6>1. \A i \in 1..n : g[i] = s => i \in 1..m /\ f[i] = s
                        BY <5>1, <5>2, <5>4
                    <6>2. Times(e, s)' <= Times(e, s)
                        BY <1>6, <1>7, <6>1, MoreOf
                    <6> QED BY <4>1, <6>2
                <5> QED BY <5>3, <5>4
            <4> QED BY <4>2, <4>3
        <3>3. CASE Blanks(c)
            <4>1. tbl[e].valid /\ ~tbl[e].signaled /\ tbl'[e].key = tbl[e].key
                BY <3>3 DEF Blanks, Steady
            <4>2. CASE e # loc[c].ent
                <5>1. n = m /\ g = f
                    BY <1>1, <1>3, <1>4, <1>5, <3>3, <4>2 DEF Blanks
                <5> QED BY <2>1, <4>1, <5>1
            <4>3. CASE e = loc[c].ent
                <5>1. /\ n <= m
                      /\ g = [i \in 1..MaxParents |->
                                 IF i \in 1..m /\ f[i] = loc[c].join THEN NoSlot ELSE f[i]]
                    BY <1>1, <1>3, <1>4, <1>5, <3>3, <4>3 DEF Blanks
                <5>2. s # NoSlot
                    BY EntriesAssumption DEF Slots, NoSlot
                <5>3. m <= MaxParents
                    <6>1. m \in 0..(MaxParents - 1)
                        BY <1>0, <1>1 DEF Types, EntryType
                    <6> QED BY <1>2, <6>1
                <5>4. ASSUME NEW i \in 1..n, g[i] = s PROVE i \in 1..m /\ f[i] = s
                    <6>1. i \in 1..m /\ i \in 1..MaxParents
                        BY <1>2, <5>1, <5>3
                    <6>2. g[i] = IF i \in 1..m /\ f[i] = loc[c].join THEN NoSlot ELSE f[i]
                        BY <5>1, <6>1
                    <6> QED BY <5>2, <5>4, <6>1, <6>2
                <5>5. Times(e, s)' <= Times(e, s)
                    BY <1>6, <1>7, <5>4, MoreOf
                <5> QED BY <4>1, <5>5
            <4> QED BY <4>2, <4>3
        <3>4. CASE \E x \in Slots : Reserves(c, x)
            <4>1. PICK x \in Slots : NewEntry(c, x)
                BY <3>4, ReservesNew
            <4>2. CASE e = x
                <5>1. n = 0
                    BY <1>3, <4>1, <4>2 DEF NewEntry
                <5> QED BY <1>8, <4>1, <4>2, <5>1
            <4>3. CASE e # x
                <5>1. tbl'[e] = tbl[e]
                    BY <4>1, <4>3 DEF NewEntry
                <5> QED BY <1>1, <1>3, <1>4, <1>5, <2>1, <5>1
            <4> QED BY <4>2, <4>3
        <3>5. CASE \E x \in Slots : Frees(c, x)
            <4>1. PICK x \in Slots : OldEntry(c, x)
                BY <3>5, FreesOld
            <4>2. e # x
                BY <1>0, <4>1, FreshFacts DEF OldEntry
            <4>3. tbl'[e] = tbl[e]
                BY <4>1, <4>2 DEF OldEntry
            <4> QED BY <1>1, <1>3, <1>4, <1>5, <2>1, <4>3
        <3> QED BY <2>2, <3>1, <3>2, <3>3, <3>4, <3>5, StepKinds
    <2>3. ASSUME NEW x \in Slots, CtlSignal(x)
          PROVE  /\ tbl[e].valid /\ ~tbl[e].signaled /\ tbl'[e].key = tbl[e].key
                 /\ Times(e, s)' <= Times(e, s)
        <3>1. CtlEffect(x)
            BY <2>3, CtlGoes
        <3>2. e \notin Full(x) /\ e # x
            BY <1>0, <3>1, FreshFacts DEF CtlEffect
        <3>3. tbl[e].valid /\ ~tbl[e].signaled /\ tbl'[e].key = tbl[e].key /\ n = m /\ g = f
            BY <1>1, <1>3, <1>4, <1>5, <3>1, <3>2 DEF CtlEffect, SameEntry
        <3> QED BY <2>1, <3>3
    <2>4. CASE UNCHANGED vars
        <3>1. tbl' = tbl
            BY <2>4 DEF vars
        <3> QED BY <1>1, <1>3, <1>4, <1>5, <2>1, <3>1
    <2> QED BY <2>2, <2>3, <2>4 DEF Next, Ctl
<1> QED BY <1>3, <1>5, <1>8, <1>9 DEF TimesMove

(* A link was there before or is the one just appended. *)
LEMMA PointingFrom ==
    ASSUME IInv, [Next]_vars, NEW e \in Slots, NEW s \in Slots, Pointing(e, s)'
    PROVE  /\ tbl'[e].key = tbl[e].key
           /\ \/ Pointing(e, s)
              \/ \E c \in Clients : Appends(c) /\ e = loc[c].ent /\ s = loc[c].join
<1>1. tbl'[e].valid /\ ~tbl'[e].signaled /\ \E i \in 1..tbl'[e].cnt : tbl'[e].parents[i] = s
    BY DEF Pointing
<1>2. TimesMove(e, s)
    BY <1>1, TimesAfter
<1>3. /\ Times(e, s)' \in Nat /\ Times(e, s)' > 0
      /\ tbl[e].valid /\ ~tbl[e].signaled /\ tbl'[e].key = tbl[e].key
      /\ \/ Times(e, s)' <= Times(e, s)
         \/ \E c \in Clients : Appends(c) /\ e = loc[c].ent /\ s = loc[c].join
    BY <1>1, <1>2 DEF TimesMove
<1>4. Times(e, s) \in Nat /\ (Times(e, s) > 0 <=> \E i \in 1..tbl[e].cnt : tbl[e].parents[i] = s)
    BY TimesFacts DEF IInv
<1>5. Times(e, s)' <= Times(e, s) => Pointing(e, s)
    BY <1>3, <1>4 DEF Pointing
<1> QED BY <1>3, <1>5

(* Who appends a link is at a child of its live join. *)
LEMMA AppendsAt ==
    ASSUME IInv, NEW c \in Clients, Appends(c)
    PROVE  /\ pc[c] = "link" /\ Live(c) /\ ~Undoing(c) /\ JoinOf(c) = loc[c].join
           /\ loc[c].join \in Slots /\ tbl[loc[c].join].owner = JoinClient
           /\ tbl[loc[c].join].key = loc[c].arr
<1>1. pc[c] = "link"
    BY DEF Appends, Link
<1>2. Live(c) /\ ~Undoing(c) /\ JoinOf(c) = loc[c].join
    BY <1>1, LastIsLast
<1> QED BY <1>1, <1>2, AtChild

(* Two calls have two joins. *)
LEMMA JoinsApart ==
    ASSUME IInv, NEW c \in Clients, NEW o \in Clients, o # c, Live(c), Live(o)
    PROVE  JoinOf(c) # JoinOf(o)
<1>1. \A x \in {c, o} : ArrayOK(x) /\ loc[x].call = "array"
    BY DEF IInv, CallsOK, Live, Making
<1>2. \A x \in {c, o} : tbl[JoinOf(x)].key = loc[x].arr
    BY <1>1 DEF ArrayOK
<1> QED BY <1>1, <1>2 DEF ArrayOK

(* A call that undoes its links has its join. *)
LEMMA UndoLive ==
    ASSUME IInv, NEW c \in Clients, Undoing(c)
    PROVE  /\ loc[c].call = "array" /\ ArrayShape(pc[c], loc[c]) /\ loc[c].arr \in Arrays
           /\ Live(c) /\ JoinOf(c) = loc[c].join /\ loc[c].join \in Slots
           /\ loc[c].idx \in 0..Size(loc[c].arr) /\ Size(loc[c].arr) \in Nat
           /\ ~loc[c].sig /\ pc[c] \in {"unlink", "probe", "cut", "next"}
<1>1. loc[c].call = "array" /\ ArrayShape(pc[c], loc[c]) /\ ~loc[c].sig
    BY NoLocalsFacts DEF Undoing, IInv, Shapes, Shape
<1>2. loc[c].arr \in Arrays
    BY <1>1 DEF ArrayShape
<1>3. PICK n \in Nat : n = Size(loc[c].arr)
    BY <1>2, ConfFacts DEF IInv, Types
<1>4. /\ loc[c].join \in Slots /\ loc[c].idx \in 0..n /\ pc[c] \in {"unlink", "probe", "cut", "next"}
      /\ ~(pc[c] = "probe" /\ loc[c].op = "join")
    BY <1>1, <1>3 DEF Undoing, Failing, ArrayShape
<1>5. Live(c) /\ JoinOf(c) = loc[c].join
    BY <1>1, <1>3, <1>4 DEF Live, Making, JoinOf
<1> QED BY <1>1, <1>2, <1>3, <1>4, <1>5

(* Every step keeps links leading to joins. *)
LEMMA LinksStep == IInv /\ [Next]_vars => LinksOK'
<1> SUFFICES ASSUME IInv, [Next]_vars, NEW e \in Slots, NEW s \in Slots, Pointing(e, s)'
             PROVE  tbl'[s].owner = JoinClient
    BY DEF LinksOK
<1>1. CASE \E c \in Clients : Appends(c) /\ e = loc[c].ent /\ s = loc[c].join
    <2>1. PICK c \in Clients : Appends(c) /\ s = loc[c].join
        BY <1>1
    <2>2. tbl[s].owner = JoinClient
        BY <2>1, AppendsAt
    <2>3. Steady
        BY <2>1 DEF Appends
    <2> QED BY <2>2, <2>3 DEF Steady
<1>2. CASE Pointing(e, s)
    <2>1. /\ tbl[e].key \notin done /\ tbl[s].owner = JoinClient
        BY <1>2, PointingFence
    <2>2. tbl[s].key \in Arrays /\ tbl[s].valid
        BY <2>1, JoinPick
    <2>3. PICK h \in 1..(Size(tbl[s].key) + 1) : JoinHas(s, h)
        BY <2>1, JoinPick
    <2>4. PICK i \in 1..(h - 1) : Children[tbl[s].key][i] = tbl[e].key
        BY <1>2, <2>3, PointsOccurs
    <2>5. h - 1 \in 0..Size(tbl[s].key) /\ Size(tbl[s].key) \in Nat
        BY <1>2, <2>2, <2>3, PointsOccurs, ConfFacts DEF IInv, Types
    <2>6. i \in 1..Size(tbl[s].key)
        BY <2>5
    <2>7. ASSUME NEW c \in Clients, OldEntry(c, s) PROVE FALSE
        <3>1. /\ loc[c].call = "array" /\ tbl[s].key = loc[c].arr /\ s = loc[c].join
              /\ loc[c].sig \/ loc[c].idx = 0
              /\ loc[c].op = "destroy"
            BY <2>2, <2>7, KeysAssumption DEF OldEntry
        <3>2. CASE loc[c].sig
            BY <2>1, <2>4, <2>6, <3>1, <3>2 DEF IInv, CallsOK, ArrayOK
        <3>3. CASE ~loc[c].sig /\ loc[c].idx = 0
            <4>1. UndoOK(c) /\ Undoing(c)
                BY <3>1, <3>3 DEF Undoing, Failing, IInv, SearchOK
            <4>2. PICK x \in 1..0 : TRUE
                BY <1>2, <3>1, <3>3, <4>1 DEF UndoOK
            <4> QED BY <4>2
        <3> QED BY <3>1, <3>2, <3>3
    <2>8. ASSUME NEW g \in Slots, CtlEffect(g), s \in Full(g) PROVE FALSE
        <3>1. Left(tbl[s].key, h) = Occurs(tbl[s].key, h, tbl[g].key)
            BY <2>3, <2>8, FullLeft
        <3>2. i \in Left(tbl[s].key, h)
            BY <2>1, <2>4, <2>6 DEF Left
        <3>3. tbl[g].key = tbl[e].key
            BY <2>4, <3>1, <3>2 DEF Occurs
        <3>4. e = g
            BY <2>8, <3>3 DEF CtlEffect, IInv, TableOK
        <3> QED BY <2>8, <3>4 DEF CtlEffect, Pointing
    <2>9. ASSUME NEW c \in Clients, NewEntry(c, s) PROVE FALSE
        BY <2>2, <2>9 DEF NewEntry
    <2> QED BY <2>1, <2>7, <2>8, <2>9, KeysAfter
<1> QED BY <1>1, <1>2, PointingFrom
----------------------------------------------------------------------------
(* The lookups after a step. *)
LEMMA LookupKeys ==
    ASSUME IInv, NEW c \in Clients, pc[c] = "probe", ~IsCreate(loc[c].op)
    PROVE  /\ loc[c].key \in Keys /\ loc[c].step \in Slots
           /\ \/ loc[c].call = "wait" /\ loc[c].key \in Fences /\ loc[c].key \in enabled
              \/ loc[c].call = "destroy" /\ loc[c].key \in Fences /\ loc[c].key \in done
              \/ loc[c].call = "reset" /\ loc[c].key \in Fences /\ \A o \in Clients : o # c => pc[o] = "idle"
              \/ loc[c].call = "array" /\ loc[c].found = "link" /\ loc[c].key \in Fences /\ loc[c].key \in enabled
              \/ loc[c].call = "array" /\ loc[c].found = "cut" /\ Undoing(c)
              \/ loc[c].call = "array" /\ loc[c].key = loc[c].arr /\ loc[c].arr \in Arrays
<1>0. WaitOK(c) /\ DestroyOK(c) /\ ResetOK(c) /\ ArrayOK(c) /\ Shape("probe", loc[c]) /\ Types
    BY DEF IInv, CallsOK, ResetsOK, Shapes
<1>1. loc[c].step \in Slots
    BY <1>0 DEF Types, LocType
<1> USE DEF Keys
<1>2. CASE loc[c].call = "wait"
    BY <1>0, <1>1, <1>2, NoLocalsFacts DEF Shape, WaitOK
<1>3. CASE loc[c].call = "destroy"
    BY <1>0, <1>1, <1>3, NoLocalsFacts DEF Shape, DestroyOK, MayDestroy
<1>4. CASE loc[c].call = "reset"
    BY <1>0, <1>1, <1>4, NoLocalsFacts DEF Shape, ResetOK
<1>5. CASE loc[c].call = "create"
    BY <1>0, <1>5, NoLocalsFacts DEF Shape, IsCreate
<1>6. CASE loc[c].call = "array"
    <2>1. ArrayShape("probe", loc[c])
        BY <1>0, <1>6, NoLocalsFacts DEF Shape
    <2>2. CASE loc[c].found = "link"
        BY <1>0, <1>1, <1>6, <2>1, <2>2 DEF ArrayShape, ArrayOK
    <2>3. CASE loc[c].found = "cut"
        <3>1. loc[c].arr \in Arrays /\ loc[c].idx \in 1..Size(loc[c].arr) /\ loc[c].key = Kid(loc[c])
            BY <2>1, <2>3 DEF ArrayShape
        <3>2. loc[c].key \in Keys
            BY <1>0, <3>1, ConfFacts DEF Kid, Types
        <3>3. ~loc[c].sig
            <4>1. Size(loc[c].arr) \in Nat
                BY <1>0, <3>1, ConfFacts DEF Types
            <4> QED BY <2>1, <3>1, <4>1 DEF ArrayShape
        <3>4. Undoing(c)
            BY <1>6, <2>3, <3>3 DEF Undoing, Failing
        <3> QED BY <1>1, <1>6, <2>3, <3>2, <3>4
    <2>4. CASE loc[c].found \notin {"link", "cut"}
        BY <1>1, <1>6, <2>1, <2>4 DEF ArrayShape, IsCreate
    <2> QED BY <2>2, <2>3, <2>4
<1> QED BY <1>0, <1>2, <1>3, <1>4, <1>5, <1>6 DEF Shape

(* A client at a lookup went on with it, or has just begun it. *)
LEMMA ProbeFrom ==
    ASSUME IInv, [Next]_vars, NEW c \in Clients, pc'[c] = "probe"
    PROVE  \/ pc[c] = "probe" /\ loc'[c] = loc[c] /\ ~Step(c)
           \/ /\ Probe(c) /\ pc[c] = "probe" /\ tbl' = tbl /\ Same(loc'[c], loc[c], {"step"})
              /\ loc'[c].step = loc[c].step + 1
              /\ ~Matches(loc[c].op, ProbeAt(loc[c].key, loc[c].step), loc[c].key)
           \/ loc'[c].step = 0
<1>0. Types /\ Shapes /\ TableOK
    BY DEF IInv
<1>1. CASE Call(c)
    <2>1. Goes(c, "clear") => pc'[c] = "clear"
        BY DEF Goes
    <2> QED BY <1>1, <2>1, CallStarts DEF Begins
<1>2. CASE Step(c)
    <2> USE DEF Goes, Entered
    <2>1. CASE pc[c] = "probe"
        <3>1. Probe(c) /\ loc[c].found # "probe" /\ loc[c].failed # "probe"
            <4>1. Shape("probe", loc[c])
                BY <1>0, <2>1 DEF Shapes
            <4> QED BY <1>2, <2>1, <4>1, StepAt, NoLocalsFacts DEF Shape, ArrayShape
        <3> QED BY <1>0, <2>1, <3>1, ProbeGoes
    <2>2. CASE pc[c] \in {"enable", "disable", "recheck"}
        BY <1>0, <1>2, <2>2, StepAt, ReturnGoes DEF Enable, Disable, Recheck
    <2>3. CASE pc[c] = "register"
        BY <1>0, <1>2, <2>3, StepAt, RegisterGoes
    <2>4. CASE pc[c] = "mask"
        BY <1>0, <1>2, <2>4, StepAt, MaskGoes
    <2>5. CASE pc[c] = "child"
        BY <1>0, <1>2, <2>5, StepAt, ChildGoes
    <2>6. CASE pc[c] = "link"
        <3>1. tbl[loc[c].join].pending = 1 => loc[c].idx = Size(loc[c].arr)
            BY <2>6, LastIsLast
        <3> QED BY <1>0, <1>2, <2>6, <3>1, StepAt, LinkGoes
    <2>7. CASE pc[c] = "store"
        BY <1>0, <1>2, <2>7, StepAt, StoreGoes
    <2>8. CASE pc[c] = "sigjoin"
        BY <1>0, <1>2, <2>8, StepAt, SignalJoinGoes
    <2>9. CASE pc[c] = "unlink"
        BY <1>0, <1>2, <2>9, StepAt, UnlinkGoes
    <2>10. CASE pc[c] \in {"cut", "next"}
        BY <1>0, <1>2, <2>10, StepAt, BackGoes
    <2>11. CASE pc[c] = "clear"
        BY <1>0, <1>2, <2>11, StepAt, ClearGoes
    <2>12. CASE pc[c] = "check"
        BY <1>0, <1>2, <2>12, StepAt, OwnerGoes
    <2>13. CASE pc[c] = "error"
        <3>1. loc[c].call = "reset"
            BY <1>0, <2>13, NoLocalsFacts DEF Shapes, Shape, ArrayShape
        <3>2. loc[c].slot \in Slots /\ tbl[loc[c].slot].owner = c
            BY <2>13, <3>1 DEF IInv, ResetsOK, ResetOK, Types, LocType
        <3>3. EntryOK(tbl[loc[c].slot]) /\ tbl[loc[c].slot].key \in Keys \cup {NoKey}
            BY <1>0, <3>2 DEF TableOK, Types, EntryType
        <3>4. tbl[loc[c].slot].key \in Fences
            BY <3>2, <3>3, ClientsAssumption DEF EntryOK, Keys
        <3> QED BY <1>0, <1>2, <2>13, <3>4, StepAt, ErrorGoes
    <2>14. CASE pc[c] = "advance"
        BY <1>0, <1>2, <2>14, StepAt, NextEntryGoes
    <2> QED BY <1>0, <1>2, <2>1, <2>2, <2>3, <2>4, <2>5, <2>6, <2>7, <2>8, <2>9, <2>10, <2>11, <2>12,
               <2>13, <2>14, StepGoes DEF Types, Labels
<1> QED BY <1>1, <1>2, CallsMove

(* Every step keeps what a lookup is after ahead of it. *)
LEMMA AheadStep == IInv /\ [Next]_vars => \A c \in Clients : Ahead(c)'
<1> SUFFICES ASSUME IInv, [Next]_vars, NEW c \in Clients, pc'[c] = "probe", ~IsCreate(loc'[c].op),
                    NEW e \in Slots, tbl'[e].key = loc'[c].key,
                    loc'[c].found = "cut" => Pointing(e, loc[c].join)'
             PROVE  \E i \in loc'[c].step..(Entries - 1) : e = ProbeAt(loc'[c].key, i)
    BY DEF Ahead, AheadOf, IsCreate, ProbeAt
<1>0. Types /\ Shapes /\ TableOK
    BY DEF IInv
<1>1. CASE loc'[c].step = 0
    <2>1. loc'[c].key \in Keys \cup {NoKey}
        BY TypesStep DEF Types, LocType
    <2> QED BY <1>1, <2>1, ProbeCovers
<1>2. CASE /\ Probe(c) /\ pc[c] = "probe" /\ tbl' = tbl /\ Same(loc'[c], loc[c], {"step"})
           /\ loc'[c].step = loc[c].step + 1
           /\ ~Matches(loc[c].op, ProbeAt(loc[c].key, loc[c].step), loc[c].key)
    <2>1. PICK l \in LocType : l = loc[c]
        BY <1>0 DEF Types
    <2>2. /\ loc'[c].key = l.key /\ loc'[c].op = l.op /\ loc'[c].found = l.found /\ loc'[c].join = l.join
          /\ loc'[c].step = l.step + 1
        BY <1>2, <2>1 DEF Same
    <2>3. l.found = "cut" => Pointing(e, l.join)
        BY <1>2, <2>1, <2>2 DEF Pointing
    <2>4. AheadOf(c, e)
        BY <1>2, <2>1, <2>2, <2>3 DEF IInv, SearchOK, Ahead, IsCreate
    <2>5. PICK i \in l.step..(Entries - 1) : e = ProbeAt(l.key, i)
        BY <2>1, <2>4 DEF AheadOf
    <2>6. i # l.step
        BY <1>2, <2>1, <2>2, <2>5 DEF Matches, IsCreate
    <2>7. l.step \in Nat /\ Entries \in Nat
        BY EntriesAssumption DEF LocType, Slots
    <2>8. i \in (l.step + 1)..(Entries - 1)
        BY <2>6, <2>7
    <2> QED BY <2>2, <2>5, <2>8
<1>3. CASE pc[c] = "probe" /\ loc'[c] = loc[c] /\ ~Step(c)
    <2>1. PICK l \in LocType : l = loc[c]
        BY <1>0 DEF Types
    <2>2. l.key \in Keys /\ tbl'[e].key = l.key /\ ~IsCreate(l.op)
        BY <1>3, <2>1, LookupKeys DEF IsCreate
    <2>3. ASSUME l.found = "cut"
          PROVE  Pointing(e, l.join) /\ tbl'[e].key = tbl[e].key
        <3>0. l.call = "array" /\ Undoing(c)
            <4>1. Shape("probe", l) /\ l.found = "cut"
                BY <1>0, <1>3, <2>1, <2>3 DEF Shapes
            <4>2. l.call = "array"
                BY <4>1, NoLocalsFacts DEF Shape
            <4>3. ArrayShape("probe", l)
                BY <4>1, <4>2, NoLocalsFacts DEF Shape
            <4>4. l.arr \in Arrays /\ l.idx \in 1..Size(l.arr)
                BY <4>1, <4>3 DEF ArrayShape
            <4>5. Size(l.arr) \in Nat
                BY <1>0, <4>4, ConfFacts DEF Types
            <4>6. ~l.sig
                BY <4>3, <4>4, <4>5 DEF ArrayShape
            <4> QED BY <2>1, <2>3, <4>2, <4>6 DEF Undoing, Failing
        <3>1. l.join \in Slots /\ Live(c) /\ JoinOf(c) = l.join
            BY <2>1, <3>0, UndoLive
        <3>2. PICK s \in Slots : s = l.join
            BY <3>1
        <3>3. Pointing(e, s)'
            BY <1>3, <2>1, <2>3, <3>2 DEF Pointing
        <3>4. ASSUME NEW o \in Clients, Appends(o), s = loc[o].join PROVE FALSE
            <4>1. o # c
                BY <1>3, <3>4, AppendsAt
            <4>2. Live(o) /\ JoinOf(o) = s
                BY <3>4, AppendsAt
            <4> QED BY <3>1, <3>2, <4>1, <4>2, JoinsApart
        <3> QED BY <3>2, <3>3, <3>4, PointingFrom
    <2>4. ASSUME NEW o \in Clients, NewEntry(o, e) PROVE FALSE
        <3>1. loc[o].key = l.key /\ pc[o] = "probe"
            BY <2>2, <2>4 DEF NewEntry
        <3>2. CASE l.key \in Fences
            <4>1. loc[o].call = "create" /\ l.key \notin done /\ l.key \notin enabled
                BY <2>4, <3>1, <3>2 DEF NewEntry
            <4>2. o # c
                <5>1. loc[o].op = "create"
                    BY <1>0, <4>1, NoLocalsFacts DEF Shapes, Shape
                <5> QED BY <2>1, <2>2, <5>1 DEF IsCreate
            <4>3. l.key \notin Arrays
                BY <3>2, KeysAssumption
            <4>4. l.found # "cut"
                BY <2>3, <2>4, <3>1 DEF NewEntry
            <4> QED BY <1>3, <2>1, <2>2, <3>1, <4>1, <4>2, <4>3, <4>4, LookupKeys
        <3>3. CASE l.key \in Arrays
            <4>1. loc[o].call = "array" /\ loc[o].op = "join" /\ loc[o].arr = l.key
                BY <2>4, <3>1, <3>3 DEF NewEntry
            <4>2. o # c
                BY <2>1, <2>2, <4>1 DEF IsCreate
            <4>3. l.key \notin Fences
                BY <3>3, KeysAssumption
            <4>4. l.found # "cut"
                BY <2>3, <2>4, <3>1 DEF NewEntry
            <4>5. l.call = "array" /\ l.arr = l.key
                BY <1>3, <2>1, <2>2, <4>3, <4>4, LookupKeys
            <4> QED BY <2>1, <4>1, <4>2, <4>5 DEF IInv, CallsOK, ArrayOK
        <3> QED BY <2>2, <3>2, <3>3 DEF Keys
    <2>5. tbl'[e] # FreeEntry
        BY <1>0, <2>2, FreshFacts, KeysAssumption
    <2>6. tbl[e].key = l.key
        BY <2>2, <2>4, <2>5, KeysAfter
    <2>7. AheadOf(c, e)
        BY <1>3, <2>1, <2>2, <2>3, <2>6 DEF IInv, SearchOK, Ahead
    <2> QED BY <1>3, <2>7 DEF AheadOf
<1> QED BY <1>1, <1>2, <1>3, ProbeFrom

(* A call that fails after it was making its links. *)
LEMMA UndoBegins ==
    ASSUME IInv, NEW c \in Clients, Live(c), ~Undoing(c), pc[c] # "mask",
           NEW e \in Slots, Pointing(e, loc[c].join)
    PROVE  \E i \in 1..(loc[c].idx - 1) : tbl[e].key = Children[loc[c].arr][i]
<1>1. /\ JoinOf(c) = loc[c].join /\ JoinOf(c) \in Slots /\ tbl[JoinOf(c)].key = loc[c].arr
      /\ tbl[JoinOf(c)].owner = JoinClient /\ JoinHas(JoinOf(c), loc[c].idx)
    BY AtChild DEF JoinOf
<1>2. PICK j \in Slots : j = loc[c].join /\ tbl[j].key = loc[c].arr /\ JoinHas(j, loc[c].idx)
    BY <1>1
<1>3. PICK h \in 1..(Size(tbl[j].key) + 1) : h = loc[c].idx
    BY <1>2 DEF JoinHas
<1>4. \E i \in 1..(h - 1) : Children[tbl[j].key][i] = tbl[e].key
    BY <1>2, <1>3, PointsOccurs
<1> QED BY <1>2, <1>3, <1>4

(* Every step keeps the links of a failing call within reach. *)
LEMMA UndoStep == IInv /\ [Next]_vars => \A c \in Clients : UndoOK(c)'
<1>a. [Next]_vars => Children' = Children
    BY ConfFixed DEF Children
<1> SUFFICES ASSUME IInv, [Next]_vars, NEW c \in Clients, Undoing(c)',
                    NEW e \in Slots, Pointing(e, loc[c].join)'
             PROVE  /\ \E i \in 1..loc'[c].idx : /\ tbl'[e].key = Children[loc'[c].arr][i]
                                                 /\ pc'[c] = "next" => i < loc'[c].idx
                    /\ pc'[c] = "cut" /\ tbl'[e].key = Children[loc'[c].arr][loc'[c].idx] => e = loc'[c].ent
    BY <1>a DEF UndoOK, Kid
<1>0. Types /\ Shapes /\ TableOK /\ conf' = conf
    BY ConfFixed DEF IInv
<1>1. PICK q \in LocType' : q = loc'[c]
    BY TypesStep DEF Types
<1>2. q.call = "array" /\ ~q.sig /\ (q.op = "destroy" \/ q.found = "cut" \/ pc'[c] \in {"unlink", "cut", "next"})
    BY <1>1 DEF Undoing, Failing
<1>3. PICK l \in LocType : l = loc[c]
    BY <1>0 DEF Types
<1>4. ASSUME pc'[c] = pc[c], loc'[c] = loc[c], ~Step(c)
      PROVE  /\ \E i \in 1..q.idx : /\ tbl'[e].key = Children[q.arr][i]
                                    /\ pc'[c] = "next" => i < q.idx
             /\ pc'[c] = "cut" /\ tbl'[e].key = Children[q.arr][q.idx] => e = q.ent
    <2>1. Undoing(c)
        BY <1>1, <1>2, <1>3, <1>4 DEF Undoing, Failing
    <2>2. l.join \in Slots /\ Live(c) /\ JoinOf(c) = l.join
        BY <1>3, <2>1, UndoLive
    <2>3. PICK s \in Slots : s = l.join
        BY <2>2
    <2>4. Pointing(e, s)'
        BY <1>1, <1>3, <1>4, <2>3 DEF Pointing
    <2>5. ASSUME NEW o \in Clients, Appends(o), s = loc[o].join PROVE FALSE
        <3>1. o # c /\ Live(o) /\ JoinOf(o) = s
            BY <2>1, <2>5, AppendsAt
        <3> QED BY <2>2, <2>3, <3>1, JoinsApart
    <2>6. Pointing(e, s) /\ tbl'[e].key = tbl[e].key
        BY <2>3, <2>4, <2>5, PointingFrom
    <2>7. UndoOK(c)
        BY DEF IInv, SearchOK
    <2> QED BY <1>1, <1>3, <1>4, <2>1, <2>3, <2>6, <2>7 DEF UndoOK, Kid
<1>5. ASSUME Step(c), l.call = "array"
      PROVE  /\ \E i \in 1..q.idx : /\ tbl'[e].key = Children[q.arr][i]
                                    /\ pc'[c] = "next" => i < q.idx
             /\ pc'[c] = "cut" /\ tbl'[e].key = Children[q.arr][q.idx] => e = q.ent
    <2>0. ArrayShape(pc[c], l) /\ l.arr \in Arrays
        BY <1>0, <1>3, <1>5, NoLocalsFacts DEF Shapes, Shape, ArrayShape
    <2>00. PICK n \in Nat : n = Size(l.arr)
        BY <1>0, <2>0, ConfFacts DEF Types
    <2>1. q # NoLocals /\ q.arr = l.arr
        BY <1>1, <1>2, <1>3, <1>5, StepGoes, NoLocalsFacts DEF Ends, Continues
    <2>2. ASSUME l.join \in Slots, q.join = l.join, pc[c] # "link" \/ pc'[c] # "child"
          PROVE  Pointing(e, l.join) /\ tbl'[e].key = tbl[e].key
        <3>1. PICK s \in Slots : s = l.join
            BY <2>2
        <3>2. Pointing(e, s)'
            BY <1>1, <2>2, <3>1 DEF Pointing
        <3>3. ASSUME NEW o \in Clients, Appends(o) PROVE o = c /\ pc[c] = "link" /\ pc'[c] = "child"
            <4>0. Link(o) /\ pc[o] = "link"
                BY <3>3 DEF Appends, Link
            <4>1. o = c
                <5>1. \E p : Goes(c, p)
                    BY <1>5, StepGoes
                <5>2. o # c => pc'[o] = pc[o]
                    BY <5>1 DEF Goes
                <5>3. pc'[o] # pc[o]
                    <6>1. tbl[loc[o].join].pending = 1 => loc[o].idx = Size(loc[o].arr)
                        BY <4>0, LastIsLast
                    <6> QED BY <1>0, <4>0, <6>1, LinkGoes DEF Goes
                <5> QED BY <5>2, <5>3
            <4>2. pc'[c] = "child"
                <5>1. ~tbl[loc[c].ent].signaled /\ ~TooMany(tbl[loc[c].ent].cnt + 1)
                    BY <3>3, <4>1 DEF Appends
                <5>2. tbl[loc[c].join].pending = 1 => loc[c].idx = Size(loc[c].arr)
                    BY <4>0, <4>1, LastIsLast
                <5> QED BY <1>0, <4>0, <4>1, <5>1, <5>2, LinkGoes DEF Goes
            <4> QED BY <4>0, <4>1, <4>2
        <3> QED BY <2>2, <3>1, <3>2, <3>3, PointingFrom
    <2>3. ASSUME Live(c), ~Undoing(c), pc[c] # "mask", l.join \in Slots, q.join = l.join,
                 pc'[c] = "unlink", q.idx >= l.idx - 1, l.idx \in Int, q.idx \in Int
          PROVE  \E i \in 1..q.idx : tbl'[e].key = Children[q.arr][i]
        <3>1. Pointing(e, l.join) /\ tbl'[e].key = tbl[e].key
            BY <2>2, <2>3
        <3>2. PICK i \in 1..(l.idx - 1) : tbl[e].key = Children[l.arr][i]
            BY <1>3, <2>3, <3>1, UndoBegins
        <3>3. i \in 1..q.idx
            BY <2>3
        <3> QED BY <2>1, <3>1, <3>2, <3>3
    <2> USE DEF Goes, Entered, Same
    <2>4. CASE pc[c] = "child"
        <3>1. Child(c) /\ l.join \in Slots
            BY <1>5, <2>0, <2>4, StepAt DEF ArrayShape
        <3>2. l.idx <= n /\ pc'[c] = "unlink" /\ q = l
            BY <1>0, <1>1, <1>2, <1>3, <2>0, <2>00, <2>4, <3>1, ChildGoes DEF ArrayShape
        <3>3. Live(c) /\ ~Undoing(c) /\ l.idx \in Int
            BY <1>3, <1>5, <2>0, <2>00, <2>4, <3>2 DEF Live, Making, Undoing, Failing, ArrayShape, LocType
        <3> QED BY <2>3, <2>4, <3>1, <3>2, <3>3
    <2>5. CASE pc[c] = "link"
        <3>1. Link(c) /\ (tbl[l.join].pending = 1 => l.idx = Size(l.arr)) /\ l.join \in Slots
              /\ Live(c) /\ ~Undoing(c) /\ l.idx \in Int /\ l.found = "link" /\ l.op = "find"
            BY <1>3, <1>5, <2>0, <2>5, StepAt, LastIsLast DEF ArrayShape, LocType
        <3>2. pc'[c] = "unlink" /\ q = l
            BY <1>0, <1>1, <1>2, <1>3, <3>1, LinkGoes
        <3> QED BY <2>3, <2>5, <3>1, <3>2
    <2>6. CASE pc[c] = "store"
        <3>1. StoreData(c) /\ l.join \in Slots /\ l.idx = n + 1 /\ l.op # "destroy" /\ l.found # "cut"
            BY <1>5, <2>0, <2>00, <2>6, StepAt DEF ArrayShape
        <3>2. /\ ~l.sig /\ n = 0 /\ pc'[c] = "unlink" /\ Same(q, l, {"idx"}) /\ q.idx = 0
            BY <1>0, <1>1, <1>2, <1>3, <2>00, <2>1, <3>1, StoreGoes
        <3>3. Live(c) /\ ~Undoing(c)
            BY <1>3, <1>5, <2>00, <2>6, <3>1, <3>2 DEF Live, Making, Undoing, Failing
        <3> QED BY <2>3, <2>6, <3>1, <3>2, <3>3
    <2>7. CASE pc[c] = "probe" /\ l.found = "link"
        <3>1. l.op = "find" /\ l.failed = "unlink" /\ l.join \in Slots /\ l.idx \in 1..n
            BY <2>0, <2>00, <2>7 DEF ArrayShape
        <3>2. Found(c)
            BY <1>3, <1>5, <2>7, <3>1, StepAt, FindGoes
        <3>3. pc'[c] = "unlink" /\ q = l
            BY <1>1, <1>2, <1>3, <2>7, <3>1, <3>2 DEF Found
        <3>4. Live(c) /\ ~Undoing(c)
            BY <1>3, <1>5, <2>00, <2>7, <3>1 DEF Live, Making, Undoing, Failing
        <3> QED BY <2>3, <2>7, <3>1, <3>3, <3>4
    <2>8. CASE Undoing(c)
        <3>0. l.join \in Slots /\ l.idx \in 0..n /\ ~l.sig /\ pc[c] \in {"unlink", "probe", "cut", "next"}
            BY <1>3, <2>00, <2>8, UndoLive
        <3>1. ASSUME Pointing(e, l.join)
              PROVE  /\ \E i \in 1..l.idx : tbl[e].key = Children[l.arr][i] /\ (pc[c] = "next" => i < l.idx)
                     /\ pc[c] = "cut" /\ tbl[e].key = Kid(l) => e = l.ent
            BY <1>3, <2>8, <3>1 DEF IInv, SearchOK, UndoOK
        <3>2. CASE pc[c] = "unlink"
            <4>1. Unlink(c)
                BY <1>5, <3>2, StepAt
            <4>2. pc'[c] = "probe" /\ q.idx = l.idx /\ q.join = l.join
                BY <1>0, <1>1, <1>3, <4>1, UnlinkGoes
            <4> QED BY <2>1, <2>2, <3>0, <3>1, <3>2, <4>2
        <3>3. CASE pc[c] = "next"
            <4>1. SkipChild(c)
                BY <1>5, <3>3, StepAt
            <4>2. pc'[c] = "unlink" /\ q.idx = l.idx - 1 /\ q.join = l.join
                BY <1>0, <1>1, <1>3, <4>1, BackGoes
            <4>3. Pointing(e, l.join) /\ tbl'[e].key = tbl[e].key
                BY <2>2, <3>0, <3>3, <4>2
            <4>4. PICK i \in 1..l.idx : tbl[e].key = Children[l.arr][i] /\ i < l.idx
                BY <3>1, <3>3, <4>3
            <4>5. i \in 1..q.idx
                BY <3>0, <4>2, <4>4
            <4> QED BY <2>1, <4>2, <4>3, <4>4, <4>5
        <3>4. CASE pc[c] = "cut"
            <4>1. Cut(c) /\ l.ent \in Slots
                BY <1>5, <2>0, <3>4, StepAt DEF ArrayShape
            <4>2. pc'[c] = "unlink" /\ q.idx = l.idx - 1 /\ q.join = l.join
                BY <1>0, <1>1, <1>3, <4>1, BackGoes
            <4>3. Pointing(e, l.join) /\ tbl'[e].key = tbl[e].key
                BY <2>2, <3>0, <3>4, <4>2
            <4>4. e # l.ent
                <5>1. /\ tbl'[l.ent].cnt <= tbl[l.ent].cnt
                      /\ tbl'[l.ent].parents = [i \in 1..MaxParents |->
                            IF i \in 1..tbl[l.ent].cnt /\ tbl[l.ent].parents[i] = l.join
                            THEN NoSlot ELSE tbl[l.ent].parents[i]]
                    BY <1>0, <1>3, <4>1, CutTable
                <5>2. SUFFICES ASSUME e = l.ent PROVE FALSE
                    OBVIOUS
                <5>3. PICK x \in 1..tbl'[e].cnt : tbl'[e].parents[x] = l.join
                    BY <1>1, <4>2 DEF Pointing
                <5>4. tbl[e].cnt \in 0..(MaxParents - 1) /\ MaxParents \in Nat
                    BY <1>0, ConfFacts DEF Types, EntryType
                <5>5. tbl'[e].cnt \in Int
                    <6>1. tbl'[e] \in EntryType'
                        BY TypesStep DEF Types
                    <6> QED BY <6>1, <1>0, <5>4 DEF EntryType, MaxParents
                <5>6. x \in 1..tbl[e].cnt /\ x \in 1..MaxParents
                    BY <5>1, <5>2, <5>3, <5>4, <5>5
                <5>7. tbl'[e].parents[x] = IF x \in 1..tbl[e].cnt /\ tbl[e].parents[x] = l.join
                                           THEN NoSlot ELSE tbl[e].parents[x]
                    BY <5>1, <5>2, <5>6
                <5>8. l.join # NoSlot
                    BY <3>0, EntriesAssumption DEF Slots, NoSlot
                <5> QED BY <5>3, <5>6, <5>7, <5>8
            <4>5. PICK i \in 1..l.idx : tbl[e].key = Children[l.arr][i]
                BY <3>1, <4>3
            <4>6. i # l.idx
                BY <3>1, <3>4, <4>3, <4>4, <4>5 DEF Kid
            <4>7. i \in 1..q.idx
                BY <3>0, <4>2, <4>6
            <4> QED BY <2>1, <4>2, <4>3, <4>5, <4>7
        <3>5. CASE pc[c] = "probe" /\ l.found = "cut"
            <4>1. l.op = "find" /\ l.failed = "next" /\ l.idx \in 1..n /\ l.key = Kid(l)
                BY <2>0, <2>00, <3>5 DEF ArrayShape
            <4>2. Found(c)
                BY <1>3, <1>5, <3>5, <4>1, StepAt, FindGoes
            <4>3. /\ q.idx = l.idx /\ q.join = l.join
                  /\ \/ pc'[c] = "cut" /\ q.ent = ProbeAt(l.key, l.step) /\ tbl[q.ent].key = l.key
                     \/ /\ pc'[c] = "next" /\ l.step + 1 = Entries
                        /\ tbl[ProbeAt(l.key, l.step)].key # l.key
                     \/ pc'[c] = "probe"
                BY <1>1, <1>3, <3>5, <4>1, <4>2 DEF Found
            <4>4. Pointing(e, l.join) /\ tbl'[e].key = tbl[e].key
                BY <2>2, <3>0, <3>5, <4>3
            <4>5. PICK i \in 1..l.idx : tbl[e].key = Children[l.arr][i]
                BY <3>1, <4>4
            <4>6. CASE pc'[c] = "cut" /\ q.ent = ProbeAt(l.key, l.step) /\ tbl[q.ent].key = l.key
                <5>1. tbl[e].key = Kid(l) => e = q.ent
                    <6>1. q.ent \in Slots /\ tbl[e].valid
                        BY <1>3, <4>2, <4>4, <4>6 DEF Found, Pointing
                    <6> QED BY <1>0, <4>1, <4>6, <6>1 DEF TableOK
                <5> QED BY <2>1, <4>3, <4>4, <4>5, <4>6, <5>1 DEF Kid
            <4>7. CASE pc'[c] = "next" /\ l.step + 1 = Entries /\ tbl[ProbeAt(l.key, l.step)].key # l.key
                <5>1. tbl[e].key # l.key
                    <6>1. SUFFICES ASSUME tbl[e].key = l.key PROVE FALSE
                        OBVIOUS
                    <6>2. AheadOf(c, e)
                        BY <1>3, <3>5, <4>1, <4>4, <6>1 DEF IInv, SearchOK, Ahead, IsCreate
                    <6>3. PICK x \in l.step..(Entries - 1) : e = ProbeAt(l.key, x)
                        BY <1>3, <6>2 DEF AheadOf
                    <6>4. l.step \in Int /\ Entries \in Int
                        BY EntriesAssumption DEF LocType, Slots
                    <6>5. x = l.step
                        BY <4>7, <6>4
                    <6> QED BY <4>7, <6>1, <6>3, <6>5
                <5>2. i # l.idx
                    BY <4>1, <4>5, <5>1 DEF Kid
                <5>3. i < l.idx
                    BY <4>1, <5>2
                <5> QED BY <2>1, <4>3, <4>4, <4>5, <4>7, <5>3
            <4>8. CASE pc'[c] = "probe"
                BY <2>1, <4>3, <4>4, <4>5, <4>8
            <4> QED BY <4>3, <4>6, <4>7, <4>8
        <3>6. CASE pc[c] = "probe" /\ l.op = "destroy"
            <4>1. Probe(c) /\ l.found = "idle" /\ l.failed = "idle"
                BY <1>5, <2>0, <3>6, StepAt DEF ArrayShape
            <4>2. pc'[c] = "probe" /\ Same(q, l, {"step"})
                BY <1>0, <1>1, <1>3, <2>1, <4>1, ProbeGoes
            <4> QED BY <2>1, <2>2, <3>0, <3>1, <3>6, <4>2
        <3> QED BY <1>3, <2>8, <3>0, <3>2, <3>3, <3>4, <3>5, <3>6 DEF Undoing, Failing
    <2>9. CASE pc[c] = "mask"
        <3>1. MaskJoin(c) /\ l.op = "join" /\ l.found = "mask"
            BY <1>5, <2>0, <2>9, StepAt DEF ArrayShape
        <3> QED BY <1>0, <1>1, <1>2, <1>3, <3>1, MaskGoes
    <2>10. CASE pc[c] = "sigjoin"
        <3>1. SignalJoin(c) /\ l.sig
            BY <1>5, <2>0, <2>10, StepAt DEF ArrayShape
        <3> QED BY <1>0, <1>1, <1>2, <1>3, <3>1, SignalJoinGoes
    <2>11. CASE pc[c] = "probe" /\ l.op = "join"
        <3>1. Probe(c) /\ l.found = "mask" /\ l.failed = "idle"
            BY <1>5, <2>0, <2>11, StepAt DEF ArrayShape
        <3> QED BY <1>0, <1>1, <1>2, <1>3, <2>1, <2>11, <3>1, ProbeGoes
    <2>12. CASE pc[c] = "probe" /\ l.op = "destroy" /\ l.sig
        <3>1. Probe(c) /\ l.found = "idle" /\ l.failed = "idle"
            BY <1>5, <2>0, <2>12, StepAt DEF ArrayShape
        <3> QED BY <1>0, <1>1, <1>2, <1>3, <2>1, <2>12, <3>1, ProbeGoes
    <2>13. (pc[c] = "probe" /\ l.op = "destroy" /\ ~l.sig) \/ l.found = "cut"
           \/ pc[c] \in {"unlink", "cut", "next"} => Undoing(c) \/ l.sig
        BY <1>3, <1>5 DEF Undoing, Failing
    <2>14. pc[c] \in {"unlink", "cut", "next"} \/ (l.found = "cut" /\ pc[c] = "probe") => ~l.sig
        BY <2>0, <2>00 DEF ArrayShape
    <2> QED BY <2>0, <2>4, <2>5, <2>6, <2>7, <2>8, <2>9, <2>10, <2>11, <2>12, <2>13, <2>14 DEF ArrayShape
<1>6. CASE Step(c)
    <2>1. l.call = "array"
        BY <1>1, <1>2, <1>3, <1>6, StepGoes, NoLocalsFacts DEF Ends, Continues
    <2> QED BY <1>1, <1>5, <1>6, <2>1
<1>7. CASE Call(c)
    <2>1. \E a \in Arrays : Begins(c, "array", a, "join", a, "mask")
        BY <1>1, <1>2, <1>7, CallStarts DEF Begins
    <2>2. q.op = "join" /\ q.found = "mask" /\ pc'[c] = "probe"
        BY <1>1, <2>1 DEF Begins, Goes
    <2> QED BY <1>2, <2>2
<1> QED BY <1>1, <1>4, <1>6, <1>7, CallsMove

(* Every step keeps what the lookups rely on. *)
LEMMA SearchStep == IInv /\ [Next]_vars => SearchOK'
BY AheadStep, UndoStep DEF SearchOK
----------------------------------------------------------------------------
(* The counts of the joins after a step. *)
JoinKnown(j) == \E h \in 1..(Size(tbl[j].key) + 1) : JoinHas(j, h)
StillLeft(a, h) == {i \in 1..Size(a) : i >= h \/ Children[a][i] \notin done'}
JoinNext(j, a, h) ==
    /\ tbl'[j].key = a
    /\ Cardinality(StillLeft(a, h)) <= tbl'[j].pending
    /\ \A e \in Slots : tbl'[e].valid /\ ~tbl'[e].signaled
                        => Times(e, j)' <= Cardinality(Occurs(a, h, tbl'[e].key))
    /\ (\A c \in Clients : loc'[c].arr # a) => h = Size(a) + 1
    /\ \A c \in Clients : loc'[c].arr = a => Handled(c, h)'
    /\ tbl'[j].pending = 0 => Size(a) = 0 \/ \E c \in Clients : loc'[c].arr = a /\ loc'[c].sig

(* The next state of a join, with the array named. *)
LEMMA JoinThen ==
    ASSUME NEW j \in Slots, NEW a \in Arrays, NEW h \in 1..(Size(a) + 1), conf' = conf,
           JoinNext(j, a, h)
    PROVE  JoinKnown(j)'
<1>1. tbl'[j].key = a
    BY DEF JoinNext
<1>2. Size(tbl[j].key)' = Size(a)
    BY <1>1 DEF Size, Children
<1>3. Left(tbl[j].key, h)' = StillLeft(a, h)
    BY <1>1 DEF Left, StillLeft, Size, Children
<1>4. \A e \in Slots : Occurs(tbl[j].key, h, tbl[e].key)' = Occurs(a, h, tbl'[e].key)
    BY <1>1 DEF Occurs, Children
<1>5. Makers(j)' = {c \in Clients : loc'[c].arr = a}
    BY <1>1 DEF Makers
<1>6. JoinHas(j, h)'
    BY <1>1, <1>2, <1>3, <1>4, <1>5 DEF JoinHas, JoinNext
<1> QED BY <1>2, <1>6 DEF JoinKnown

(* The links to a join that no call adds to. *)
LEMMA TimesKept ==
    ASSUME IInv, [Next]_vars, NEW j \in Slots, NEW a \in Arrays, NEW h \in 1..(Size(a) + 1),
           tbl[j].key = a, JoinHas(j, h), NEW e \in Slots, tbl'[e].valid, ~tbl'[e].signaled,
           \A c \in Clients : Appends(c) /\ e = loc[c].ent => j # loc[c].join
    PROVE  Times(e, j)' <= Cardinality(Occurs(a, h, tbl'[e].key))
<1>1. TimesMove(e, j)
    BY TimesAfter
<1>2. Times(e, j) \in Nat /\ Times(e, j)' \in Nat
    BY <1>1, TimesFacts DEF TimesMove, IInv
<1>3. h \in Int /\ conf \in Configs
    BY ConfFacts DEF IInv, Types
<1>4. PICK k : k = tbl'[e].key
    OBVIOUS
<1>5. Cardinality(Occurs(a, h, k)) \in Nat
    BY <1>3, LeftFinite
<1>6. CASE Times(e, j)' = 0
    BY <1>4, <1>5, <1>6
<1>7. CASE tbl[e].valid /\ ~tbl[e].signaled /\ tbl'[e].key = tbl[e].key /\ Times(e, j)' <= Times(e, j)
    <2>1. Times(e, j) <= Cardinality(Occurs(a, h, k))
        BY <1>4, <1>7 DEF JoinHas
    <2> QED BY <1>2, <1>4, <1>5, <1>7, <2>1
<1> QED BY <1>1, <1>6, <1>7 DEF TimesMove

(* Only counting a child off changes what a join has pending. *)
LEMMA PendingKept ==
    ASSUME IInv, NEW c \in Clients, Call(c) \/ Step(c), NEW j \in Slots,
           tbl[j].owner = JoinClient, tbl'[j].owner = JoinClient
    PROVE  \/ tbl'[j].pending = tbl[j].pending
           \/ CountsOff(c) /\ j = loc[c].join /\ tbl'[j].pending = tbl[j].pending - 1
<1>1. CASE Plain \/ Appends(c) \/ Blanks(c)
    BY <1>1 DEF Plain, Appends, Blanks, SamePending
<1>2. CASE CountsOff(c)
    BY <1>2 DEF CountsOff
<1>3. CASE \E e \in Slots : Reserves(c, e)
    <2>1. PICK e \in Slots : NewEntry(c, e)
        BY <1>3, ReservesNew
    <2>2. tbl[j].valid
        BY JoinPick
    <2> QED BY <2>1, <2>2 DEF NewEntry
<1>4. CASE \E e \in Slots : Frees(c, e)
    <2>1. PICK e \in Slots : OldEntry(c, e)
        BY <1>4, FreesOld
    <2>2. j # e
        BY <2>1, FreshFacts, ClientsAssumption DEF OldEntry, IInv
    <2> QED BY <2>1, <2>2 DEF OldEntry
<1> QED BY <1>1, <1>2, <1>3, <1>4, StepKinds

(* How a call that has its join goes on, and what that does to its counts. *)
NoLink(c) == ~Appends(c) /\ ~CountsOff(c)
GoesOn(c) ==
    LET l == loc[c]
        q == loc'[c]
        n == Size(l.arr)
    IN  /\ q.call = "array" /\ q.arr = l.arr
        /\ \/ NoLink(c) /\ q.idx = l.idx /\ q.sig = l.sig /\ (Undoing(c)' <=> Undoing(c))
           \/ NoLink(c) /\ Undoing(c)' /\ ~Undoing(c) /\ l.idx \in 1..n /\ q.idx = l.idx /\ q.sig = l.sig
           \/ NoLink(c) /\ Undoing(c)' /\ ~Undoing(c) /\ n = 0 /\ l.idx = 1 /\ q.idx = 0 /\ q.sig = l.sig
           \/ /\ NoLink(c) /\ Undoing(c)' /\ Undoing(c) /\ l.idx \in 1..n /\ q.idx = l.idx - 1
              /\ q.sig = l.sig
           \/ /\ CountsOff(c) /\ ~Undoing(c) /\ ~Undoing(c)' /\ l.idx \in 1..n /\ q.idx = l.idx + 1
              /\ q.sig <=> (tbl[l.join].pending = 1)
           \/ /\ Appends(c) /\ ~Undoing(c) /\ ~Undoing(c)' /\ l.idx \in 1..n /\ q.idx = l.idx + 1
              /\ q.sig = l.sig
Leaves(c) ==
    LET l == loc[c]
        n == Size(l.arr)
    IN  /\ Ends(c) /\ NoLink(c)
        /\ \/ pc[c] = "store" /\ ~l.sig /\ n # 0 /\ l.idx = n + 1 /\ ~Undoing(c)
           \/ pc[c] = "probe" /\ l.op = "destroy" /\ Probe(c)

(* What a call on an array does to its own join. *)
LEMMA OwnMoves ==
    ASSUME IInv, NEW c \in Clients, Step(c), conf' = conf, loc[c].call = "array", Making(c)
    PROVE  GoesOn(c) \/ Leaves(c)
<1>0. Types /\ Shapes /\ TableOK /\ ArrayShape(pc[c], loc[c])
    BY NoLocalsFacts DEF IInv, Shapes, Shape
<1>1. PICK l \in LocType : l = loc[c]
    BY <1>0 DEF Types
<1>2. PICK n \in Nat : n = Size(l.arr)
    BY <1>0, <1>1, ConfFacts DEF ArrayShape, Types
<1>3. PICK q : q = loc'[c]
    OBVIOUS
<1>4. pc[c] # "link" => NoLink(c)
    BY DEF NoLink, Appends, CountsOff, Link
<1>5. l.call = "array"
    BY <1>1
<1>6. Undoing(c) <=> (l.op = "destroy" \/ l.found = "cut" \/ pc[c] \in {"unlink", "cut", "next"}) /\ ~l.sig
    BY <1>1, <1>5 DEF Undoing, Failing
<1>7. Undoing(c)' <=> /\ q.op = "destroy" \/ q.found = "cut" \/ pc'[c] \in {"unlink", "cut", "next"}
                      /\ ~q.sig /\ q.call = "array"
    BY <1>3 DEF Undoing, Failing
<1> HIDE DEF Undoing
<1> USE DEF Goes, Same, Entered
<1>10. CASE pc[c] = "mask"
    <2>1. MaskJoin(c) /\ l.op = "join" /\ l.found = "mask"
        BY <1>0, <1>1, <1>10, StepAt DEF ArrayShape
    <2>2. pc'[c] = "child" /\ Same(q, l, {"join"})
        BY <1>0, <1>1, <1>3, <2>1, MaskGoes
    <2> QED BY <1>1, <1>3, <1>4, <1>5, <1>6, <1>7, <1>10, <2>1, <2>2 DEF GoesOn
<1>11. CASE pc[c] = "child"
    <2>1. Child(c) /\ l.op # "destroy" /\ l.found # "cut" /\ l.idx \in 1..(n + 1)
        BY <1>0, <1>1, <1>2, <1>11, StepAt DEF ArrayShape
    <2>2. \/ pc'[c] = "store" /\ q = l
          \/ l.idx <= n /\ pc'[c] = "unlink" /\ q = l
          \/ pc'[c] = "probe" /\ Entered(q, l, "find", Kid(l), "link", "unlink")
        BY <1>0, <1>1, <1>2, <1>3, <2>1, ChildGoes
    <2>3. l.idx <= n => l.idx \in 1..n
        BY <2>1
    <2>4. CASE l.sig
        BY <1>0, <1>1, <1>2, <1>3, <1>4, <1>5, <1>6, <1>7, <1>11, <2>1, <2>2, <2>4 DEF GoesOn, ArrayShape
    <2> QED BY <1>1, <1>2, <1>3, <1>4, <1>5, <1>6, <1>7, <1>11, <2>1, <2>2, <2>3, <2>4 DEF GoesOn
<1>12. CASE pc[c] = "store"
    <2>1. StoreData(c) /\ l.op # "destroy" /\ l.found # "cut" /\ l.idx = n + 1
        BY <1>0, <1>1, <1>2, <1>12, StepAt DEF ArrayShape
    <2>2. \/ l.sig /\ pc'[c] = "sigjoin" /\ q = l
          \/ ~l.sig /\ n = 0 /\ pc'[c] = "unlink" /\ Same(q, l, {"idx"}) /\ q.idx = 0
          \/ ~l.sig /\ n # 0 /\ Ends(c)
        BY <1>0, <1>1, <1>2, <1>3, <2>1, StoreGoes DEF Ends
    <2>3. n = 0 => l.idx = 1
        BY <2>1
    <2> QED BY <1>1, <1>2, <1>3, <1>4, <1>5, <1>6, <1>7, <1>12, <2>1, <2>2, <2>3 DEF GoesOn, Leaves
<1>13. CASE pc[c] = "sigjoin"
    <2>1. SignalJoin(c) /\ l.sig
        BY <1>0, <1>1, <1>13, StepAt DEF ArrayShape
    <2>2. pc'[c] = "probe" /\ Entered(q, l, "destroy", l.arr, "idle", "idle")
        BY <1>0, <1>1, <1>3, <2>1, SignalJoinGoes
    <2> QED BY <1>1, <1>3, <1>4, <1>5, <1>6, <1>7, <1>13, <2>1, <2>2 DEF GoesOn
<1>14. CASE pc[c] = "unlink"
    <2>1. Unlink(c) /\ ~l.sig
        BY <1>0, <1>1, <1>14, StepAt DEF ArrayShape
    <2>2. /\ pc'[c] = "probe"
          /\ \/ Entered(q, l, "find", Kid(l), "cut", "next")
             \/ Entered(q, l, "destroy", l.arr, "idle", "idle")
        BY <1>0, <1>1, <1>3, <2>1, UnlinkGoes
    <2> QED BY <1>1, <1>3, <1>4, <1>5, <1>6, <1>7, <1>14, <2>1, <2>2 DEF GoesOn
<1>15. CASE pc[c] \in {"cut", "next"}
    <2>1. (Cut(c) \/ SkipChild(c)) /\ l.idx \in 1..n /\ ~l.sig
        BY <1>0, <1>1, <1>2, <1>15, StepAt DEF ArrayShape
    <2>2. pc'[c] = "unlink" /\ Same(q, l, {"idx"}) /\ q.idx = l.idx - 1
        BY <1>0, <1>1, <1>3, <2>1, BackGoes
    <2> QED BY <1>1, <1>2, <1>3, <1>4, <1>5, <1>6, <1>7, <1>15, <2>1, <2>2 DEF GoesOn
<1>16. CASE pc[c] = "link"
    <2>1. Link(c) /\ (tbl[l.join].pending = 1 => l.idx = Size(l.arr)) /\ ArrayShape("link", l)
        BY <1>1, <1>16, StepAt, LastIsLast
    <2>2. l.idx \in 1..n /\ l.op = "find" /\ l.found = "link" /\ ~l.sig
        BY <1>2, <2>1 DEF ArrayShape
    <2>3. \/ /\ tbl[l.ent].signaled /\ pc'[c] = "child" /\ Same(q, l, {"idx", "sig"})
             /\ q.idx = l.idx + 1 /\ (q.sig <=> (tbl[l.join].pending = 1))
          \/ /\ ~tbl[l.ent].signaled /\ ~TooMany(tbl[l.ent].cnt + 1)
             /\ pc'[c] = "child" /\ Same(q, l, {"idx"}) /\ q.idx = l.idx + 1
          \/ /\ ~tbl[l.ent].signaled /\ TooMany(tbl[l.ent].cnt + 1)
             /\ pc'[c] = "unlink" /\ q = l
        BY <1>0, <1>1, <1>3, <2>1, LinkGoes
    <2>4. /\ CountsOff(c) => tbl[l.ent].signaled
          /\ Appends(c) => ~tbl[l.ent].signaled /\ ~TooMany(tbl[l.ent].cnt + 1)
        BY <1>1 DEF CountsOff, Appends
    <2>5. ~tbl[l.ent].signaled /\ TooMany(tbl[l.ent].cnt + 1) => NoLink(c)
        BY <2>4 DEF NoLink
    <2>6. (tbl[l.ent].signaled => CountsOff(c))
        BY <1>0, <1>1, <2>1, <2>3, LinkKinds
    <2>7. ~tbl[l.ent].signaled /\ ~TooMany(tbl[l.ent].cnt + 1) => Appends(c)
        BY <1>0, <1>1, <2>1, <2>3, LinkKinds
    <2>8. CASE tbl[l.ent].signaled
        BY <1>1, <1>2, <1>3, <1>5, <1>6, <1>7, <1>16, <2>2, <2>3, <2>6, <2>8 DEF GoesOn
    <2>9. CASE ~tbl[l.ent].signaled /\ ~TooMany(tbl[l.ent].cnt + 1)
        BY <1>1, <1>2, <1>3, <1>5, <1>6, <1>7, <1>16, <2>2, <2>3, <2>7, <2>9 DEF GoesOn
    <2>10. CASE ~tbl[l.ent].signaled /\ TooMany(tbl[l.ent].cnt + 1)
        BY <1>1, <1>2, <1>3, <1>5, <1>6, <1>7, <1>16, <2>2, <2>3, <2>5, <2>10 DEF GoesOn
    <2> QED BY <2>8, <2>9, <2>10
<1>17. CASE pc[c] = "probe" /\ l.op = "find"
    <2>1. /\ Found(c) /\ ~l.sig /\ l.idx \in 1..n
          /\ \/ l.found = "link" /\ l.failed = "unlink"
             \/ l.found = "cut" /\ l.failed = "next"
        BY <1>0, <1>1, <1>2, <1>17, StepAt, FindGoes DEF ArrayShape
    <2>2. \/ pc'[c] = l.found /\ Same(q, l, {"ent"})
          \/ pc'[c] = l.failed /\ q = l
          \/ pc'[c] = "probe" /\ Same(q, l, {"step"})
        BY <1>1, <1>3, <2>1 DEF Found
    <2> QED BY <1>1, <1>2, <1>3, <1>4, <1>5, <1>6, <1>7, <1>17, <2>1, <2>2 DEF GoesOn
<1>18. CASE pc[c] = "probe" /\ l.op = "destroy"
    <2>1. Probe(c) /\ l.found = "idle" /\ l.failed = "idle"
        BY <1>0, <1>1, <1>18, StepAt DEF ArrayShape
    <2>2. Ends(c) \/ (pc'[c] = "probe" /\ Same(q, l, {"step"}))
        BY <1>0, <1>1, <1>3, <2>1, ProbeGoes DEF Ends
    <2> QED BY <1>1, <1>2, <1>3, <1>4, <1>5, <1>6, <1>7, <1>18, <2>1, <2>2 DEF GoesOn, Leaves
<1> QED BY <1>0, <1>1, <1>10, <1>11, <1>12, <1>13, <1>14, <1>15, <1>16, <1>17, <1>18 DEF ArrayShape, Making

(* One child further. *)
LEMMA OccursMore ==
    ASSUME conf \in Configs, NEW a \in Arrays, NEW h \in 1..Size(a), NEW k
    PROVE  /\ Cardinality(Occurs(a, h, k)) \in Nat /\ Cardinality(Occurs(a, h + 1, k)) \in Nat
           /\ Cardinality(Occurs(a, h, k)) <= Cardinality(Occurs(a, h + 1, k))
           /\ Children[a][h] = k => Cardinality(Occurs(a, h + 1, k)) = Cardinality(Occurs(a, h, k)) + 1
<1>1. Size(a) \in Nat /\ h \in Int /\ h + 1 \in Int
    BY ConfFacts
<1>2. /\ IsFiniteSet(Occurs(a, h, k)) /\ IsFiniteSet(Occurs(a, h + 1, k))
      /\ Cardinality(Occurs(a, h, k)) \in Nat /\ Cardinality(Occurs(a, h + 1, k)) \in Nat
    BY <1>1, LeftFinite
<1>3. Occurs(a, h, k) \in SUBSET Occurs(a, h + 1, k)
    BY <1>1 DEF Occurs
<1>4. Cardinality(Occurs(a, h, k)) <= Cardinality(Occurs(a, h + 1, k))
    BY <1>2, <1>3, FS_Subset
<1>5. ASSUME Children[a][h] = k
      PROVE  Cardinality(Occurs(a, h + 1, k)) = Cardinality(Occurs(a, h, k)) + 1
    <2>1. Occurs(a, h + 1, k) = Occurs(a, h, k) \cup {h} /\ h \notin Occurs(a, h, k)
        BY <1>1, <1>5 DEF Occurs
    <2> QED BY <1>2, <2>1, FS_AddElement
<1> QED BY <1>2, <1>4, <1>5

(* Passing a child: it stays left unless it is signaled. *)
LEMMA LeftLess ==
    ASSUME conf \in Configs, NEW a \in Arrays, NEW h \in 1..Size(a)
    PROVE  /\ Cardinality(Left(a, h)) \in Nat /\ Cardinality(Left(a, h + 1)) \in Nat
           /\ Cardinality(Left(a, h + 1)) <= Cardinality(Left(a, h))
           /\ Children[a][h] \in done => Cardinality(Left(a, h + 1)) = Cardinality(Left(a, h)) - 1
<1>1. Size(a) \in Nat /\ h \in Int /\ h + 1 \in Int
    BY ConfFacts
<1>2. /\ IsFiniteSet(Left(a, h)) /\ IsFiniteSet(Left(a, h + 1))
      /\ Cardinality(Left(a, h)) \in Nat /\ Cardinality(Left(a, h + 1)) \in Nat
    BY <1>1, LeftFinite
<1>3. Left(a, h + 1) \in SUBSET Left(a, h)
    BY <1>1 DEF Left
<1>4. Cardinality(Left(a, h + 1)) <= Cardinality(Left(a, h))
    BY <1>2, <1>3, FS_Subset
<1>5. ASSUME Children[a][h] \in done
      PROVE  Cardinality(Left(a, h + 1)) = Cardinality(Left(a, h)) - 1
    <2>1. Left(a, h + 1) = Left(a, h) \ {h} /\ h \in Left(a, h)
        BY <1>1, <1>5 DEF Left
    <2> QED BY <1>2, <2>1, FS_RemoveElement
<1> QED BY <1>2, <1>4, <1>5

(* Only the client that moves appends. *)
LEMMA AppendsOnly ==
    ASSUME IInv, NEW c \in Clients, Call(c) \/ Step(c), NEW o \in Clients, Appends(o)
    PROVE  o = c
<1>0. Types /\ Shapes
    BY DEF IInv
<1>1. Link(o) /\ pc[o] = "link"
    BY DEF Appends, Link
<1>2. o # c => pc'[o] = pc[o]
    BY StepGoes, CallStarts DEF Goes
<1>3. tbl[loc[o].join].pending = 1 => loc[o].idx = Size(loc[o].arr)
    BY <1>1, LastIsLast
<1>4. pc'[o] # pc[o]
    BY <1>0, <1>1, <1>3, LinkGoes DEF Goes
<1> QED BY <1>2, <1>4

(* A join and a step of a client that has nothing to do with it. *)
LEMMA JoinOthers ==
    ASSUME IInv, [Next]_vars, NEW c \in Clients, Call(c) \/ Step(c),
           NEW j \in Slots, tbl[j].owner = JoinClient, tbl'[j].owner = JoinClient,
           tbl'[j].key = tbl[j].key, loc[c].arr # tbl[j].key, loc'[c].arr # tbl[j].key
    PROVE  JoinKnown(j)'
<1>0. Types /\ conf' = conf /\ conf \in Configs /\ Children' = Children
    BY ConfFixed DEF IInv, Types, Children
<1>1. PICK a \in Arrays : a = tbl[j].key
    BY JoinPick
<1>2. PICK h \in 1..(Size(a) + 1) : JoinHas(j, h)
    BY <1>1, JoinPick
<1>3. StillLeft(a, h) = Left(a, h)
    BY StepHistory DEF StillLeft, Left
<1>4. \A o \in Clients : o # c => pc'[o] = pc[o] /\ loc'[o] = loc[o]
    BY StepGoes, CallStarts DEF Goes
<1>5. ASSUME NEW o \in Clients, o # c, Handled(o, h) PROVE Handled(o, h)'
    BY <1>0, <1>4, <1>5 DEF Handled, Undoing, Failing, Size
<1>6. tbl'[j].pending = tbl[j].pending
    <2>1. ASSUME CountsOff(c), j = loc[c].join PROVE FALSE
        <3>1. pc[c] = "link"
            BY <2>1 DEF CountsOff, Link
        <3>2. tbl[loc[c].join].key = loc[c].arr
            BY <3>1, LastIsLast, AtChild
        <3> QED BY <2>1, <3>2
    <2> QED BY <2>1, PendingKept
<1>7. \A o \in Clients : Appends(o) => j # loc[o].join
    BY <1>1, AppendsOnly, AppendsAt
<1>8. \A e \in Slots : tbl'[e].valid /\ ~tbl'[e].signaled
                       => Times(e, j)' <= Cardinality(Occurs(a, h, tbl'[e].key))
    BY <1>1, <1>2, <1>7, TimesKept
<1>9. \A o \in Clients : loc'[o].arr = a <=> o \in Makers(j)
    BY <1>1, <1>4 DEF Makers
<1>10. \A o \in Clients : o \in Makers(j) => o # c /\ loc'[o].sig = loc[o].sig
    BY <1>1, <1>4 DEF Makers
<1>11. (\A o \in Clients : loc'[o].arr # a) => Makers(j) = {}
    BY <1>9 DEF Makers
<1>12. /\ Cardinality(Left(a, h)) <= tbl[j].pending
       /\ Makers(j) = {} => h = Size(a) + 1
       /\ \A o \in Makers(j) : Handled(o, h) /\ o \in Clients
       /\ tbl[j].pending = 0 => Size(a) = 0 \/ \E o \in Makers(j) : loc[o].sig
    BY <1>1, <1>2 DEF JoinHas, Makers
<1>13. JoinNext(j, a, h)
    BY <1>1, <1>3, <1>5, <1>6, <1>8, <1>9, <1>10, <1>11, <1>12 DEF JoinNext
<1> QED BY <1>0, <1>13, JoinThen

(* A join and a step of the call that made it. *)
LEMMA JoinOwn ==
    ASSUME IInv, [Next]_vars, NEW c \in Clients, Step(c), loc[c].call = "array",
           NEW j \in Slots, tbl[j].owner = JoinClient, tbl'[j].owner = JoinClient,
           tbl'[j].key = tbl[j].key, loc[c].arr = tbl[j].key
    PROVE  JoinKnown(j)'
<1>0. Types /\ TableOK /\ conf' = conf /\ conf \in Configs /\ Children' = Children /\ ArrayOK(c)
    BY ConfFixed DEF IInv, Types, Children, CallsOK
<1>1. PICK a \in Arrays : a = tbl[j].key
    BY JoinPick
<1>2. PICK n \in Nat : n = Size(a)
    BY <1>0, ConfFacts
<1>3. PICK h \in 1..(n + 1) : JoinHas(j, h)
    BY <1>1, <1>2, JoinPick
<1>4. \A x : StillLeft(a, x) = Left(a, x)
    BY StepHistory DEF StillLeft, Left
<1>5. PICK l \in LocType : l = loc[c]
    BY <1>0 DEF Types
<1>6. PICK q : q = loc'[c]
    OBVIOUS
<1>7. Making(c) /\ j = JoinOf(c)
    BY <1>0 DEF ArrayOK
<1>8. \A o \in Clients : loc'[o].arr = a => o = c
    <2>1. \A o \in Clients : o # c => loc'[o] = loc[o]
        BY StepGoes DEF Goes
    <2> QED BY <1>0, <1>1, <2>1 DEF ArrayOK
<1>9. Makers(j) = {c}
    BY <1>0 DEF ArrayOK, Makers
<1>10. /\ Cardinality(Left(a, h)) <= tbl[j].pending
       /\ Handled(c, h)
       /\ tbl[j].pending = 0 => n = 0 \/ l.sig
    BY <1>1, <1>2, <1>3, <1>5, <1>9 DEF JoinHas
<1>11. IF Undoing(c) THEN l.idx <= h /\ (h <= n \/ n = 0) ELSE h = l.idx
    BY <1>1, <1>2, <1>5, <1>10 DEF Handled
<1>12. ASSUME NEW x \in Int, q.arr = a,
              IF Undoing(c)' THEN q.idx <= x /\ (x <= n \/ n = 0) ELSE x = q.idx
       PROVE  Handled(c, x)'
    BY <1>0, <1>2, <1>6, <1>12 DEF Handled, Size
<1>13. l.idx \in Int /\ tbl[j].pending \in Int
    BY <1>0 DEF LocType, Types, EntryType
<1>14. ASSUME ~CountsOff(c) PROVE tbl'[j].pending = tbl[j].pending
    BY <1>14, PendingKept
<1>15. ASSUME NEW e \in Slots, tbl'[e].valid, ~tbl'[e].signaled, ~Appends(c) \/ e # l.ent
       PROVE  Times(e, j)' <= Cardinality(Occurs(a, h, tbl'[e].key))
    <2>1. \A o \in Clients : Appends(o) /\ e = loc[o].ent => j # loc[o].join
        BY <1>5, <1>15, AppendsOnly
    <2> QED BY <1>1, <1>2, <1>3, <1>15, <2>1, TimesKept
<1>16. ASSUME NoLink(c), q.arr = a, Handled(c, h)', q.sig = l.sig PROVE JoinNext(j, a, h)
    <2>1. tbl'[j].pending = tbl[j].pending
        BY <1>14, <1>16 DEF NoLink
    <2>2. \A e \in Slots : tbl'[e].valid /\ ~tbl'[e].signaled
                           => Times(e, j)' <= Cardinality(Occurs(a, h, tbl'[e].key))
        BY <1>15, <1>16 DEF NoLink
    <2>3. Cardinality(StillLeft(a, h)) <= tbl'[j].pending
        BY <1>4, <1>10, <2>1
    <2>4. tbl'[j].pending = 0 => Size(a) = 0 \/ \E o \in Clients : loc'[o].arr = a /\ loc'[o].sig
        BY <1>2, <1>6, <1>10, <1>16, <2>1
    <2> QED BY <1>1, <1>6, <1>8, <1>16, <2>2, <2>3, <2>4 DEF JoinNext
<1>17. CASE Leaves(c)
    <2>1. loc'[c] = NoLocals /\ pc'[c] = "idle" /\ NoLink(c) /\ loc'[c].arr # a
        BY <1>17, NoLocalsFacts, KeysAssumption DEF Leaves, Ends, Keys
    <2>2. CASE pc[c] = "store" /\ ~l.sig /\ n # 0 /\ l.idx = n + 1 /\ ~Undoing(c)
        <3>1. h = n + 1 /\ tbl[j].pending # 0
            BY <1>10, <1>11, <2>2
        <3>2. tbl'[j].pending = tbl[j].pending
            BY <1>14, <2>1 DEF NoLink
        <3>3. \A e \in Slots : tbl'[e].valid /\ ~tbl'[e].signaled
                               => Times(e, j)' <= Cardinality(Occurs(a, h, tbl'[e].key))
            BY <1>15, <2>1 DEF NoLink
        <3>4. \A o \in Clients : loc'[o].arr # a
            BY <1>8, <2>1
        <3>5. JoinNext(j, a, h)
            BY <1>1, <1>2, <1>4, <1>10, <3>1, <3>2, <3>3, <3>4 DEF JoinNext
        <3> QED BY <1>0, <1>2, <3>5, JoinThen
    <2>3. CASE pc[c] = "probe" /\ l.op = "destroy" /\ Probe(c)
        <3>1. PICK e : e = ProbeAt(l.key, l.step)
            OBVIOUS
        <3>2. l.key = a /\ l.found = "idle" /\ l.failed = "idle"
            BY <1>1, <1>5, <2>3, NoLocalsFacts DEF IInv, Shapes, Shape, ArrayShape
        <3>3. /\ e \in Slots
              /\ \/ Matches(l.op, e, l.key) /\ tbl' = [tbl EXCEPT ![e] = Processed(l.op, c, e, l.key)]
                 \/ ~Matches(l.op, e, l.key) /\ FindStops(l, e)
            BY <1>0, <1>5, <2>1, <2>3, <3>1, ProbeGoes DEF IInv, Goes
        <3>4. CASE Matches(l.op, e, l.key) /\ tbl' = [tbl EXCEPT ![e] = Processed(l.op, c, e, l.key)]
            <4>1. tbl[e].key = a /\ tbl'[e] = FreeEntry
                BY <1>0, <2>3, <3>2, <3>3, <3>4 DEF Matches, Processed, IsCreate, Types
            <4>2. e = j
                BY <1>0, <1>1, <3>3, <4>1, JoinPick DEF TableOK
            <4> QED BY <1>0, <4>1, <4>2, FreshFacts, ClientsAssumption
        <3>5. CASE ~Matches(l.op, e, l.key) /\ FindStops(l, e)
            <4>1. tbl[e].key # a /\ l.step + 1 = Entries
                BY <2>3, <3>2, <3>5 DEF Matches, FindStops, IsCreate
            <4>2. AheadOf(c, j)
                BY <1>1, <1>5, <2>3, <3>2 DEF IInv, SearchOK, Ahead, IsCreate
            <4>3. PICK x \in l.step..(Entries - 1) : j = ProbeAt(l.key, x)
                BY <1>5, <4>2 DEF AheadOf
            <4>4. l.step \in Int /\ Entries \in Int
                BY EntriesAssumption DEF LocType, Slots
            <4>5. x = l.step
                BY <4>1, <4>4
            <4> QED BY <1>1, <3>1, <4>1, <4>3, <4>5
        <3> QED BY <3>3, <3>4, <3>5
    <2> QED BY <1>1, <1>2, <1>5, <1>17, <2>2, <2>3 DEF Leaves
<1>18. CASE GoesOn(c)
    <2>1. q.arr = a /\ l.arr = a
        BY <1>1, <1>5, <1>6, <1>18 DEF GoesOn
    <2>2. CASE NoLink(c) /\ q.idx = l.idx /\ q.sig = l.sig /\ (Undoing(c)' <=> Undoing(c))
        <3>1. Handled(c, h)'
            BY <1>11, <1>12, <2>1, <2>2
        <3> QED BY <1>0, <1>2, <1>16, <2>1, <2>2, <3>1, JoinThen
    <2>3. CASE NoLink(c) /\ Undoing(c)' /\ ~Undoing(c) /\ l.idx \in 1..n /\ q.idx = l.idx /\ q.sig = l.sig
        <3>1. Handled(c, h)'
            BY <1>11, <1>12, <2>1, <2>3
        <3> QED BY <1>0, <1>2, <1>16, <2>1, <2>3, <3>1, JoinThen
    <2>4. CASE NoLink(c) /\ Undoing(c)' /\ ~Undoing(c) /\ n = 0 /\ l.idx = 1 /\ q.idx = 0 /\ q.sig = l.sig
        <3>1. Handled(c, h)'
            BY <1>11, <1>12, <2>1, <2>4
        <3> QED BY <1>0, <1>2, <1>16, <2>1, <2>4, <3>1, JoinThen
    <2>5. CASE NoLink(c) /\ Undoing(c)' /\ Undoing(c) /\ l.idx \in 1..n /\ q.idx = l.idx - 1 /\ q.sig = l.sig
        <3>1. Handled(c, h)'
            BY <1>11, <1>12, <1>13, <2>1, <2>5
        <3> QED BY <1>0, <1>2, <1>16, <2>1, <2>5, <3>1, JoinThen
    <2>6. ASSUME ~Undoing(c), ~Undoing(c)', l.idx \in 1..n, q.idx = l.idx + 1, pc[c] = "link",
                 Cardinality(Left(a, h + 1)) <= tbl'[j].pending,
                 tbl'[j].pending = 0 => n = 0 \/ q.sig,
                 \A e \in Slots : tbl'[e].valid /\ ~tbl'[e].signaled
                     => Times(e, j)' <= Cardinality(Occurs(a, h + 1, tbl'[e].key))
          PROVE  JoinKnown(j)'
        <3>1. h = l.idx /\ h + 1 \in 1..(n + 1)
            BY <1>11, <2>6
        <3>2. Handled(c, h + 1)'
            BY <1>12, <2>1, <2>6, <3>1
        <3>3. tbl'[j].pending = 0 => Size(a) = 0 \/ \E o \in Clients : loc'[o].arr = a /\ loc'[o].sig
            BY <1>2, <1>6, <2>1, <2>6
        <3>4. JoinNext(j, a, h + 1)
            BY <1>1, <1>4, <1>6, <1>8, <2>1, <2>6, <3>2, <3>3 DEF JoinNext
        <3> QED BY <1>0, <1>2, <3>1, <3>4, JoinThen
    <2>7. ASSUME pc[c] = "link", l.idx \in 1..n, ~Undoing(c)
          PROVE  /\ h = l.idx /\ h \in 1..Size(a) /\ l.ent \in Slots /\ l.join = j
                 /\ tbl[l.ent].key = Children[a][h] /\ tbl[l.ent].key \in Fences
        <3>1. h = l.idx
            BY <1>11, <2>7
        <3>2. ArrayShape("link", l) /\ JoinOf(c) = l.join
            BY <1>5, <2>7, LastIsLast
        <3>3. tbl[l.ent].key = l.key
            BY <1>0, <1>5, <2>7 DEF ArrayOK
        <3> QED BY <1>2, <1>7, <2>1, <2>7, <3>1, <3>2, <3>3 DEF ArrayShape, Kid
    <2>8. CASE /\ CountsOff(c) /\ ~Undoing(c) /\ ~Undoing(c)' /\ l.idx \in 1..n /\ q.idx = l.idx + 1
               /\ q.sig <=> (tbl[l.join].pending = 1)
        <3>1. pc[c] = "link" /\ tbl[l.ent].signaled /\ ~Appends(c)
            BY <1>5, <2>8 DEF CountsOff, Link, Appends
        <3>2. /\ h = l.idx /\ h \in 1..Size(a) /\ l.ent \in Slots /\ l.join = j
              /\ tbl[l.ent].key = Children[a][h] /\ tbl[l.ent].key \in Fences
            BY <2>7, <2>8, <3>1
        <3>3. Children[a][h] \in done
            BY <1>0, <3>1, <3>2 DEF TableOK
        <3>4. tbl'[j].pending = tbl[j].pending - 1
            BY <1>5, <2>8, <3>2 DEF CountsOff
        <3>5. /\ Cardinality(Left(a, h)) \in Nat /\ Cardinality(Left(a, h + 1)) \in Nat
              /\ Cardinality(Left(a, h + 1)) = Cardinality(Left(a, h)) - 1
            BY <1>0, <3>2, <3>3, LeftLess
        <3>6. Cardinality(Left(a, h + 1)) <= tbl'[j].pending
            BY <1>10, <1>13, <3>4, <3>5
        <3>7. tbl'[j].pending = 0 => n = 0 \/ q.sig
            BY <1>13, <2>8, <3>2, <3>4
        <3>8. ASSUME NEW e \in Slots, tbl'[e].valid, ~tbl'[e].signaled
              PROVE  Times(e, j)' <= Cardinality(Occurs(a, h + 1, tbl'[e].key))
            <4>1. PICK k : k = tbl'[e].key
                OBVIOUS
            <4>2. Times(e, j)' <= Cardinality(Occurs(a, h, k)) /\ Times(e, j)' \in Nat
                BY <1>15, <3>1, <3>8, <4>1, TimesAfter DEF TimesMove
            <4>3. /\ Cardinality(Occurs(a, h, k)) \in Nat /\ Cardinality(Occurs(a, h + 1, k)) \in Nat
                  /\ Cardinality(Occurs(a, h, k)) <= Cardinality(Occurs(a, h + 1, k))
                BY <1>0, <3>2, OccursMore
            <4> QED BY <4>1, <4>2, <4>3
        <3> QED BY <2>6, <2>8, <3>1, <3>6, <3>7, <3>8
    <2>9. CASE /\ Appends(c) /\ ~Undoing(c) /\ ~Undoing(c)' /\ l.idx \in 1..n /\ q.idx = l.idx + 1
               /\ q.sig = l.sig
        <3>1. pc[c] = "link" /\ ~CountsOff(c) /\ Steady
            BY <1>5, <2>9 DEF CountsOff, Link, Appends
        <3>2. /\ h = l.idx /\ h \in 1..Size(a) /\ l.ent \in Slots /\ l.join = j
              /\ tbl[l.ent].key = Children[a][h] /\ tbl[l.ent].key \in Fences
            BY <2>7, <2>9, <3>1
        <3>4. tbl'[j].pending = tbl[j].pending
            BY <1>14, <3>1
        <3>5. /\ Cardinality(Left(a, h)) \in Nat /\ Cardinality(Left(a, h + 1)) \in Nat
              /\ Cardinality(Left(a, h + 1)) <= Cardinality(Left(a, h))
            BY <1>0, <3>2, LeftLess
        <3>6. Cardinality(Left(a, h + 1)) <= tbl'[j].pending
            BY <1>10, <1>13, <3>4, <3>5
        <3>7. tbl'[j].pending = 0 => n = 0 \/ q.sig
            BY <1>10, <2>9, <3>4
        <3>8. ASSUME NEW e \in Slots, tbl'[e].valid, ~tbl'[e].signaled
              PROVE  Times(e, j)' <= Cardinality(Occurs(a, h + 1, tbl'[e].key))
            <4>1. PICK k : k = tbl'[e].key
                OBVIOUS
            <4>2. /\ Cardinality(Occurs(a, h, k)) \in Nat /\ Cardinality(Occurs(a, h + 1, k)) \in Nat
                  /\ Cardinality(Occurs(a, h, k)) <= Cardinality(Occurs(a, h + 1, k))
                  /\ Children[a][h] = k => Cardinality(Occurs(a, h + 1, k)) = Cardinality(Occurs(a, h, k)) + 1
                BY <1>0, <3>2, OccursMore
            <4>3. Times(e, j)' \in Nat
                BY <3>8, TimesAfter DEF TimesMove
            <4>4. CASE e # l.ent
                <5>1. Times(e, j)' <= Cardinality(Occurs(a, h, k))
                    BY <1>15, <3>8, <4>1, <4>4
                <5> QED BY <4>1, <4>2, <4>3, <5>1
            <4>5. CASE e = l.ent
                <5>1. k = Children[a][h] /\ tbl[e].key = k /\ tbl[e].valid /\ ~tbl[e].signaled
                    BY <3>1, <3>2, <3>8, <4>1, <4>5 DEF Steady
                <5>2. Times(e, j) <= Cardinality(Occurs(a, h, k)) /\ Times(e, j) \in Nat
                    BY <1>0, <1>1, <1>3, <5>1, TimesFacts DEF JoinHas
                <5>3. Times(e, j)' <= Times(e, j) \/ Times(e, j)' = Times(e, j) + 1
                    <6>1. TimesMove(e, j)
                        BY <3>8, TimesAfter
                    <6>2. ~\E o \in Clients : NewEntry(o, e)
                        BY <5>1 DEF NewEntry
                    <6> QED BY <6>1, <6>2 DEF TimesMove
                <5> QED BY <4>1, <4>2, <4>3, <5>1, <5>2, <5>3
            <4> QED BY <4>4, <4>5
        <3> QED BY <2>6, <2>9, <3>1, <3>6, <3>7, <3>8
    <2> QED BY <1>1, <1>2, <1>5, <1>6, <1>18, <2>1, <2>2, <2>3, <2>4, <2>5, <2>8, <2>9 DEF GoesOn
<1> QED BY <1>0, <1>7, <1>17, <1>18, OwnMoves

(* A join and a signal of the Fence CTL that is not its last. *)
LEMMA JoinCtl ==
    ASSUME IInv, [Next]_vars, NEW g \in Slots, CtlEffect(g),
           NEW j \in Slots, tbl[j].owner = JoinClient, tbl'[j].owner = JoinClient
    PROVE  JoinKnown(j)'
<1>0. /\ Types /\ conf' = conf /\ conf \in Configs /\ Children' = Children /\ pc' = pc /\ loc' = loc
      /\ done' = done \cup {tbl[g].key} /\ tbl[g].key \notin done
    BY ConfFixed DEF IInv, Types, Children, CtlEffect
<1>1. PICK a \in Arrays : a = tbl[j].key
    BY JoinPick
<1>2. PICK n \in Nat : n = Size(a)
    BY <1>0, ConfFacts
<1>3. PICK h \in 1..(n + 1) : JoinHas(j, h)
    BY <1>1, <1>2, JoinPick
<1>4. PICK k : k = tbl[g].key
    OBVIOUS
<1>5. j \notin Full(g)
    BY <1>0, FreshFacts, ClientsAssumption DEF CtlEffect
<1>6. tbl'[j].key = a /\ tbl'[j].pending = tbl[j].pending - Times(g, j)
    BY <1>1, <1>5 DEF CtlEffect, SameEntry
<1>7. PICK p \in Int : p = tbl[j].pending
    BY <1>0 DEF Types, EntryType
<1>8. PICK t \in Nat : t = Times(g, j)
    BY <1>0, TimesFacts
<1>9. /\ Cardinality(Left(a, h)) <= p /\ t <= Cardinality(Occurs(a, h, k))
      /\ Makers(j) = {} => h = Size(a) + 1
      /\ \A o \in Makers(j) : Handled(o, h)
      /\ p = 0 => Size(a) = 0 \/ \E o \in Makers(j) : loc[o].sig
    BY <1>1, <1>2, <1>3, <1>4, <1>7, <1>8 DEF JoinHas, CtlEffect
<1>10. /\ IsFiniteSet(Left(a, h)) /\ Cardinality(Left(a, h)) \in Nat
       /\ IsFiniteSet(Occurs(a, h, k)) /\ Cardinality(Occurs(a, h, k)) \in Nat
    <2>1. h \in Int
        BY <1>3
    <2> QED BY <1>0, <2>1, LeftFinite
<1>11. StillLeft(a, h) = Left(a, h) \ Occurs(a, h, k)
    BY <1>0, <1>2, <1>4 DEF StillLeft, Left, Occurs
<1>12. Left(a, h) \cap Occurs(a, h, k) = Occurs(a, h, k)
    <2>1. Occurs(a, h, k) \in SUBSET Left(a, h)
        BY <1>0, <1>2, <1>4, OccursIn
    <2> QED BY <2>1
<1>13. Cardinality(Left(a, h) \ Occurs(a, h, k)) =
           Cardinality(Left(a, h)) - Cardinality(Left(a, h) \cap Occurs(a, h, k))
    BY <1>10, FS_Difference
<1>14. Cardinality(StillLeft(a, h)) <= p - t
    <2>1. PICK x \in Nat : x = Cardinality(Left(a, h))
        BY <1>10
    <2>2. PICK y \in Nat : y = Cardinality(Occurs(a, h, k))
        BY <1>10
    <2>3. Cardinality(StillLeft(a, h)) = x - y
        BY <1>11, <1>12, <1>13, <2>1, <2>2
    <2>4. x <= p /\ t <= y
        BY <1>9, <2>1, <2>2
    <2> QED BY <2>3, <2>4
<1>15. p - t = 0 => Size(a) = 0 \/ \E o \in Makers(j) : loc[o].sig
    <2>1. CASE t = 0
        BY <1>9, <2>1
    <2>2. CASE t # 0 /\ p - t = 0
        <3>1. \E i \in 1..tbl[g].cnt : tbl[g].parents[i] = j
            <4>1. Times(g, j) > 0
                BY <1>8, <2>2
            <4>2. Times(g, j) > 0 <=> \E i \in 1..tbl[g].cnt : tbl[g].parents[i] = j
                BY <1>0, TimesFacts
            <4> QED BY <4>1, <4>2
        <3>2. j # NoSlot
            BY EntriesAssumption DEF Slots, NoSlot
        <3>3. j \in ParentsOf(g)
            BY <3>1, <3>2 DEF ParentsOf
        <3>4. tbl[j].pending = Times(g, j)
            BY <1>7, <1>8, <2>2
        <3>5. j \in Full(g)
            BY <3>3, <3>4 DEF Full
        <3> QED BY <1>5, <3>5
    <2> QED BY <2>1, <2>2
<1>16. ASSUME NEW o \in Clients, Appends(o) PROVE FALSE
    <2>1. Link(o) /\ pc[o] = "link"
        BY <1>16 DEF Appends, Link
    <2>2. tbl[loc[o].join].pending = 1 => loc[o].idx = Size(loc[o].arr)
        BY <2>1, LastIsLast
    <2>3. pc'[o] # pc[o]
        BY <2>1, <2>2, LinkGoes DEF Goes, IInv
    <2> QED BY <1>0, <2>3
<1>17. \A e \in Slots : tbl'[e].valid /\ ~tbl'[e].signaled
                        => Times(e, j)' <= Cardinality(Occurs(a, h, tbl'[e].key))
    BY <1>1, <1>2, <1>3, <1>16, TimesKept
<1>18. \A o \in Clients : Handled(o, h) => Handled(o, h)'
    BY <1>0 DEF Handled, Undoing, Failing, Size
<1>19. \A o \in Clients : loc'[o].arr = a <=> o \in Makers(j)
    BY <1>0, <1>1 DEF Makers
<1>20. (\A o \in Clients : loc'[o].arr # a) => Makers(j) = {}
    BY <1>19 DEF Makers
<1>21. Makers(j) \subseteq Clients
    BY DEF Makers
<1>22. JoinNext(j, a, h)
    BY <1>0, <1>6, <1>7, <1>8, <1>9, <1>14, <1>15, <1>17, <1>18, <1>19, <1>20, <1>21 DEF JoinNext
<1> QED BY <1>0, <1>2, <1>22, JoinThen

(* A join that was just made: nothing is counted off and nothing links it. *)
LEMMA JoinMade ==
    ASSUME IInv, [Next]_vars, NEW c \in Clients, NEW j \in Slots, NewEntry(c, j),
           tbl'[j].owner = JoinClient
    PROVE  JoinKnown(j)'
<1>0. /\ Types /\ conf' = conf /\ conf \in Configs /\ Children' = Children
    BY ConfFixed DEF IInv, Types, Children
<1>1. PICK a \in Arrays : a = loc[c].key
    BY DEF NewEntry, EntryOK
<1>2. /\ tbl'[j].key = a /\ loc[c].call = "array" /\ loc[c].op = "join" /\ loc[c].arr = a
      /\ tbl'[j].pending = Size(a) /\ ~tbl[j].valid /\ pc[c] = "probe"
      /\ Same(loc'[c], loc[c], {"ent"}) /\ Goes(c, loc[c].found)
    BY <1>1 DEF NewEntry
<1>3. PICK n \in Nat : n = Size(a)
    BY <1>0, ConfFacts
<1>4. loc[c].idx = 1 /\ loc[c].found = "mask" /\ ~loc[c].sig
    BY <1>2, NoLocalsFacts DEF IInv, Shapes, Shape, ArrayShape
<1>5. /\ loc'[c].arr = a /\ loc'[c].idx = 1 /\ loc'[c].op = "join" /\ loc'[c].found = "mask"
      /\ pc'[c] = "mask"
    BY <1>2, <1>4 DEF Same, Goes
<1>6. \A o \in Clients : loc'[o].arr = a => o = c
    BY <1>2, <1>5, OneMaker
<1>7. Handled(c, 1)'
    BY <1>5 DEF Handled, Undoing, Failing
<1>8. Cardinality(StillLeft(a, 1)) = n
    <2>1. StillLeft(a, 1) = 1..n
        BY <1>3 DEF StillLeft
    <2>2. Cardinality(1..n) = n
        BY UpTo
    <2> QED BY <2>1, <2>2
<1>9. ASSUME NEW e \in Slots, tbl'[e].valid, ~tbl'[e].signaled
      PROVE  Times(e, j)' <= Cardinality(Occurs(a, 1, tbl'[e].key))
    <2>1. TimesMove(e, j) /\ Times(e, j) \in Nat
              /\ (Times(e, j) > 0 <=> \E i \in 1..tbl[e].cnt : tbl[e].parents[i] = j)
        BY <1>0, <1>9, TimesAfter, TimesFacts
    <2>2. tbl[j].owner # JoinClient
        BY <1>2, JoinPick
    <2>3. ASSUME NEW o \in Clients, Appends(o) PROVE j # loc[o].join
        BY <2>2, <2>3, AppendsAt
    <2>4. tbl[e].valid /\ ~tbl[e].signaled => Times(e, j) = 0
        BY <2>1, <2>2, PointingFence DEF Pointing
    <2>5. Times(e, j)' = 0
        BY <2>1, <2>3, <2>4 DEF TimesMove
    <2>6. PICK k : k = tbl'[e].key
        OBVIOUS
    <2>7. Cardinality(Occurs(a, 1, k)) \in Nat
        BY <1>0, LeftFinite
    <2> QED BY <2>5, <2>6, <2>7
<1>10. JoinNext(j, a, 1)
    BY <1>2, <1>3, <1>5, <1>6, <1>7, <1>8, <1>9 DEF JoinNext
<1>11. 1 \in 1..(Size(a) + 1)
    BY <1>3
<1> QED BY <1>0, <1>10, <1>11, JoinThen

(* Every step keeps the counts of the joins. *)
LEMMA JoinsStep == IInv /\ [Next]_vars => JoinsOK'
<1> SUFFICES ASSUME IInv, [Next]_vars, NEW j \in Slots, tbl'[j].owner = JoinClient
             PROVE  JoinKnown(j)'
    BY DEF JoinsOK, JoinKnown
<1>0. Types /\ conf' = conf /\ Children' = Children
    BY ConfFixed DEF IInv, Children
<1>1. CASE \E c \in Clients : NewEntry(c, j)
    BY <1>1, JoinMade
<1>2. CASE tbl'[j].key = tbl[j].key /\ tbl'[j].owner = tbl[j].owner
    <2>0. tbl[j].owner = JoinClient /\ tbl[j].key \in Arrays
        BY <1>2, JoinPick
    <2>1. ASSUME NEW c \in Clients, Call(c) \/ Step(c) PROVE JoinKnown(j)'
        <3>1. CASE loc[c].arr # tbl[j].key /\ loc'[c].arr # tbl[j].key
            BY <1>2, <2>0, <2>1, <3>1, JoinOthers
        <3>2. CASE loc[c].arr = tbl[j].key
            <4>1. loc[c].call = "array" /\ loc[c] # NoLocals
                BY <2>0, <3>2, NoLocalsFacts, KeysAssumption DEF IInv, Shapes, Shape, Keys
            <4>2. Step(c)
                BY <2>1, <4>1, CallStarts
            <4> QED BY <1>2, <2>0, <3>2, <4>1, <4>2, JoinOwn
        <3>3. CASE loc[c].arr # tbl[j].key /\ loc'[c].arr = tbl[j].key
            <4>1. loc'[c] # NoLocals
                BY <2>0, <3>3, NoLocalsFacts, KeysAssumption DEF Keys
            <4>2. loc'[c].call = "array"
                BY <2>0, <3>3, <4>1, KeysAssumption, TypesStep DEF Shapes, Shape, Keys
            <4>3. PICK a \in Arrays : WaitArray(c, a) /\ Begins(c, "array", a, "join", a, "mask")
                BY <3>3, <4>2, CallsFrom
            <4> QED BY <3>3, <4>3 DEF WaitArray, ArrayFree, Begins
        <3> QED BY <3>1, <3>2, <3>3
    <2>2. ASSUME NEW g \in Slots, CtlSignal(g) PROVE JoinKnown(j)'
        BY <2>0, <2>2, CtlGoes, JoinCtl
    <2>3. CASE UNCHANGED vars
        <3>1. tbl' = tbl /\ loc' = loc /\ pc' = pc /\ done' = done
            BY <2>3 DEF vars, history
        <3>2. PICK a \in Arrays : a = tbl[j].key
            BY <2>0
        <3>3. PICK h \in 1..(Size(a) + 1) : JoinHas(j, h)
            BY <2>0, <3>2, JoinPick
        <3>4. StillLeft(a, h) = Left(a, h)
            BY <3>1 DEF StillLeft, Left
        <3>5. \A e \in Slots : Times(e, j)' = Times(e, j)
            BY <3>1 DEF Times
        <3>6. \A o \in Clients : Handled(o, h)' <=> Handled(o, h)
            BY <1>0, <3>1 DEF Handled, Undoing, Failing, Size
        <3>7. JoinNext(j, a, h)
            BY <3>1, <3>2, <3>3, <3>4, <3>5, <3>6 DEF JoinNext, JoinHas, Makers
        <3> QED BY <1>0, <3>7, JoinThen
    <2> QED BY <2>1, <2>2, <2>3 DEF Next, Ctl
<1>3. tbl'[j] # FreeEntry
    BY <1>0, FreshFacts, ClientsAssumption
<1> QED BY <1>1, <1>2, <1>3, KeysAfter
----------------------------------------------------------------------------
(* Who is owed a signal and who got one, after a step. *)
Serves(S) == owed' = owed \ S /\ served' = served \cup S /\ bare' \subseteq bare \cup S
WaitsGo(c) ==
    LET l == loc[c] IN
    \/ owed' = owed /\ served' = served /\ bare' = bare
    \/ /\ Register(c) /\ l.key \in Fences /\ owed' = owed \cup {<<c, l.key>>}
       /\ served' = served /\ bare' = bare
    \/ /\ MaskJoin(c) /\ l.arr \in Arrays /\ owed' = owed \cup {<<c, l.arr>>}
       /\ served' = served /\ bare' = bare
    \/ Recheck(c) /\ l.key \in Fences /\ tbl[l.ent].signaled /\ Serves({<<c, l.key>>})
    \/ SignalJoin(c) /\ l.arr \in Arrays /\ l.sig /\ Serves({<<c, l.arr>>})
    \/ Unlink(c) /\ owed' = owed \ {<<c, l.arr>>} /\ served' = served /\ bare' = bare
    \/ ClearWait(c) /\ owed' = owed \ {<<c, tbl[l.slot].key>>} /\ served' = served /\ bare' = bare
    \/ /\ SignalError(c) /\ tbl[l.slot].key \in Fences
       /\ \E w \in Clients : Serves({<<w, tbl[l.slot].key>>})

(* What a step of a client does to the waits. *)
LEMMA WaitsGoes ==
    ASSUME IInv, NEW c \in Clients, Call(c) \/ Step(c)
    PROVE  WaitsGo(c)
<1>0. Types /\ Shapes /\ TableOK /\ Shape(pc[c], loc[c])
    BY DEF IInv, Shapes
<1>1. PICK l \in LocType : l = loc[c]
    BY <1>0 DEF Types
<1>2. CASE \/ Call(c) \/ Enable(c) \/ Disable(c) \/ Child(c) \/ SkipChild(c) \/ CheckOwner(c)
           \/ NextEntry(c) \/ Probe(c) \/ Link(c) \/ StoreData(c) \/ Cut(c)
    <2>1. owed' = owed /\ served' = served /\ bare' = bare
        BY <1>2 DEF Call, Create, Destroy, DestroyWithHandle, Wait, WaitArray, Reset, Enable, Disable, Child,
                    SkipChild, CheckOwner, NextEntry, Probe, Link, StoreData, Cut, history
    <2> QED BY <2>1 DEF WaitsGo
<1>3. CASE Register(c)
    <2>1. loc[c].key \in Fences
        BY <1>0, <1>3, RegisterGoes
    <2> QED BY <1>3, <2>1 DEF Register, WaitsGo
<1>4. CASE MaskJoin(c)
    <2>1. loc[c].arr \in Arrays
        BY <1>0, <1>4, MaskGoes, NoLocalsFacts DEF Shape, ArrayShape
    <2> QED BY <1>4, <2>1 DEF MaskJoin, WaitsGo
<1>5. CASE Recheck(c)
    <2>1. l.call = "wait" /\ l.key \in Fences /\ pc[c] = "recheck"
        BY <1>0, <1>1, <1>5, NoLocalsFacts DEF Recheck, Shape, ArrayShape
    <2>2. tbl[l.ent].key = l.key
        BY <1>1, <2>1 DEF IInv, CallsOK, WaitOK
    <2>3. CASE ~tbl[l.ent].signaled
        BY <1>1, <1>5, <2>3 DEF Recheck, history, WaitsGo
    <2>4. CASE tbl[l.ent].signaled
        <3>1. Signal({<<c, l.key>>}, {<<c, l.key>>})
            BY <1>1, <1>5, <2>2, <2>4 DEF Recheck
        <3>2. Serves({<<c, l.key>>})
            BY <3>1 DEF Signal, Serves
        <3> QED BY <1>1, <1>5, <2>1, <2>4, <3>2 DEF WaitsGo
    <2> QED BY <2>3, <2>4
<1>6. CASE SignalJoin(c)
    <2>1. l.call = "array" /\ l.arr \in Arrays /\ l.sig /\ pc[c] = "sigjoin" /\ l.join \in Slots
        BY <1>0, <1>1, <1>6, NoLocalsFacts DEF SignalJoin, Shape, ArrayShape
    <2>2. Live(c) /\ JoinOf(c) = l.join
        BY <1>1, <2>1 DEF Live, Making, JoinOf
    <2>3. tbl[l.join].key = l.arr
        BY <1>1, <2>1, <2>2 DEF IInv, CallsOK, ArrayOK
    <2>4. Signal({<<c, l.arr>>}, {<<c, l.arr>>})
        BY <1>1, <1>6, <2>3 DEF SignalJoin
    <2>5. Serves({<<c, l.arr>>})
        BY <2>4 DEF Signal, Serves
    <2> QED BY <1>1, <1>6, <2>1, <2>5 DEF WaitsGo
<1>7. CASE Unlink(c)
    <2>1. served' = served /\ bare' = bare /\ (owed' = owed \/ owed' = owed \ {<<c, loc[c].arr>>})
        BY <1>7 DEF Unlink
    <2> QED BY <1>7, <2>1 DEF WaitsGo
<1>8. CASE ClearWait(c)
    BY <1>8 DEF ClearWait, WaitsGo
<1>9. CASE SignalError(c)
    <2>1. tbl[l.slot].key \in Fences
        <3>1. l.call = "reset" /\ pc[c] = "error"
            BY <1>0, <1>1, <1>9, NoLocalsFacts DEF SignalError, Shape, ArrayShape
        <3>2. l.slot \in Slots /\ tbl[l.slot].owner = c
            BY <1>1, <3>1 DEF IInv, ResetsOK, ResetOK, LocType
        <3>3. EntryOK(tbl[l.slot]) /\ tbl[l.slot].key \in Keys \cup {NoKey}
            BY <1>0, <3>2 DEF TableOK, Types, EntryType
        <3> QED BY <3>2, <3>3, ClientsAssumption DEF EntryOK, Keys
    <2>2. \/ UNCHANGED history
          \/ \E w \in l.todo : \E d : Signal({<<w, tbl[l.slot].key>>}, d)
        BY <1>0, <1>1, <1>9, <2>1, ErrorGoes
    <2>3. CASE UNCHANGED history
        BY <2>3 DEF history, WaitsGo
    <2>4. CASE \E w \in l.todo : \E d : Signal({<<w, tbl[l.slot].key>>}, d)
        <3>1. PICK w \in l.todo : \E d : Signal({<<w, tbl[l.slot].key>>}, d)
            BY <2>4
        <3>2. w \in Clients
            BY DEF LocType
        <3>3. Serves({<<w, tbl[l.slot].key>>})
            BY <3>1 DEF Signal, Serves
        <3> QED BY <1>1, <1>9, <2>1, <3>2, <3>3 DEF WaitsGo
    <2> QED BY <2>2, <2>3, <2>4
<1> QED BY <1>2, <1>3, <1>4, <1>5, <1>6, <1>7, <1>8, <1>9 DEF Step

ToldBy(e) == UNION {{<<c, tbl[s].key>> : c \in tbl[s].mask} : s \in {e} \cup Full(e)}

(* The Fence CTL serves the masks of the fence and the full joins. *)
LEMMA CtlWaits ==
    ASSUME IInv, NEW e \in Slots, CtlSignal(e)
    PROVE  /\ Serves(ToldBy(e))
           /\ \A w \in ToldBy(e) : \E s \in {e} \cup Full(e) : \E c \in Clients : w = <<c, tbl[s].key>>
           /\ \A s \in {e} \cup Full(e) : \A c \in tbl[s].mask : <<c, tbl[s].key>> \in ToldBy(e)
<1>1. CtlEffect(e) /\ Types
    BY CtlGoes DEF IInv
<1>2. \A s \in {e} \cup Full(e) : tbl[s].mask \subseteq Clients
    BY <1>1 DEF CtlEffect, Types, EntryType
<1>3. \E d : Signal(ToldBy(e), d)
    BY DEF CtlSignal, ToldBy, Full
<1>4. Serves(ToldBy(e))
    BY <1>3 DEF Signal, Serves
<1> QED BY <1>2, <1>4 DEF ToldBy

(* Every step keeps the types of the waits. *)
LEMMA PairsStep == IInv /\ [Next]_vars => PairsOK'
<1> SUFFICES ASSUME IInv, [Next]_vars PROVE PairsOK'
    OBVIOUS
<1>0. PairsOK
    BY DEF IInv
<1>1. \A S : Serves(S) /\ S \subseteq Clients \X Keys => PairsOK'
    BY <1>0 DEF Serves, PairsOK
<1>2. ASSUME NEW c \in Clients, Call(c) \/ Step(c) PROVE PairsOK'
    <2>1. WaitsGo(c)
        BY <1>2, WaitsGoes
    <2>2. \A w \in Clients : \A k : k \in Fences \/ k \in Arrays => {<<w, k>>} \subseteq Clients \X Keys
        BY DEF Keys
    <2>3. CASE \E w \in Clients : \E k : (k \in Fences \/ k \in Arrays) /\ Serves({<<w, k>>})
        BY <1>1, <2>2, <2>3
    <2>4. CASE owed' \subseteq owed /\ served' = served /\ bare' = bare
        BY <1>0, <2>4 DEF PairsOK
    <2>5. CASE \E k : (k \in Fences \/ k \in Arrays) /\ owed' = owed \cup {<<c, k>>} /\ served' = served /\ bare' = bare
        BY <1>0, <2>2, <2>5 DEF PairsOK
    <2> QED BY <2>1, <2>3, <2>4, <2>5 DEF WaitsGo
<1>3. ASSUME NEW e \in Slots, CtlSignal(e) PROVE PairsOK'
    <2>1. CtlEffect(e)
        BY <1>3, CtlGoes
    <2>2. \A s \in {e} \cup Full(e) : tbl[s].key \in Keys
        BY <2>1 DEF CtlEffect, Keys
    <2>3. ToldBy(e) \subseteq Clients \X Keys
        BY <1>3, <2>2, CtlWaits
    <2> QED BY <1>1, <1>3, <2>3, CtlWaits
<1>4. CASE UNCHANGED vars
    BY <1>0, <1>4 DEF vars, history, PairsOK
<1> QED BY <1>2, <1>3, <1>4 DEF Next, Ctl

Held(c, k) ==
    \E e \in Slots : Valid(e, k) /\ c \in tbl[e].mask /\ ~tbl[e].signaled /\ (k \in Arrays => tbl[e].pending > 0)
Looking(c, k) == pc[c] = "recheck" /\ loc[c].key = k
Finishing(c, k) == loc[c].arr = k /\ (loc[c].sig \/ Children[k] = << >>)

(* The three ways in which a wait is kept. *)
LEMMA WaitFor ==
    ASSUME IInv, NEW c, NEW k, <<c, k>> \in owed
    PROVE  c \in Clients /\ k \in Keys /\ (Held(c, k) \/ Looking(c, k) \/ Finishing(c, k))
<1>1. c \in Clients /\ k \in Keys
    BY DEF IInv, PairsOK
<1>2. PICK w \in owed : w = <<c, k>>
    OBVIOUS
<1>3. w[1] = c /\ w[2] = k
    BY <1>2
<1> QED BY <1>1, <1>2, <1>3 DEF IInv, NoLostWait, Held, Looking, Finishing

(* What is owed after a step was owed before, or somebody registers. *)
LEMMA OwedFrom ==
    ASSUME IInv, [Next]_vars, NEW o, NEW k, <<o, k>> \in owed', <<o, k>> \notin owed
    PROVE  o \in Clients /\ ((Register(o) /\ k \in Fences /\ k = loc[o].key) \/ (MaskJoin(o) /\ k = loc[o].arr))
<1>1. ASSUME NEW c \in Clients, Call(c) \/ Step(c)
      PROVE  o \in Clients /\ ((Register(o) /\ k \in Fences /\ k = loc[o].key) \/ (MaskJoin(o) /\ k = loc[o].arr))
    <2>1. WaitsGo(c)
        BY <1>1, WaitsGoes
    <2> QED BY <2>1 DEF WaitsGo, Serves
<1>2. ASSUME NEW e \in Slots, CtlSignal(e) PROVE FALSE
    BY <1>2, CtlWaits DEF Serves
<1>3. CASE UNCHANGED vars
    BY <1>3 DEF vars, history
<1> QED BY <1>1, <1>2, <1>3 DEF Next, Ctl

(* Every step keeps an array's waits with the call on it. *)
LEMMA OwedStep == IInv /\ [Next]_vars => OwedOK'
<1> SUFFICES ASSUME IInv, [Next]_vars, NEW c \in Clients, NEW o \in Clients, loc'[c].call = "array",
                    <<o, loc'[c].arr>> \in owed'
             PROVE  o = c /\ (pc'[c] \in {"probe", "mask"} => loc'[c].op = "find")
    BY DEF OwedOK
<1>0. Types /\ Shapes /\ TableOK
    BY DEF IInv
<1>1. CASE \E a \in Arrays : WaitArray(c, a) /\ Begins(c, "array", a, "join", a, "mask")
    <2>1. PICK a \in Arrays : WaitArray(c, a) /\ Begins(c, "array", a, "join", a, "mask")
        BY <1>1
    <2>2. loc'[c].arr = a /\ owed' = owed /\ ArrayFree(a)
        BY <2>1 DEF WaitArray, Begins, history
    <2>3. <<o, a>> \in owed
        BY <2>2
    <2>4. Held(o, a) \/ Looking(o, a) \/ Finishing(o, a)
        BY <2>3, WaitFor
    <2>5. ~Held(o, a) /\ ~Finishing(o, a)
        BY <2>2 DEF Held, Finishing, Valid, ArrayFree
    <2>6. ~Looking(o, a)
        BY <1>0, KeysAssumption, NoLocalsFacts DEF Looking, Shapes, Shape, ArrayShape
    <2> QED BY <2>4, <2>5, <2>6
<1>2. CASE loc[c].call = "array" /\ loc'[c].arr = loc[c].arr
    <2>0. ArrayShape(pc[c], loc[c])
        BY <1>0, <1>2, NoLocalsFacts DEF Shapes, Shape
    <2>1. PICK a \in Arrays : a = loc[c].arr
        BY <2>0 DEF ArrayShape
    <2>2. PICK l \in LocType : l = loc[c]
        BY <1>0 DEF Types
    <2>3. PICK q : q = loc'[c]
        OBVIOUS
    <2>4. CASE <<o, a>> \notin owed
        <3>1. MaskJoin(o) /\ a = loc[o].arr
            BY <1>2, <2>1, <2>4, OwedFrom, KeysAssumption
        <3>2. o = c
            BY <1>2, <2>1, <3>1 DEF IInv, CallsOK, ArrayOK
        <3>3. pc'[c] = "child"
            BY <1>0, <3>1, <3>2, MaskGoes DEF Goes
        <3> QED BY <3>2, <3>3
    <2>5. CASE <<o, a>> \in owed
        <3>1. o = c /\ (pc[c] \in {"probe", "mask"} => l.op = "find")
            BY <1>2, <2>1, <2>2, <2>5 DEF IInv, OwedOK
        <3>2. CASE pc'[c] = pc[c] /\ loc'[c] = loc[c]
            BY <2>2, <3>1, <3>2
        <3>3. ASSUME Step(c) PROVE pc'[c] \in {"probe", "mask"} => q.op = "find"
            <4> USE DEF Goes, Same, Entered
            <4>1. CASE pc[c] = "probe" /\ l.op = "find"
                <5>1. Found(c) /\ l.failed \in {"unlink", "next"}
                    BY <2>0, <2>2, <3>3, <4>1, StepAt, FindGoes DEF ArrayShape
                <5> QED BY <2>2, <2>3, <4>1, <5>1 DEF Found
            <4>2. CASE pc[c] = "mask"
                BY <2>0, <2>2, <3>1, <4>2 DEF ArrayShape
            <4>3. CASE pc[c] = "child"
                <5>1. Child(c)
                    BY <3>3, <4>3, StepAt
                <5> QED BY <1>0, <2>2, <2>3, <5>1, ChildGoes
            <4>4. CASE pc[c] = "store"
                <5>1. StoreData(c)
                    BY <3>3, <4>4, StepAt
                <5> QED BY <1>0, <2>2, <2>3, <5>1, StoreGoes
            <4>5. CASE pc[c] = "sigjoin"
                <5>1. SignalJoin(c) /\ pc'[c] # "idle"
                    BY <1>0, <3>3, <4>5, StepAt, SignalJoinGoes
                <5>2. WaitsGo(c)
                    BY <3>3, WaitsGoes
                <5>3. owed' = owed \ {<<c, a>>}
                    <6>1. l.join \in Slots /\ l.sig
                        BY <2>0, <2>2, <4>5 DEF ArrayShape
                    <6>2. tbl[l.join].key = a
                        BY <1>2, <2>1, <2>2, <4>5, <6>1 DEF IInv, CallsOK, ArrayOK, Live, Making, JoinOf
                    <6> QED BY <2>2, <5>1, <6>2 DEF SignalJoin, Signal
                <5> QED BY <1>2, <2>1, <3>1, <5>3
            <4>6. CASE pc[c] = "unlink"
                <5>1. Unlink(c)
                    BY <3>3, <4>6, StepAt
                <5>2. q.op = "find" \/ owed' = owed \ {<<c, a>>}
                    BY <1>0, <2>1, <2>3, <5>1, UnlinkGoes
                <5> QED BY <1>2, <2>1, <3>1, <5>2
            <4>7. CASE pc[c] \in {"cut", "next"}
                <5>1. Cut(c) \/ SkipChild(c)
                    BY <3>3, <4>7, StepAt
                <5> QED BY <1>0, <5>1, BackGoes
            <4>8. CASE pc[c] = "link"
                <5>1. Link(c) /\ (tbl[l.join].pending = 1 => l.idx = Size(l.arr))
                    BY <2>2, <3>3, <4>8, StepAt, LastIsLast
                <5> QED BY <1>0, <2>2, <5>1, LinkGoes
            <4> QED BY <2>0, <2>2, <3>1, <4>1, <4>2, <4>3, <4>4, <4>5, <4>6, <4>7, <4>8 DEF ArrayShape
        <3>4. ~Call(c)
            BY <1>2, CallStarts, NoLocalsFacts
        <3> QED BY <2>3, <3>1, <3>2, <3>3, <3>4, CallsMove
    <2> QED BY <2>4, <2>5
<1> QED BY <1>1, <1>2, CallsFrom

(* Every step keeps arrays from being signaled early. *)
LEMMA JoinSoundStep == IInv /\ [Next]_vars => JoinSound'
<1>a. [Next]_vars => Children' = Children
    BY ConfFixed DEF Children
<1> SUFFICES ASSUME IInv, [Next]_vars, NEW w \in served', w[2] \in Arrays,
                    NEW i \in 1..Len(Children[w[2]])
             PROVE  Children[w[2]][i] \in done'
    BY <1>a DEF JoinSound
<1>0. done \subseteq done'
    BY SetsAfter
<1>1. CASE w \in served
    BY <1>0, <1>1 DEF IInv, JoinSound
<1>2. ASSUME NEW c \in Clients, Call(c) \/ Step(c), w \notin served PROVE Children[w[2]][i] \in done'
    <2>1. WaitsGo(c)
        BY <1>2, WaitsGoes
    <2>2. ASSUME NEW x, NEW k \in Fences, Serves({<<x, k>>}) PROVE FALSE
        <3>1. w = <<x, k>>
            BY <1>2, <2>2 DEF Serves
        <3>2. w[2] = k
            BY <3>1
        <3> QED BY <3>2, KeysAssumption
    <2>3. ASSUME SignalJoin(c), loc[c].arr \in Arrays, loc[c].sig, Serves({<<c, loc[c].arr>>})
          PROVE  Children[w[2]][i] \in done'
        <3>1. w = <<c, loc[c].arr>>
            BY <1>2, <2>3 DEF Serves
        <3>2. w[2] = loc[c].arr
            BY <3>1
        <3>3. loc[c].call = "array"
            BY <2>3, NoLocalsFacts, KeysAssumption DEF IInv, Shapes, Shape, Keys
        <3> QED BY <1>0, <2>3, <3>2, <3>3 DEF IInv, CallsOK, ArrayOK, Size
    <2> QED BY <1>2, <2>1, <2>2, <2>3 DEF WaitsGo
<1>3. ASSUME NEW e \in Slots, CtlSignal(e), w \notin served PROVE Children[w[2]][i] \in done'
    <2>1. CtlEffect(e) /\ w \in ToldBy(e)
        BY <1>3, CtlGoes, CtlWaits DEF Serves
    <2>2. PICK s \in {e} \cup Full(e) : \E c \in Clients : w = <<c, tbl[s].key>>
        BY <1>3, <2>1, CtlWaits
    <2>3. w[2] = tbl[s].key
        BY <2>2
    <2>4. s # e
        BY <2>1, <2>3, KeysAssumption DEF CtlEffect
    <2>5. s \in Full(e) /\ s \in Slots /\ tbl[s].owner = JoinClient
        BY <2>1, <2>2, <2>4 DEF CtlEffect
    <2>6. PICK h \in 1..(Size(tbl[s].key) + 1) : JoinHas(s, h)
        BY <2>5, JoinPick
    <2>7. Left(tbl[s].key, h) = Occurs(tbl[s].key, h, tbl[e].key)
        BY <2>1, <2>5, <2>6, FullLeft
    <2>8. i \in Left(tbl[s].key, h) \/ Children[tbl[s].key][i] \in done
        BY <2>3 DEF Left, Size
    <2>9. Children[tbl[s].key][i] = tbl[e].key \/ Children[tbl[s].key][i] \in done
        BY <2>7, <2>8 DEF Occurs
    <2> QED BY <1>0, <2>1, <2>3, <2>9 DEF CtlEffect
<1>4. CASE UNCHANGED vars
    BY <1>1, <1>4 DEF vars, history
<1> QED BY <1>1, <1>2, <1>3, <1>4 DEF Next, Ctl

(* Only the Fence CTL signals an entry. *)
LEMMA SignaledBy ==
    ASSUME IInv, [Next]_vars, NEW e \in Slots, tbl[e].valid, tbl'[e].valid, ~tbl[e].signaled, tbl'[e].signaled
    PROVE  CtlSignal(e)
<1>1. ASSUME NEW c \in Clients, Call(c) \/ Step(c) PROVE FALSE
    <2>1. CASE Steady
        BY <2>1 DEF Steady
    <2>2. CASE \E g \in Slots : Reserves(c, g)
        <3>1. PICK g \in Slots : NewEntry(c, g)
            BY <2>2, ReservesNew
        <3> QED BY <3>1 DEF NewEntry
    <2>3. CASE \E g \in Slots : Frees(c, g)
        <3>1. PICK g \in Slots : OldEntry(c, g)
            BY <2>3, FreesOld
        <3>2. e # g
            BY <3>1, FreshFacts DEF OldEntry, IInv
        <3> QED BY <3>1, <3>2 DEF OldEntry
    <2> QED BY <1>1, <2>1, <2>2, <2>3, StepKinds DEF Plain, CountsOff, Appends, Blanks
<1>2. ASSUME NEW g \in Slots, CtlSignal(g) PROVE CtlSignal(e)
    <2>1. CtlEffect(g)
        BY <1>2, CtlGoes
    <2>2. e \notin Full(g)
        BY <2>1, FreshFacts DEF CtlEffect, IInv
    <2>3. e = g
        BY <2>1, <2>2 DEF CtlEffect
    <2> QED BY <1>2, <2>3
<1>3. CASE UNCHANGED vars
    BY <1>3 DEF vars
<1> QED BY <1>1, <1>2, <1>3 DEF Next, Ctl

(* A join that somebody waits for keeps something pending, until the call  *)
(* that made it counts the last child off.                                 *)
LEMMA PendingStays ==
    ASSUME IInv, [Next]_vars, NEW c \in Clients, NEW j \in Slots, tbl[j].owner = JoinClient,
           tbl'[j].owner = JoinClient, tbl'[j].key = tbl[j].key, tbl[j].pending > 0,
           <<c, tbl[j].key>> \in owed
    PROVE  tbl'[j].pending > 0 \/ Finishing(c, tbl[j].key)'
<1>0. Types /\ conf' = conf
    BY ConfFixed DEF IInv
<1>1. PICK a \in Arrays : a = tbl[j].key
    BY JoinPick
<1>2. PICK p \in Int : p = tbl[j].pending
    BY <1>0 DEF Types, EntryType
<1>3. ASSUME NEW x \in Clients, Call(x) \/ Step(x) PROVE tbl'[j].pending > 0 \/ Finishing(c, a)'
    <2>1. CASE tbl'[j].pending = tbl[j].pending
        BY <2>1
    <2>2. CASE CountsOff(x) /\ j = loc[x].join /\ tbl'[j].pending = tbl[j].pending - 1
        <3>1. pc[x] = "link"
            BY <2>2 DEF CountsOff, Link
        <3>2. /\ loc[x].call = "array" /\ ArrayShape("link", loc[x])
              /\ Live(x) /\ ~Undoing(x) /\ JoinOf(x) = j
            BY <2>2, <3>1, LastIsLast
        <3>3. loc[x].arr = a /\ Making(x)
            BY <1>1, <3>2, AtChild DEF Live
        <3>4. x = c
            BY <1>1, <3>2, <3>3 DEF IInv, OwedOK
        <3>5. Step(x)
            BY <1>3, <3>1, CallStarts DEF MayCall
        <3>6. GoesOn(x) \/ Leaves(x)
            BY <1>0, <3>2, <3>3, <3>5, OwnMoves
        <3>7. loc'[x].arr = a /\ (loc'[x].sig <=> (tbl[j].pending = 1))
            <4>1. ~NoLink(x) /\ ~Appends(x)
                BY <2>2 DEF NoLink, CountsOff, Appends
            <4> QED BY <2>2, <3>3, <3>6, <4>1 DEF GoesOn, Leaves
        <3>8. p = 1 \/ p - 1 > 0
            BY <1>2
        <3>9. loc'[x].sig => Finishing(c, a)'
            BY <3>4, <3>7 DEF Finishing
        <3> QED BY <1>2, <2>2, <3>7, <3>8, <3>9
    <2> QED BY <1>3, <2>1, <2>2, PendingKept
<1>4. ASSUME NEW g \in Slots, CtlSignal(g) PROVE tbl'[j].pending > 0
    <2>1. CtlEffect(g)
        BY <1>4, CtlGoes
    <2>2. j \notin Full(g)
        BY <1>0, <2>1, FreshFacts, ClientsAssumption DEF CtlEffect
    <2>3. PICK t \in Nat : t = Times(g, j)
        BY <1>0, TimesFacts
    <2>4. tbl'[j].pending = p - t
        BY <1>2, <2>1, <2>2, <2>3 DEF CtlEffect
    <2>5. PICK h \in 1..(Size(a) + 1) : JoinHas(j, h)
        BY <1>1, JoinPick
    <2>6. p # t
        <3>1. SUFFICES ASSUME p = t PROVE FALSE
            OBVIOUS
        <3>2. Times(g, j) > 0
            BY <1>2, <2>3, <3>1
        <3>3. \E i \in 1..tbl[g].cnt : tbl[g].parents[i] = j
            BY <1>0, <3>2, TimesFacts
        <3>4. j # NoSlot
            BY EntriesAssumption DEF Slots, NoSlot
        <3> QED BY <1>2, <2>2, <2>3, <3>1, <3>3, <3>4 DEF Full, ParentsOf
    <2>7. t <= p
        <3>1. PICK k : k = tbl[g].key
            OBVIOUS
        <3>2. Cardinality(Left(a, h)) <= p /\ t <= Cardinality(Occurs(a, h, k))
            BY <1>1, <1>2, <2>1, <2>3, <2>5, <3>1 DEF JoinHas, CtlEffect
        <3>3. Size(a) \in Nat /\ conf \in Configs
            BY <1>0, ConfFacts DEF Types
        <3>4. h \in Int
            BY <2>5, <3>3
        <3>5. IsFiniteSet(Left(a, h)) /\ Cardinality(Left(a, h)) \in Nat /\ Cardinality(Occurs(a, h, k)) \in Nat
            BY <3>3, <3>4, LeftFinite
        <3>6. Occurs(a, h, k) \in SUBSET Left(a, h)
            BY <2>1, <3>1, <3>3, OccursIn DEF CtlEffect
        <3>7. Cardinality(Occurs(a, h, k)) <= Cardinality(Left(a, h))
            BY <3>5, <3>6, FS_Subset
        <3> QED BY <3>2, <3>5, <3>7
    <2> QED BY <2>4, <2>6, <2>7
<1>5. ASSUME UNCHANGED vars PROVE tbl'[j].pending > 0
    BY <1>5 DEF vars
<1>6. tbl'[j].pending > 0 \/ Finishing(c, a)'
    BY <1>3, <1>4, <1>5 DEF Next, Ctl
<1>7. conf'.children[tbl[j].key] = conf'.children[a]
    BY <1>1
<1> QED BY <1>1, <1>6, <1>7 DEF Finishing, Children

(* Every step keeps the waits. *)
LEMMA NoLostWaitStep == IInv /\ [Next]_vars => NoLostWait'
<1>a. IInv /\ [Next]_vars => PairsOK' /\ Children' = Children
    BY PairsStep, ConfFixed DEF Children
<1>b. IInv /\ [Next]_vars => \A w \in owed' : w = <<w[1], w[2]>> /\ w[1] \in Clients /\ w[2] \in Keys
    BY <1>a DEF PairsOK
<1> SUFFICES ASSUME IInv, [Next]_vars, NEW c \in Clients, NEW k \in Keys, <<c, k>> \in owed'
             PROVE  Held(c, k)' \/ Looking(c, k)' \/ Finishing(c, k)'
    BY <1>b DEF NoLostWait, Held, Looking, Finishing
<1>0. Types /\ Shapes /\ TableOK /\ conf' = conf /\ Children' = Children
    BY <1>a, ConfFixed DEF IInv
<1>1. CASE <<c, k>> \notin owed
    <2>1. CASE Register(c) /\ k = loc[c].key
        <3>1. pc'[c] = "recheck" /\ loc'[c].key = k
            BY <1>0, <2>1, RegisterGoes DEF Goes
        <3> QED BY <3>1 DEF Looking
    <2>2. CASE MaskJoin(c) /\ k = loc[c].arr
        <3>1. PICK e \in Slots : e = loc[c].ent
            BY <1>0, <2>2, NoLocalsFacts DEF MaskJoin, Shapes, Shape, ArrayShape
        <3>2. /\ pc[c] = "mask" /\ loc[c].call = "array" /\ loc'[c].arr = k
              /\ loc[c].idx = 1 /\ ~loc[c].sig /\ k \in Arrays /\ loc[c].op = "join" /\ loc[c].found = "mask"
            BY <1>0, <2>2, MaskGoes, NoLocalsFacts DEF Shapes, Shape, ArrayShape, Same
        <3>3. Size(k) \in Nat /\ (Size(k) = 0 => Children[k] = << >>)
            <4>1. Children[k] \in Seq(Keys) /\ Size(k) \in Nat
                BY <1>0, <3>2, ConfFacts DEF Types
            <4> QED BY <4>1 DEF Size
        <3>4. CASE Size(k) = 0
            BY <1>0, <3>2, <3>3, <3>4 DEF Finishing
        <3>5. CASE Size(k) # 0
            <4>1. Live(c) /\ ~Undoing(c) /\ JoinOf(c) = e
                BY <2>2, <3>1, <3>2, <3>3, <3>5 DEF Live, Making, Undoing, Failing, JoinOf
            <4>2. tbl[e].key = k /\ tbl[e].owner = JoinClient /\ tbl[e].valid /\ JoinHas(e, 1)
                BY <2>2, <3>2, <4>1, AtChild
            <4>3. Makers(e) = {c}
                BY <2>2, <3>2, <4>2 DEF Makers, IInv, CallsOK, ArrayOK
            <4>4. tbl[e].pending # 0 /\ Cardinality(Left(k, 1)) <= tbl[e].pending
                BY <3>2, <3>5, <4>2, <4>3 DEF JoinHas
            <4>5. Cardinality(Left(k, 1)) \in Nat /\ tbl[e].pending \in Int
                BY <1>0, <3>2, LeftFinite DEF Types, EntryType
            <4>6. tbl[e].pending > 0 /\ ~tbl[e].signaled
                BY <4>2, <4>4, <4>5, JoinPick
            <4>7. Only(e, {"mask"}) /\ c \in tbl'[e].mask
                BY <1>0, <2>2, <3>1, MaskTable
            <4>8. tbl'[e].key = k /\ tbl'[e].valid /\ ~tbl'[e].signaled /\ tbl'[e].pending > 0
                BY <4>2, <4>6, <4>7 DEF Only
            <4> QED BY <4>7, <4>8 DEF Held, Valid
        <3> QED BY <3>4, <3>5
    <2> QED BY <1>1, <2>1, <2>2, OwedFrom
<1>2. CASE <<c, k>> \in owed /\ Held(c, k)
    <2>1. PICK e \in Slots : Valid(e, k) /\ c \in tbl[e].mask /\ ~tbl[e].signaled /\ (k \in Arrays => tbl[e].pending > 0)
        BY <1>2 DEF Held
    <2>2. tbl[e].valid /\ tbl[e].key = k
        BY <2>1 DEF Valid
    <2>3. ASSUME NEW x \in Clients, NewEntry(x, e) PROVE FALSE
        BY <2>2, <2>3 DEF NewEntry
    <2>4. ASSUME NEW x \in Clients, OldEntry(x, e) PROVE FALSE
        <3>1. CASE loc[x].call = "array"
            <4>1. loc[x].arr = k /\ pc[x] = "probe" /\ loc[x].op = "destroy"
                BY <2>2, <2>4, <3>1 DEF OldEntry
            <4> QED BY <1>2, <3>1, <4>1 DEF IInv, OwedOK
        <3> QED BY <1>2, <2>1, <2>2, <2>4, <3>1 DEF OldEntry
    <2>5. ASSUME NEW g \in Slots, CtlSignal(g) PROVE e \notin {g} \cup Full(g)
        BY <2>1, <2>2, <2>5, CtlWaits DEF Serves
    <2>6. \A g \in Slots : CtlEffect(g) => e \notin Full(g)
        <3>1. SUFFICES ASSUME NEW g \in Slots, CtlEffect(g), e \in Full(g) PROVE FALSE
            OBVIOUS
        <3>2. tbl'[e] # tbl[e] /\ tbl'[e].owner # tbl[e].owner /\ tbl[e].owner = JoinClient /\ ~tbl'[e].valid
            <4>1. tbl[e].owner = JoinClient /\ tbl'[e] = FreeEntry
                BY <3>1 DEF CtlEffect
            <4>2. FreeEntry.owner # JoinClient /\ ~FreeEntry.valid
                BY <1>0, FreshFacts, ClientsAssumption
            <4> QED BY <4>1, <4>2
        <3>3. ASSUME NEW x \in Clients, Call(x) \/ Step(x) PROVE FALSE
            <4>1. done' = done
                BY <3>3, StepHistory
            <4> QED BY <3>1, <4>1 DEF CtlEffect
        <3>4. ASSUME NEW x \in Slots, CtlSignal(x) PROVE FALSE
            <4>1. CtlEffect(x)
                BY <3>4, CtlGoes
            <4>2. tbl[x].key = tbl[g].key
                BY <3>1, <4>1 DEF CtlEffect
            <4>3. x = g
                BY <1>0, <3>1, <4>1, <4>2 DEF CtlEffect, TableOK
            <4> QED BY <2>5, <3>1, <3>4, <4>3
        <3>5. CASE UNCHANGED vars
            BY <3>2, <3>5 DEF vars
        <3> QED BY <3>3, <3>4, <3>5 DEF Next, Ctl
    <2>7. tbl'[e].key = k /\ tbl'[e].owner = tbl[e].owner /\ tbl'[e].valid
        BY <2>2, <2>3, <2>4, <2>6, KeysAfter
    <2>8. ~tbl'[e].signaled
        BY <2>1, <2>2, <2>5, <2>7, SignaledBy
    <2>9. c \in tbl'[e].mask
        <3>1. ASSUME ClearWait(c), e = loc[c].slot PROVE FALSE
            BY <2>2, <3>1 DEF ClearWait
        <3> QED BY <2>1, <2>2, <2>7, <3>1, MaskStays
    <2>10. k \in Arrays => tbl'[e].pending > 0 \/ Finishing(c, k)'
        <3>1. SUFFICES ASSUME k \in Arrays PROVE tbl'[e].pending > 0 \/ Finishing(c, k)'
            OBVIOUS
        <3>2. tbl[e].owner = JoinClient
            BY <1>0, <2>2, <3>1 DEF TableOK, EntryOK
        <3>3. tbl'[e].pending > 0 \/ Finishing(c, tbl[e].key)'
            BY <1>2, <2>1, <2>2, <2>7, <3>1, <3>2, PendingStays
        <3> QED BY <2>2, <2>7, <3>3 DEF Finishing
    <2> QED BY <2>7, <2>8, <2>9, <2>10 DEF Held, Valid
<1>3. CASE <<c, k>> \in owed /\ Looking(c, k)
    <2>1. pc[c] = "recheck" /\ loc[c].key = k
        BY <1>3 DEF Looking
    <2>2. loc[c].call = "wait" /\ k \in Fences /\ loc[c].ent \in Slots
        BY <1>0, <2>1, NoLocalsFacts DEF Shapes, Shape, ArrayShape
    <2>3. CASE pc'[c] = pc[c] /\ loc'[c] = loc[c]
        BY <2>1, <2>3 DEF Looking
    <2>4. CASE Step(c)
        <3>1. Recheck(c) /\ tbl' = tbl
            BY <2>1, <2>4, StepAt DEF Recheck
        <3>2. tbl[loc[c].ent].key = k /\ c \in tbl[loc[c].ent].mask
            BY <2>1, <2>2 DEF IInv, CallsOK, WaitOK
        <3>3. ~tbl[loc[c].ent].signaled
            BY <3>1, <3>2 DEF Recheck, Signal
        <3>4. tbl[loc[c].ent].valid /\ k \notin Arrays
            BY <1>0, <2>2, <3>2, KeysAssumption DEF TableOK, EntryOK, Keys
        <3>5. PICK e \in Slots : e = loc[c].ent
            BY <2>2
        <3> QED BY <3>1, <3>2, <3>3, <3>4, <3>5 DEF Held, Valid
    <2>5. ~Call(c)
        BY <2>2, CallStarts, NoLocalsFacts
    <2> QED BY <2>3, <2>4, <2>5, CallsMove
<1>4. CASE <<c, k>> \in owed /\ Finishing(c, k)
    <2>1. loc[c].arr = k /\ (loc[c].sig \/ Children[k] = << >>)
        BY <1>4 DEF Finishing
    <2>2. loc[c].call = "array" /\ k \in Arrays /\ ArrayShape(pc[c], loc[c])
        BY <1>0, <2>1, NoLocalsFacts, KeysAssumption DEF Shapes, Shape, Keys, ArrayShape
    <2>3. CASE pc'[c] = pc[c] /\ loc'[c] = loc[c]
        BY <1>0, <2>1, <2>3 DEF Finishing
    <2>4. CASE Step(c)
        <3>1. pc[c] \in {"probe", "mask"} => loc[c].op = "find"
            BY <1>4, <2>1, <2>2 DEF IInv, OwedOK
        <3>2. Making(c)
            BY <2>2, <3>1 DEF Making
        <3>3. GoesOn(c) \/ Leaves(c)
            BY <1>0, <2>2, <2>4, <3>2, OwnMoves
        <3>4. Children[k] = << >> => Size(k) = 0
            BY DEF Size
        <3>5. ~Leaves(c)
            BY <2>1, <3>1, <3>4 DEF Leaves
        <3>6. loc'[c].arr = k
            BY <2>1, <3>3, <3>5 DEF GoesOn
        <3>7. loc[c].sig => loc'[c].sig
            <4>1. PICK n \in Nat : n = Size(k)
                BY <1>0, <2>2, ConfFacts DEF Types
            <4>2. loc[c].sig => loc[c].idx = n + 1
                BY <2>1, <2>2, <4>1 DEF ArrayShape
            <4>3. loc[c].sig => loc[c].idx \notin 1..n
                BY <4>2
            <4> QED BY <2>1, <3>3, <3>5, <4>1, <4>3 DEF GoesOn
        <3> QED BY <1>0, <2>1, <3>6, <3>7 DEF Finishing
    <2>5. ~Call(c)
        BY <2>2, CallStarts, NoLocalsFacts
    <2> QED BY <2>3, <2>4, <2>5, CallsMove
<1> QED BY <1>1, <1>2, <1>3, <1>4, WaitFor
----------------------------------------------------------------------------
(* The initial state: an empty table and idle clients. *)
LEMMA InitHolds == Init => IInv
<1> SUFFICES ASSUME Init PROVE IInv
    OBVIOUS
<1>0. /\ conf \in Configs /\ tbl = [e \in Slots |-> FreeEntry] /\ enabled = {}
      /\ pc = [c \in Clients |-> "idle"] /\ loc = [c \in Clients |-> NoLocals]
      /\ made = {} /\ done = {} /\ owed = {} /\ served = {} /\ bare = {}
    BY DEF Init
<1>1. MaxParents \in Nat /\ MaxParents > 0
    BY <1>0, ConfFacts
<1>2. FreeEntry \in EntryType
    <2>1. NoParents \in [1..MaxParents -> Slots \cup {NoSlot}]
        BY DEF NoParents
    <2>2. 0 \in 0..(MaxParents - 1)
        BY <1>1
    <2> QED BY <2>1, <2>2 DEF FreeEntry, EntryType
<1>3. Types
    BY <1>0, <1>2, NoLocalsType, Names DEF Types
<1>4. /\ EntryOK(FreeEntry)
      /\ FreeEntry.valid = FALSE /\ FreeEntry.key = NoKey /\ FreeEntry.owner = NoClient
      /\ FreeEntry.mask = {} /\ FreeEntry.cnt = 0 /\ FreeEntry.pending = 0
      /\ FreeEntry.signaled = FALSE
    BY <1>3, FreshFacts
<1>5. Shapes
    BY <1>0 DEF Shapes, Shape
<1>6. NoKey \notin Fences /\ NoClient # JoinClient /\ JoinClient \notin Clients
    BY KeysAssumption, ClientsAssumption DEF Keys
<1>7. TableOK
    BY <1>0, <1>4, <1>6 DEF TableOK
<1>8. \A c \in Clients : loc[c].call = "none" /\ pc[c] = "idle"
    BY <1>0, NoLocalsFacts
<1>9. CallsOK /\ ResetsOK /\ OwedOK
    BY <1>8 DEF CallsOK, CreateOK, DestroyOK, WaitOK, ArrayOK, ResetsOK, ResetOK, OwedOK
<1>10. LinksOK
    BY <1>0, <1>4 DEF LinksOK, Pointing
<1>11. SearchOK
    BY <1>8 DEF SearchOK, Ahead, UndoOK, Undoing
<1>12. JoinsOK
    BY <1>0, <1>4, <1>6 DEF JoinsOK
<1>13. PairsOK /\ NoLostWait /\ JoinSound
    BY <1>0 DEF PairsOK, NoLostWait, JoinSound
<1> QED BY <1>3, <1>5, <1>7, <1>9, <1>10, <1>11, <1>12, <1>13 DEF IInv

(* The invariant is inductive. *)
LEMMA StepHolds == IInv /\ QuietReset /\ [Next]_vars => IInv'
<1> SUFFICES ASSUME IInv, QuietReset, [Next]_vars PROVE IInv'
    OBVIOUS
<1>1. Types' /\ Shapes' /\ TableOK' /\ CallsOK' /\ ResetsOK'
    BY TypesStep, TableStep, CallsStep, ResetsStep
<1>2. LinksOK' /\ SearchOK' /\ JoinsOK' /\ OwedOK' /\ PairsOK' /\ NoLostWait' /\ JoinSound'
    BY LinksStep, SearchStep, JoinsStep, OwedStep, PairsStep, NoLostWaitStep, JoinSoundStep
<1> QED BY <1>1, <1>2 DEF IInv

(* The invariant contains the types. *)
LEMMA TypeHolds == IInv => TypeOK
<1> SUFFICES ASSUME IInv PROVE TypeOK
    OBVIOUS
<1>0. Types /\ TableOK /\ PairsOK
    BY DEF IInv
<1>1. ASSUME NEW e \in Slots PROVE tbl[e].pending \in Nat
    <2>1. tbl[e].pending \in Int
        BY <1>0 DEF Types, EntryType
    <2>2. CASE tbl[e].owner # JoinClient
        BY <1>0, <2>2 DEF TableOK, EntryOK
    <2>3. CASE tbl[e].owner = JoinClient
        <3>1. PICK a \in Arrays : a = tbl[e].key
            BY <2>3, JoinPick
        <3>2. PICK h \in 1..(Size(a) + 1) : JoinHas(e, h)
            BY <2>3, <3>1, JoinPick
        <3>3. Size(a) \in Nat /\ conf \in Configs
            BY <1>0, ConfFacts DEF Types
        <3>4. h \in Int
            BY <3>2, <3>3
        <3>5. Cardinality(Left(a, h)) \in Nat
            BY <3>3, <3>4, LeftFinite
        <3>6. Cardinality(Left(a, h)) <= tbl[e].pending
            BY <3>1, <3>2 DEF JoinHas
        <3> QED BY <2>1, <3>5, <3>6
    <2> QED BY <2>2, <2>3
<1>2. ASSUME NEW e \in Slots
      PROVE  /\ tbl[e].valid \in BOOLEAN /\ tbl[e].signaled \in BOOLEAN
             /\ tbl[e].key \in Keys \cup {NoKey}
             /\ tbl[e].valid <=> tbl[e].owner # NoClient
             /\ tbl[e].mask \subseteq Clients /\ tbl[e].data \subseteq Clients
             /\ tbl[e].parents \in [1..MaxParents -> Slots \cup {NoSlot}]
             /\ tbl[e].cnt \in 0..MaxParents
    <2>1. tbl[e] \in EntryType /\ EntryOK(tbl[e])
        BY <1>0 DEF Types, TableOK
    <2>2. tbl[e].cnt \in 0..(MaxParents - 1) /\ MaxParents \in Nat
        BY <2>1, ConfigsAssumption, <1>0, ConfFacts DEF EntryType, MaxParents, Types
    <2>3. tbl[e].cnt \in 0..MaxParents
        BY <2>2
    <2> QED BY <2>1, <2>3 DEF EntryType, EntryOK
<1>3. enabled \subseteq Fences /\ made \subseteq Fences /\ done \subseteq Fences
    BY <1>0 DEF TableOK
<1>4. pc \in [Clients -> Labels] /\ owed \cup served \cup bare \subseteq Clients \X Keys
    BY <1>0 DEF Types, PairsOK
<1> QED BY <1>1, <1>2, <1>3, <1>4 DEF TypeOK

(* With quiet resets, every state of the driver satisfies the invariant:   *)
(* the table, the calls and the links fit together as described above.     *)
THEOREM TableInvariant == ASSUME QuietReset PROVE Spec => []IInv
<1>1. IInv /\ [Next]_vars => IInv'
    BY StepHolds
<1> QED BY <1>1, InitHolds, PTL DEF Spec

(* The entries of the table and the bits of the fences have their types,   *)
(* pending never goes below zero, and a child never has more parents than  *)
(* its list has room for (hw_fence_process_fence_array).                   *)
THEOREM TableTypes == ASSUME QuietReset PROVE Spec => []TypeOK
BY TableInvariant, TypeHolds, PTL

(* No registered client is forgotten: it is in the mask of a fence that is *)
(* still to be signaled, or is about to look at the flag or to signal its  *)
(* join itself.  So a registration racing with the signal of the Fence CTL *)
(* is never lost.                                                          *)
THEOREM WaitsAreKept == ASSUME QuietReset PROVE Spec => []NoLostWait
<1>1. IInv => NoLostWait
    BY DEF IInv
<1> QED BY <1>1, TableInvariant, PTL

(* The client of a fence array is signaled only when all the fences of the *)
(* array are, for any order of the calls, the signals and the links.       *)
THEOREM JoinsAreSound == ASSUME QuietReset PROVE Spec => []JoinSound
<1>1. IInv => JoinSound
    BY DEF IInv
<1> QED BY <1>1, TableInvariant, PTL

(* A lookup that gives up has been at the last entry of its probe path, so *)
(* what it is after, being not behind it, would be where it is now.        *)
LEMMA MissStep ==
    ASSUME IInv, [Next]_vars, NEW c \in Clients,
           pc[c] = "probe", ~IsCreate(loc[c].op), loc[c].found # "cut", pc'[c] # "probe",
           ~Matches(loc[c].op, ProbeAt(loc[c].key, loc[c].step), loc[c].key),
           NEW e \in Slots
    PROVE  ~Valid(e, loc[c].key)
<1>1. PICK l \in LocType : l = loc[c]
    BY DEF IInv, Types
<1>2. Probe(c)
    <2>1. ~Call(c)
        BY CallStarts DEF MayCall
    <2> QED BY <2>1, CallsMove, StepAt
<1>3. PICK g : g = ProbeAt(l.key, l.step)
    OBVIOUS
<1>4. FindStops(l, g)
    <2>1. Types /\ Shapes
        BY DEF IInv
    <2> QED BY <1>1, <1>2, <1>3, <2>1, ProbeGoes DEF Goes
<1>5. tbl[g].key # l.key /\ l.step + 1 = Entries
    BY <1>1, <1>3, <1>4 DEF Matches, FindStops
<1>6. ASSUME tbl[e].key = l.key PROVE FALSE
    <2>1. AheadOf(c, e)
        BY <1>1, <1>6 DEF IInv, SearchOK, Ahead
    <2>2. PICK x \in l.step..(Entries - 1) : e = ProbeAt(l.key, x)
        BY <1>1, <2>1 DEF AheadOf
    <2>3. l.step \in Int /\ Entries \in Int
        BY EntriesAssumption DEF LocType, Slots
    <2>4. x = l.step
        BY <1>5, <2>3
    <2> QED BY <1>3, <1>5, <1>6, <2>2, <2>4
<1> QED BY <1>1, <1>6 DEF Valid

(* A lookup takes no lock on the table, and entries are freed and reused   *)
(* around it: still it fails only for a key that is not in the table       *)
(* (_hw_fence_lookup_and_process, which goes on over free entries).        *)
THEOREM LookupsFind == ASSUME QuietReset PROVE Spec => FindsPresent
<1>1. IInv /\ [Next]_vars =>
          [\A c \in Clients :
              /\ pc[c] = "probe" /\ ~IsCreate(loc[c].op) /\ loc[c].found # "cut"
              /\ pc'[c] # "probe"
              /\ ~Matches(loc[c].op, ProbeAt(loc[c].key, loc[c].step), loc[c].key)
              => \A e \in Slots : ~Valid(e, loc[c].key)]_vars
    BY MissStep
<1> QED BY <1>1, TableInvariant, PTL DEF Spec, FindsPresent
============================================================================
