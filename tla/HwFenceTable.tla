---------------------------- MODULE HwFenceTable ----------------------------
(***************************************************************************)
(* The global table of the hardware-fence driver: an open-addressed table  *)
(* of fences in memory shared with the Fence CTL, keyed by the context and *)
(* seqno of a dma_fence, with one lock per entry and none for the table.   *)
(* Clients create and destroy fences, wait for one fence, wait for a fence *)
(* array (which makes a join fence counting its children) and reset.       *)
(*                                                                         *)
(* A lookup probes one entry per step; a section under an entry's lock is  *)
(* one step, as is the lock of a join nested in the lock of a child; what  *)
(* the code reads without a lock is a step of its own.  A client makes one *)
(* call at a time.  The Fence CTL is not in the repository: it is taken to *)
(* follow the lock order of the driver, child before join.                 *)
(***************************************************************************)
EXTENDS Integers, Sequences, FiniteSets

CONSTANTS
    Clients, Producers, Waiters, Resetters,  \* who makes fences, waits and resets
    Fences, Arrays,               \* keys: dma_fences and dma_fence_arrays
    NoKey, NoClient, JoinClient,
    Entries,                      \* hw_fence_table_entries
    Hash,                         \* _calculate_hash at step 0
    Configs,                      \* records: fences, the fences that clients create;
                                  \* children, [Arrays -> sequences of keys];
                                  \* maxParents, MSM_HW_FENCE_MAX_JOIN_PARENTS;
                                  \* maxResets, bound on the resets
    MaxWaits,                     \* bound on the wait calls of one client
    QuietReset                    \* TRUE: nobody else calls the driver during a reset

Keys == Fences \cup Arrays
Slots == 0..(Entries - 1)
NoSlot == Entries

ASSUME EntriesAssumption == Entries \in Nat \ {0}
ASSUME KeysAssumption == /\ NoKey \notin Keys /\ Fences \cap Arrays = {}
                         /\ Hash \in [Keys \cup {NoKey} -> Slots]
ASSUME ClientsAssumption == /\ Producers \cup Waiters \cup Resetters = Clients
                            /\ {NoClient, JoinClient} \cap Clients = {}
                            /\ NoClient # JoinClient
ASSUME ConfigsAssumption == \A c \in Configs :
                               /\ c.fences \subseteq Fences /\ c.children \in [Arrays -> Seq(Keys)]
                               /\ c.maxParents \in Nat \ {0} /\ c.maxResets \in Nat
ASSUME BoundsAssumption == MaxWaits \in Nat /\ QuietReset \in BOOLEAN

VARIABLES
    conf,     \* the configuration
    tbl,      \* the table
    enabled,  \* fences with MSM_HW_FENCE_FLAG_ENABLED_BIT
    pc, loc,  \* each client's call: step and locals
    made,     \* history: fences that were given to create
    done,     \* history: fences the Fence CTL signaled
    owed,     \* history: <<client, key>> registered and not signaled yet
    served,   \* history: <<client, key>> signaled
    bare,     \* history: <<client, key>> signaled without the data passed by the client
    waits, resets

history == <<made, done, owed, served, bare>>
bounds == <<waits, resets, conf>>
vars == <<tbl, enabled, pc, loc, history, bounds>>

Children == conf.children
MaxParents == conf.maxParents

----------------------------------------------------------------------------
(* _cleanup_hw_fence; a free entry has the key zero. *)
NoParents == [j \in 1..MaxParents |-> NoSlot]
FreeEntry == [valid |-> FALSE, key |-> NoKey, mask |-> {}, signaled |-> FALSE,
              owner |-> NoClient, parents |-> NoParents, cnt |-> 0, pending |-> 0,
              data |-> {}]

(* _reserve_hw_fence and _reserve_join_fence. *)
Reserved(k, o, n) ==
    [FreeEntry EXCEPT !.valid = TRUE, !.key = k, !.owner = o, !.pending = n]

(* The compare function and the process function of each lookup.  Matching *)
(* a key does not look at valid.                                           *)
IsCreate(op) == op \in {"create", "join"}
Matches(op, e, k) == IF IsCreate(op) THEN ~tbl[e].valid ELSE tbl[e].key = k
Processed(op, c, e, k) ==
    CASE op = "create"  -> Reserved(k, c, 0)
      [] op = "join"    -> Reserved(k, JoinClient, Len(Children[k]))
      [] op = "destroy" -> FreeEntry
      [] op = "find"    -> tbl[e]

(* _calculate_hash: linear probing over the whole table. *)
ProbeAt(k, step) == (Hash[k] + step) % Entries

NoLocals == [call |-> "none", op |-> "none", key |-> NoKey, step |-> 0, found |-> "idle",
             failed |-> "idle", ent |-> NoSlot, arr |-> NoKey, idx |-> 0, join |-> NoSlot,
             sig |-> FALSE, slot |-> 0, todo |-> {}, keep |-> FALSE]

(* Enter _hw_fence_lookup_and_process with the two places to go on from. *)
Look(c, l, op, k, found, failed) ==
    /\ pc' = [pc EXCEPT ![c] = "probe"]
    /\ loc' = [loc EXCEPT ![c] = [l EXCEPT !.op = op, !.key = k, !.step = 0,
                                           !.found = found, !.failed = failed]]

Goto(c, label) == pc' = [pc EXCEPT ![c] = label] /\ UNCHANGED loc
Return(c) == pc' = [pc EXCEPT ![c] = "idle"] /\ loc' = [loc EXCEPT ![c] = NoLocals]
GotoWith(c, label, l) ==
    IF label = "idle" THEN Return(c)
    ELSE pc' = [pc EXCEPT ![c] = label] /\ loc' = [loc EXCEPT ![c] = l]

(* One iteration of the lookup's loop. *)
FindStops_AtFree(l, e) ==
    \/ IsCreate(l.op) /\ tbl[e].key = l.key
    \/ ~tbl[e].valid
    \/ l.step + 1 = Entries
FindStops(l, e) ==
    \/ IsCreate(l.op) /\ tbl[e].key = l.key
    \/ l.step + 1 = Entries
Probe(c) ==
    LET l == loc[c]
        e == ProbeAt(l.key, l.step)
    IN  /\ pc[c] = "probe"
        /\ \/ /\ Matches(l.op, e, l.key)
              /\ tbl' = [tbl EXCEPT ![e] = Processed(l.op, c, e, l.key)]
              /\ GotoWith(c, l.found, [l EXCEPT !.ent = e])
           \/ /\ ~Matches(l.op, e, l.key)
              /\ FindStops(l, e)
              /\ GotoWith(c, l.failed, l)
              /\ UNCHANGED tbl
           \/ /\ ~Matches(l.op, e, l.key)
              /\ ~FindStops(l, e)
              /\ GotoWith(c, "probe", [l EXCEPT !.step = @ + 1])
              /\ UNCHANGED tbl
        /\ UNCHANGED <<enabled, history, bounds>>

----------------------------------------------------------------------------
(* What the callers are taken to do.  A seqno is used once.  Who waits for *)
(* a fence holds a reference to it, and a fence is destroyed when it is    *)
(* signaled and no call holds a reference.  An array is waited for once at *)
(* a time.  With QuietReset, nobody calls the driver during a reset, and   *)
(* no child of a join is reset away.                                       *)
ChildOf(k, a) == \E i \in 1..Len(Children[a]) : Children[a][i] = k
InUse(k) ==
    \E o \in Clients :
        \/ loc[o].call = "wait" /\ loc[o].key = k
        \/ loc[o].call = "array" /\ ChildOf(k, loc[o].arr)
MayDestroy(k) == k \in done /\ ~InUse(k)
MayHold(k) == \A o \in Clients : loc[o].call = "destroy" => loc[o].key # k
MayCall(c) ==
    /\ pc[c] = "idle"
    /\ QuietReset => \A o \in Clients : loc[o].call # "reset"
MayReset(c, keep) ==
    QuietReset => /\ \A o \in Clients : pc[o] = "idle"
                  /\ keep \/ \A e \in Slots : tbl[e].owner = c => tbl[e].cnt = 0
ArrayFree(a) == /\ \A e \in Slots : tbl[e].key # a
                /\ \A o \in Clients : loc[o].arr # a
                /\ \A k \in Fences : ChildOf(k, a) => MayHold(k)

----------------------------------------------------------------------------
(* msm_hw_fence_create: refused for a fence that is a hw-fence already.    *)
Create(c, f) ==
    /\ MayCall(c) /\ f \in conf.fences \ made
    /\ f \notin enabled
    /\ Look(c, [NoLocals EXCEPT !.call = "create"], "create", f, "enable", "idle")
    /\ made' = made \cup {f}
    /\ UNCHANGED <<tbl, enabled, done, owed, served, bare, bounds>>

Enable(c) ==
    /\ pc[c] = "enable"
    /\ enabled' = enabled \cup {loc[c].key}
    /\ Return(c)
    /\ UNCHANGED <<tbl, history, bounds>>

(* msm_hw_fence_destroy. *)
Destroy(c, f) ==
    /\ MayCall(c) /\ MayDestroy(f)
    /\ f \in enabled
    /\ Look(c, [NoLocals EXCEPT !.call = "destroy"], "destroy", f, "disable", "idle")
    /\ UNCHANGED <<tbl, enabled, history, bounds>>

Disable(c) ==
    /\ pc[c] = "disable"
    /\ enabled' = enabled \ {loc[c].key}
    /\ Return(c)
    /\ UNCHANGED <<tbl, history, bounds>>

(* msm_hw_fence_destroy_with_handle: for its allocator only, and the       *)
(* dma_fence keeps its flag.                                               *)
DestroyWithHandle(c, e) ==
    /\ MayCall(c) /\ MayDestroy(tbl[e].key)
    /\ tbl[e].owner = c
    /\ Look(c, [NoLocals EXCEPT !.call = "destroy"], "destroy", tbl[e].key, "idle", "idle")
    /\ UNCHANGED <<tbl, enabled, history, bounds>>

----------------------------------------------------------------------------
(* _fence_ctl_signal to client c for key k: the error callback, or a write *)
(* to its Rx queue and an interrupt.                                       *)
Signal(who, d) ==
    /\ owed' = owed \ who
    /\ served' = served \cup who
    /\ bare' = bare \cup (who \ d)

(* hw_fence_process_fence *)
Wait(c, f) ==
    /\ MayCall(c) /\ waits[c] < MaxWaits /\ MayHold(f)
    /\ f \in enabled
    /\ Look(c, [NoLocals EXCEPT !.call = "wait"], "find", f, "register", "idle")
    /\ waits' = [waits EXCEPT ![c] = @ + 1]
    /\ UNCHANGED <<tbl, enabled, history, resets, conf>>

(* hw_fence_register_wait_client, under the lock of the entry it found. *)
Register(c) ==
    LET e == loc[c].ent IN
    /\ pc[c] = "register"
    /\ tbl' = [tbl EXCEPT ![e].mask = @ \cup {c}, ![e].data = @ \cup {c}]
    /\ owed' = owed \cup {<<c, loc[c].key>>}
    /\ Goto(c, "recheck")
    /\ UNCHANGED <<enabled, made, done, served, bare, bounds>>

(* After the unlock: if the fence is signaled by now, signal the client. *)
Recheck_Late(c) ==
    /\ pc[c] = "recheck"
    /\ Return(c)
    /\ UNCHANGED <<tbl, enabled, history, bounds>>
Recheck(c) ==
    LET e == loc[c].ent IN
    /\ pc[c] = "recheck"
    /\ IF tbl[e].signaled
       THEN Signal({<<c, tbl[e].key>>}, {<<c, tbl[e].key>>}) /\ UNCHANGED <<made, done>>
       ELSE UNCHANGED history
    /\ Return(c)
    /\ UNCHANGED <<tbl, enabled, bounds>>

----------------------------------------------------------------------------
(* hw_fence_process_fence_array: make the join fence, *)
WaitArray(c, a) ==
    /\ MayCall(c) /\ waits[c] < MaxWaits /\ ArrayFree(a)
    /\ Look(c, [NoLocals EXCEPT !.call = "array", !.arr = a, !.idx = 1], "join", a, "mask", "idle")
    /\ waits' = [waits EXCEPT ![c] = @ + 1]
    /\ UNCHANGED <<tbl, enabled, history, resets, conf>>

(* put the client in its mask, *)
MaskJoin(c) ==
    LET e == loc[c].ent IN
    /\ pc[c] = "mask"
    /\ tbl' = [tbl EXCEPT ![e].mask = @ \cup {c}]
    /\ owed' = owed \cup {<<c, loc[c].arr>>}
    /\ GotoWith(c, "child", [loc[c] EXCEPT !.join = e])
    /\ UNCHANGED <<enabled, made, done, served, bare, bounds>>

(* and for every child: it must be a hw-fence, not an array, and be found. *)
Child(c) ==
    LET l == loc[c]
        kids == Children[l.arr]
    IN  /\ pc[c] = "child"
        /\ \/ /\ l.idx > Len(kids)
              /\ Goto(c, "store")
           \/ /\ l.idx <= Len(kids)
              /\ kids[l.idx] \notin enabled
              /\ Goto(c, "unlink")
           \/ /\ l.idx <= Len(kids)
              /\ kids[l.idx] \in enabled
              /\ Look(c, l, "find", kids[l.idx], "link", "unlink")
        /\ UNCHANGED <<tbl, enabled, history, bounds>>

(* Under its lock, a signaled child is counted off the join at once, under *)
(* the join's lock, and any other child gets the join as a parent.  The    *)
(* count is increased before it is compared with the maximum.              *)
ChildSignaled_Unseen(e) == FALSE
ChildSignaled(e) == tbl[e].signaled
LastChild_Early(n) == n <= 1
LastChild_Never(n) == FALSE
LastChild(n) == n = 0
TooMany_Unchecked(n) == FALSE
TooMany(n) == n >= MaxParents
Link(c) ==
    LET l == loc[c]
        e == l.ent
        n == tbl[e].cnt + 1
        left == tbl[l.join].pending - 1
    IN  /\ pc[c] = "link"
        /\ \/ /\ ChildSignaled(e)
              /\ tbl' = [tbl EXCEPT ![l.join].pending = left]
              /\ GotoWith(c, "child", [l EXCEPT !.idx = @ + 1, !.sig = @ \/ LastChild(left)])
           \/ /\ ~ChildSignaled(e) /\ ~TooMany(n)
              /\ tbl' = [tbl EXCEPT ![e].cnt = n, ![e].parents[n] = l.join]
              /\ GotoWith(c, "child", [l EXCEPT !.idx = @ + 1])
           \/ /\ ~ChildSignaled(e) /\ TooMany(n)
              /\ Goto(c, "unlink")
              /\ UNCHANGED tbl
        /\ UNCHANGED <<enabled, history, bounds>>

(* The client's data goes into the join without a lock; the join may be    *)
(* signaled and freed by then.  An array without children (its list of     *)
(* fences is gone) is refused.                                             *)
StoreData(c) ==
    LET l == loc[c] IN
    /\ pc[c] = "store"
    /\ tbl' = [tbl EXCEPT ![l.join].data = @ \cup {c}]
    /\ \/ l.sig /\ Goto(c, "sigjoin")
       \/ ~l.sig /\ Children[l.arr] = << >> /\ GotoWith(c, "unlink", [l EXCEPT !.idx = 0])
       \/ ~l.sig /\ Children[l.arr] # << >> /\ Return(c)
    /\ UNCHANGED <<enabled, history, bounds>>

(* All children were signaled: signal the client and destroy the join. *)
SignalJoin(c) ==
    LET l == loc[c]
        k == tbl[l.join].key
    IN  /\ pc[c] = "sigjoin"
        /\ Signal({<<c, k>>}, {<<c, k>>})
        /\ Look(c, l, "destroy", l.arr, "idle", "idle")
        /\ UNCHANGED <<tbl, enabled, made, done, bounds>>

(* _cleanup_join_and_child_fences: from the child that failed back to the  *)
(* first, then destroy the join; the call fails.                           *)
Unlink(c) ==
    LET l == loc[c] IN
    /\ pc[c] = "unlink"
    /\ \/ /\ l.idx > 0
          /\ Look(c, l, "find", Children[l.arr][l.idx], "cut", "next")
          /\ UNCHANGED owed
       \/ /\ l.idx = 0
          /\ Look(c, l, "destroy", l.arr, "idle", "idle")
          /\ owed' = owed \ {<<c, l.arr>>}
    /\ UNCHANGED <<tbl, enabled, made, done, served, bare, bounds>>

(* Every occurrence of the join among the first parents_cnt parents is     *)
(* blanked, the others stay where they are.                                *)
Cut(c) ==
    LET l == loc[c]
        e == tbl[l.ent]
        cut == {j \in 1..e.cnt : e.parents[j] = l.join}
    IN  /\ pc[c] = "cut"
        /\ tbl' = [tbl EXCEPT ![l.ent].cnt = @ - Cardinality(cut),
                      ![l.ent].parents = [j \in 1..MaxParents |->
                                             IF j \in cut THEN NoSlot ELSE @[j]]]
        /\ GotoWith(c, "unlink", [l EXCEPT !.idx = @ - 1])
        /\ UNCHANGED <<enabled, history, bounds>>
SkipChild(c) ==
    /\ pc[c] = "next"
    /\ GotoWith(c, "unlink", [loc[c] EXCEPT !.idx = @ - 1])
    /\ UNCHANGED <<tbl, enabled, history, bounds>>

----------------------------------------------------------------------------
(* msm_hw_fence_reset_client: hw_fence_utils_cleanup_fence for every entry *)
(* of the table; keep is MSM_HW_FENCE_RESET_WITHOUT_DESTROY.               *)
Reset(c, keep) ==
    /\ MayCall(c) /\ MayReset(c, keep) /\ resets < conf.maxResets
    /\ GotoWith(c, "clear", [NoLocals EXCEPT !.call = "reset", !.keep = keep])
    /\ resets' = resets + 1
    /\ UNCHANGED <<tbl, enabled, history, waits, conf>>

(* Under the lock, the client gives up its own wait. *)
ClearWait(c) ==
    LET e == loc[c].slot IN
    /\ pc[c] = "clear"
    /\ tbl' = [tbl EXCEPT ![e].mask = @ \ {c}]
    /\ owed' = owed \ {<<c, tbl[e].key>>}
    /\ Goto(c, "check")
    /\ UNCHANGED <<enabled, made, done, served, bare, bounds>>

(* The rest has no lock: is it a fence of the client, is it signaled?      *)
ToSignal(e) == IF tbl[e].signaled THEN {} ELSE Clients
CheckOwner(c) ==
    LET e == loc[c].slot IN
    /\ pc[c] = "check"
    /\ \/ /\ tbl[e].owner # c
          /\ Goto(c, "advance")
       \/ /\ tbl[e].owner = c
          /\ GotoWith(c, "error", [loc[c] EXCEPT !.todo = ToSignal(e)])
    /\ UNCHANGED <<tbl, enabled, history, bounds>>

(* _signal_all_wait_clients: one client of the mask after the other, in    *)
(* the order of their ids; then the destroy, by the key the entry has now. *)
SignalError(c) ==
    LET l == loc[c]
        w == CHOOSE o \in l.todo : TRUE
        k == tbl[l.slot].key
        data == {<<o, k>> : o \in tbl[l.slot].data}
    IN  /\ pc[c] = "error"
        /\ \/ /\ l.todo # {}
              /\ IF w \in tbl[l.slot].mask
                 THEN Signal({<<w, k>>}, data) /\ UNCHANGED <<made, done>>
                 ELSE UNCHANGED history
              /\ GotoWith(c, "error", [l EXCEPT !.todo = @ \ {w}])
           \/ /\ l.todo = {} /\ ~l.keep
              /\ Look(c, l, "destroy", k, "advance", "advance")
              /\ UNCHANGED history
           \/ /\ l.todo = {} /\ l.keep
              /\ Goto(c, "advance")
              /\ UNCHANGED history
        /\ UNCHANGED <<tbl, enabled, bounds>>

NextEntry(c) ==
    LET l == loc[c] IN
    /\ pc[c] = "advance"
    /\ IF l.slot + 1 < Entries
       THEN GotoWith(c, "clear", [l EXCEPT !.slot = @ + 1, !.ent = NoSlot])
       ELSE Return(c)
    /\ UNCHANGED <<tbl, enabled, history, bounds>>

----------------------------------------------------------------------------
(* The Fence CTL takes a signal from a Tx queue: under the fence's lock it *)
(* sets the flag, signals the clients of the mask, and counts the fence    *)
(* off each of its parents; a parent with nothing pending is signaled in   *)
(* the same way and freed, its job being finished.                         *)
ParentsOf(e) == {tbl[e].parents[j] : j \in 1..tbl[e].cnt} \ {NoSlot}
Times(e, s) == Cardinality({j \in 1..tbl[e].cnt : tbl[e].parents[j] = s})
CtlSignal(e) ==
    LET full == {s \in ParentsOf(e) : tbl[s].pending = Times(e, s)}
        told == {e} \cup full
        who  == UNION {{<<c, tbl[s].key>> : c \in tbl[s].mask} : s \in told}
        data == UNION {{<<c, tbl[s].key>> : c \in tbl[s].data} : s \in told}
    IN  /\ tbl[e].valid /\ tbl[e].owner # JoinClient /\ ~tbl[e].signaled
        /\ tbl' = [s \in Slots |->
                      IF s = e THEN [tbl[s] EXCEPT !.signaled = TRUE]
                      ELSE IF s \in full THEN FreeEntry
                      ELSE [tbl[s] EXCEPT !.pending = @ - Times(e, s)]]
        /\ done' = done \cup {tbl[e].key}
        /\ Signal(who, data)
        /\ UNCHANGED <<enabled, pc, loc, made, bounds>>

----------------------------------------------------------------------------
Init ==
    /\ conf \in Configs
    /\ tbl = [e \in Slots |-> FreeEntry]
    /\ enabled = {}
    /\ pc = [c \in Clients |-> "idle"]
    /\ loc = [c \in Clients |-> NoLocals]
    /\ made = {} /\ done = {} /\ owed = {} /\ served = {} /\ bare = {}
    /\ waits = [c \in Clients |-> 0]
    /\ resets = 0

Call(c) ==
    \/ \E f \in Fences : c \in Producers /\ (Create(c, f) \/ Destroy(c, f))
    \/ \E e \in Slots : c \in Producers /\ DestroyWithHandle(c, e)
    \/ \E f \in Fences : c \in Waiters /\ Wait(c, f)
    \/ \E a \in Arrays : c \in Waiters /\ WaitArray(c, a)
    \/ \E keep \in BOOLEAN : c \in Resetters /\ Reset(c, keep)

Step(c) ==
    \/ Probe(c) \/ Enable(c) \/ Disable(c)
    \/ Register(c) \/ Recheck(c)
    \/ MaskJoin(c) \/ Child(c) \/ Link(c) \/ StoreData(c) \/ SignalJoin(c)
    \/ Unlink(c) \/ Cut(c) \/ SkipChild(c)
    \/ ClearWait(c) \/ CheckOwner(c) \/ SignalError(c) \/ NextEntry(c)

Ctl == \E e \in Slots : CtlSignal(e)

Next == (\E c \in Clients : Call(c) \/ Step(c)) \/ Ctl

Spec == Init /\ [][Next]_vars

(* A call that was made goes on, and the Fence CTL handles every signal:   *)
(* every fence made is signaled in the end.                                *)
FairSpec == Spec /\ (\A c \in Clients : WF_vars(Step(c))) /\ WF_vars(Ctl)

----------------------------------------------------------------------------
Labels == {"idle", "probe", "enable", "disable", "register", "recheck", "mask", "child",
           "link", "store", "sigjoin", "unlink", "cut", "next", "clear", "check", "error",
           "advance"}

(* A child never has more parents than its list has room for. *)
TypeOK ==
    /\ \A e \in Slots :
          /\ tbl[e].valid \in BOOLEAN /\ tbl[e].signaled \in BOOLEAN
          /\ tbl[e].key \in Keys \cup {NoKey}
          /\ tbl[e].valid <=> tbl[e].owner # NoClient
          /\ tbl[e].mask \subseteq Clients /\ tbl[e].data \subseteq Clients
          /\ tbl[e].parents \in [1..MaxParents -> Slots \cup {NoSlot}]
          /\ tbl[e].cnt \in 0..MaxParents
          /\ tbl[e].pending \in Nat
    /\ enabled \subseteq Fences /\ made \subseteq Fences /\ done \subseteq Fences
    /\ pc \in [Clients -> Labels]
    /\ owed \cup served \cup bare \subseteq Clients \X Keys

Valid(e, k) == tbl[e].valid /\ tbl[e].key = k

(* A client that registered for a fence and was not signaled is in the     *)
(* mask of an entry the Fence CTL has still to signal, or is about to look *)
(* at the flag itself; a client of a join is in the mask of a join with    *)
(* children pending, or is about to signal it itself (or to refuse an      *)
(* array without fences).                                                  *)
NoLostWait ==
    \A w \in owed : LET c == w[1]
                        k == w[2] IN
        \/ \E e \in Slots : Valid(e, k) /\ c \in tbl[e].mask /\ ~tbl[e].signaled
                            /\ (k \in Arrays => tbl[e].pending > 0)
        \/ pc[c] = "recheck" /\ loc[c].key = k
        \/ loc[c].arr = k /\ (loc[c].sig \/ Children[k] = << >>)

(* What a join has pending is the children the call that made it has still *)
(* to handle, plus the unsignaled children that name it as a parent.       *)
(* Nothing else decides when its client is signaled.                       *)
Makers(j) == {c \in Clients : loc[c].arr = tbl[j].key}
Failing(c) == loc[c].op = "destroy" \/ loc[c].found = "cut" \/ pc[c] \in {"unlink", "cut", "next"}
LinksTo(j, p) ==
    LET e == tbl[p[1]] IN
    e.valid /\ ~e.signaled /\ p[2] <= e.cnt /\ e.parents[p[2]] = j
Linked(j) == Cardinality({p \in Slots \X (1..MaxParents) : LinksTo(j, p)})
JoinCounts ==
    \A j \in Slots : tbl[j].owner = JoinClient =>
        /\ Makers(j) = {} => tbl[j].pending = Linked(j)
        /\ \A c \in Makers(j) :
              IF Failing(c) THEN tbl[j].pending >= Linked(j)
              ELSE tbl[j].pending = Linked(j) + Len(Children[loc[c].arr]) + 1 - loc[c].idx

(* The client of an array is signaled only when all its fences are, by the *)
(* Fence CTL as well as by the call that finds them signaled.              *)
JoinSound ==
    \A w \in served : w[2] \in Arrays =>
        \A i \in 1..Len(Children[w[2]]) : Children[w[2]][i] \in done

(* A lookup without a lock on the table, with entries freed and reused     *)
(* around it, fails only for a key that is not there.  (The lookups of a   *)
(* cleanup may miss a child made meanwhile, which they never linked.)      *)
FindsPresent ==
    [][\A c \in Clients :
          /\ pc[c] = "probe" /\ ~IsCreate(loc[c].op) /\ loc[c].found # "cut"
          /\ pc'[c] # "probe"
          /\ ~Matches(loc[c].op, ProbeAt(loc[c].key, loc[c].step), loc[c].key)
          => \A e \in Slots : ~Valid(e, loc[c].key)]_vars

(* "if fence is not signaled, signal with error all the waiting clients":  *)
(* a reset destroys an unsignaled fence only after it signaled everyone    *)
(* who waits for it.  The mask is read and the fence destroyed without a   *)
(* lock held over both.                                                    *)
ResetSignalsWaiters ==
    [][\A e \in Slots :
          tbl[e].valid /\ ~tbl'[e].valid /\ ~tbl[e].signaled /\ tbl[e].owner \in Clients
          => \A c \in tbl[e].mask : <<c, tbl[e].key>> \notin owed]_vars

(* "Maximum number of parents that a fence can have for a join-fence": a   *)
(* child is refused another parent only when it has that many.             *)
ParentsUpToMax ==
    [][\A c \in Clients :
          pc[c] = "link" /\ pc'[c] = "unlink" => tbl[loc[c].ent].cnt >= MaxParents]_vars

(* "parent_cnt: total number of parents for a child-fence": the parents of *)
(* a child are the first parents_cnt of its list.                          *)
ParentsCounted ==
    \A e \in Slots : \A i \in 1..MaxParents :
        tbl[e].parents[i] # NoSlot <=> i <= tbl[e].cnt

(* The data a client passed with its wait on an array comes back to it     *)
(* when the array is signaled.                                             *)
JoinDataReturned == \A w \in bare : w[2] \notin Arrays

(* Whoever registered for a fence or an array is signaled or gives up: the *)
(* number of waits being bounded, in the end nobody waits.                 *)
WaitersServed == <>[](owed = {})
=============================================================================
