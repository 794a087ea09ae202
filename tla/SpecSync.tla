------------------------------ MODULE SpecSync ------------------------------
(***************************************************************************)
(* The speculative sync driver (mm-drivers/sync_fence): user space creates *)
(* a fence array filled with a dummy fence, hands its fd on, and binds the *)
(* real fences to it later.  The driver tracks the arrays it made, wakes   *)
(* kernel threads that wait for the bind, and signals what is left when    *)
(* the last device fd is released.                                         *)
(*                                                                         *)
(* A section under l_lock or under the lock of an array's fence is one     *)
(* step.  dma_fence and dma_fence_array are the kernel's: reference        *)
(* counts, num_pending, callbacks on the children and the deferred signal  *)
(* are modelled as this driver uses them.                                  *)
(***************************************************************************)
EXTENDS Integers, Sequences, FiniteSets

CONSTANTS
    Threads,     \* user threads in ioctls
    Waiters,     \* kernel threads in spec_sync_wait_bind_array
    Arrays,      \* fence arrays, each created once
    NoArray,
    Shapes,      \* [Arrays -> sets of <<num_fences, signal_any>> user space asks for]
    FdLists,     \* [Arrays -> sets of sequences of fds user space binds]
    Fences,      \* fences of other drivers
    Dummy,       \* sync_dev.dummy_fence
    BadFd,       \* a file descriptor that is no fence
    MaxFences,   \* FENCE_MAX; FENCE_MIN is 1
    MaxDevices,  \* MAX_DEVICE_SUPPORTED
    MaxOpens,    \* bound on the opens of the device
    OneBinder    \* TRUE: user space binds an array from one thread at a time

ASSUME FencesAssumption == Dummy \notin Fences /\ BadFd \notin Fences /\ Dummy # BadFd
ASSUME ArraysAssumption == /\ NoArray \notin Arrays
                           /\ Shapes \in [Arrays -> SUBSET (Int \X BOOLEAN)]
                           /\ FdLists \in [Arrays -> SUBSET Seq(Fences \cup {BadFd})]
ASSUME FiniteAssumption ==
    IsFiniteSet(Threads) /\ IsFiniteSet(Waiters) /\ IsFiniteSet(Arrays)
ASSUME BoundsAssumption == /\ MaxFences \in Nat \ {0} /\ MaxDevices \in Nat \ {0}
                           /\ MaxOpens \in Nat /\ OneBinder \in BOOLEAN

VARIABLES
    avail,     \* device_available
    opens,     \* opens so far
    tracker,   \* fence_array_list
    arr,       \* the fence arrays
    dummyRef,  \* reference count of the dummy fence
    fsig,      \* fences of other drivers that are signaled
    pc, on, fds,  \* each thread: step, its array, the fds it binds
    wpc, won   \* each waiter: step, its array

vars == <<avail, opens, tracker, arr, dummyRef, fsig, pc, on, fds, wpc, won>>
device == <<avail, opens>>
caller == <<pc, on, fds>>
waiter == <<wpc, won>>

----------------------------------------------------------------------------
(* An array: any is signal_on_any, en DMA_FENCE_FLAG_ENABLE_SIGNAL_BIT,    *)
(* cbs the children with a callback of the array, irq its deferred signal. *)
NoFences == [st |-> "new", any |-> FALSE, kids |-> << >>, pending |-> 0, refs |-> 0,
             fd |-> FALSE, sig |-> FALSE, en |-> FALSE, bound |-> FALSE, err |-> FALSE,
             cbs |-> {}, irq |-> FALSE, forced |-> FALSE]
Freed == [NoFences EXCEPT !.st = "freed"]

Live(a) == arr[a].st = "live"
Dummies(r) == Cardinality({i \in 1..Len(r.kids) : r.kids[i] = Dummy})

(* The places that the dummy fills in live arrays, as <<array, index>>. *)
Places(f) ==
    {p \in Arrays \X (1..MaxFences) :
        f[p[1]].st = "live" /\ p[2] <= Len(f[p[1]].kids) /\ f[p[1]].kids[p[2]] = Dummy}

(* dma_fence_put, where a count of zero releases the array and with it the *)
(* dummies that are still its children.  next gives every array after the  *)
(* step, n the references to the dummy the driver itself puts.  (The bound *)
(* variable makes TLC compute next once.)                                  *)
Settle(next, n) ==
    \E f \in {next} :
        LET gone == {a \in Arrays : f[a].st = "live" /\ f[a].refs = 0}
            left == {p \in gone \X (1..MaxFences) : p \in Places(f)}
        IN  /\ arr' = [a \in Arrays |-> IF a \in gone THEN Freed ELSE f[a]]
            /\ dummyRef' = dummyRef - n - Cardinality(left)

Put(r) == [r EXCEPT !.refs = @ - 1]
Get(r) == [r EXCEPT !.refs = @ + 1]
Set(a, r) == [arr EXCEPT ![a] = r]

(* dma_fence_is_signaled; it signals an array with nothing pending. *)
IsSignaled(r) == r.sig \/ r.pending <= 0
Seen(r) == [r EXCEPT !.sig = IsSignaled(r)]

(* dma_fence_enable_sw_signaling: once, on an unsignaled array, callbacks  *)
(* are put on its children in turn; a child that is signaled is counted    *)
(* off, and the loop ends when nothing is pending.                         *)
SignaledUpTo(r, i) == Cardinality({j \in 1..i : r.kids[j] \in fsig})
EnableSignaling(r) ==
    LET n == Len(r.kids)
        stops == {i \in 1..n : SignaledUpTo(r, i) = r.pending}
        last == IF stops = {} THEN n ELSE CHOOSE i \in stops : \A j \in stops : i <= j
        cbs == {i \in 1..last : r.kids[i] \notin fsig}
    IN  IF r.en \/ r.sig THEN [r EXCEPT !.en = TRUE]
        ELSE [r EXCEPT !.en = TRUE, !.cbs = cbs, !.refs = @ + Cardinality(cbs),
                       !.pending = @ - SignaledUpTo(r, last), !.sig = (stops # {})]

----------------------------------------------------------------------------
Goto(t, label) == pc' = [pc EXCEPT ![t] = label] /\ UNCHANGED <<on, fds>>
Return(t) ==
    /\ pc' = [pc EXCEPT ![t] = "idle"]
    /\ on' = [on EXCEPT ![t] = NoArray]
    /\ fds' = [fds EXCEPT ![t] = << >>]

(* spec_sync_open: spec_fence_init_locked limits the device fds. *)
HasRoom_OneMore == avail <= MaxDevices
HasRoom == avail < MaxDevices
Open ==
    /\ opens < MaxOpens
    /\ HasRoom
    /\ avail' = avail + 1
    /\ opens' = opens + 1
    /\ UNCHANGED <<tracker, arr, dummyRef, fsig, caller, waiter>>

(* clear_fence_array_tracker: signaled arrays leave the list; a forced     *)
(* clear counts one child off every unsignaled array, signals it if that   *)
(* was the last one pending, and empties the list.                         *)
Cleared_Silent(r, force) ==
    IF IsSignaled(r) \/ force THEN Put([Seen(r) EXCEPT !.forced = force]) ELSE r
Cleared(r, force) ==
    LET s == Seen(r)
        f == [s EXCEPT !.pending = @ - 1, !.sig = (s.pending = 1), !.forced = TRUE]
    IN  IF s.sig THEN Put(s) ELSE IF force THEN Put(f) ELSE s
ClearTracker(force) ==
    LET next == [a \in Arrays |-> IF a \in tracker THEN Cleared(arr[a], force) ELSE arr[a]]
    IN  /\ Settle(next, 0)
        /\ tracker' = IF force THEN {} ELSE {a \in tracker : ~IsSignaled(arr[a])}

(* spec_sync_release.  An ioctl holds its file open, so the last file is   *)
(* not released under it.                                                  *)
Release ==
    /\ avail > 0
    /\ avail = 1 => \A t \in Threads : pc[t] = "idle"
    /\ avail' = avail - 1
    /\ IF avail = 1 THEN ClearTracker(TRUE) ELSE UNCHANGED <<tracker, arr, dummyRef>>
    /\ UNCHANGED <<opens, fsig, caller, waiter>>

----------------------------------------------------------------------------
(* spec_sync_create_array: one reference to the dummy per child, the       *)
(* enable bit set so that nobody asks the dummies for a signal, a sync     *)
(* file with its own reference, whose fd user space may use at once.       *)
(* Failures on the way put back what was taken and leave no trace.         *)
InitialPending_Swapped(n, any) == IF any THEN n ELSE 1
InitialPending(n, any) == IF any THEN 1 ELSE n
NewArray_NotEnabled(n, any) ==
    [NoFences EXCEPT !.st = "live", !.any = any, !.kids = [i \in 1..n |-> Dummy],
                     !.pending = InitialPending(n, any), !.refs = 2, !.fd = TRUE]
NewArray(n, any) ==
    [NoFences EXCEPT !.st = "live", !.any = any, !.kids = [i \in 1..n |-> Dummy],
                     !.pending = InitialPending(n, any), !.refs = 2, !.fd = TRUE, !.en = TRUE]
CreateArray(t, a, n, any) ==
    /\ avail > 0 /\ pc[t] = "idle"
    /\ n \in 1..MaxFences
    /\ arr[a].st = "new"
    /\ Settle(Set(a, NewArray(n, any)), -n)
    /\ pc' = [pc EXCEPT ![t] = "track"]
    /\ on' = [on EXCEPT ![t] = a]
    /\ UNCHANGED <<device, tracker, fsig, fds, waiter>>

Track(t) ==
    /\ pc[t] = "track"
    /\ tracker' = tracker \cup {on[t]}
    /\ Return(t)
    /\ UNCHANGED <<device, arr, dummyRef, fsig, waiter>>

(* User space closes the array's fd. *)
CloseFd(a) ==
    /\ Live(a) /\ arr[a].fd
    /\ Settle(Set(a, [Put(arr[a]) EXCEPT !.fd = FALSE]), 0)
    /\ UNCHANGED <<device, tracker, fsig, caller, waiter>>

(* Somebody waits on the array's fd, which asks it for its signal. *)
PollFd(a) ==
    /\ Live(a) /\ arr[a].fd /\ ~arr[a].en
    /\ Settle(Set(a, EnableSignaling(arr[a])), 0)
    /\ UNCHANGED <<device, tracker, fsig, caller, waiter>>

----------------------------------------------------------------------------
(* spec_sync_bind_array: get the array from its fd, refuse a signaled one. *)
(* With OneBinder, user space binds an array from one thread at a time;    *)
(* the driver does not enforce it.                                         *)
BindStart(t, a, s) ==
    /\ avail > 0 /\ pc[t] = "idle"
    /\ OneBinder => \A o \in Threads : pc[o] \notin {"idle", "track"} => on[o] # a
    /\ Live(a) /\ arr[a].fd
    /\ Len(s) = Len(arr[a].kids)
    /\ Settle(Set(a, Get(Seen(arr[a]))), 0)
    /\ pc' = [pc EXCEPT ![t] = IF IsSignaled(arr[a]) THEN "put" ELSE "sanitize"]
    /\ on' = [on EXCEPT ![t] = a]
    /\ fds' = [fds EXCEPT ![t] = s]
    /\ UNCHANGED <<device, tracker, fsig, waiter>>

(* sanitize_fence_array, and the look at the children, without a lock.     *)
(* The copy of the fds from user space may fail.                           *)
Sanitize(t) ==
    /\ pc[t] = "sanitize"
    /\ Goto(t, IF on[t] \in tracker THEN "children" ELSE "put")
    /\ UNCHANGED <<device, tracker, arr, dummyRef, fsig, waiter>>
AllDummies(r) == Dummies(r) = Len(r.kids)
CheckChildren(t) ==
    /\ pc[t] = "children"
    /\ Goto(t, "put") \/ (AllDummies(arr[on[t]]) /\ Goto(t, "replace"))
    /\ UNCHANGED <<device, tracker, arr, dummyRef, fsig, waiter>>

(* Under the array's lock each child is replaced and its dummy put, up to  *)
(* the first fd that is no fence.  Success clears the enable bit; failure  *)
(* marks the array bound, and wakes the waiters, before its error is set.  *)
Replaced(t) ==
    LET bad == {i \in 1..Len(fds[t]) : fds[t][i] = BadFd}
    IN  IF bad = {} THEN Len(fds[t]) ELSE (CHOOSE i \in bad : \A j \in bad : i <= j) - 1
DummiesPut_OnSuccess(t) == IF BadFd \in {fds[t][i] : i \in 1..Len(fds[t])} THEN 0 ELSE Replaced(t)
DummiesPut(t) == Replaced(t)
Rearmed_Not(r) == r
Rearmed(r) == [r EXCEPT !.en = FALSE]
Replace(t) ==
    LET a == on[t]
        r == arr[a]
        s == fds[t]
        n == Replaced(t)
        ok == \A i \in 1..Len(s) : s[i] # BadFd
        kids == [i \in 1..Len(r.kids) |-> IF i <= n THEN s[i] ELSE r.kids[i]]
    IN  /\ pc[t] = "replace"
        /\ \/ /\ ok
              /\ Settle(Set(a, Rearmed([r EXCEPT !.kids = kids])), DummiesPut(t))
              /\ Goto(t, "enable")
           \/ /\ ~ok
              /\ Settle(Set(a, [r EXCEPT !.kids = kids, !.bound = TRUE]), DummiesPut(t))
              /\ Goto(t, "error")
        /\ UNCHANGED <<device, tracker, fsig, waiter>>

Enable(t) ==
    /\ pc[t] = "enable"
    /\ Settle(Set(on[t], EnableSignaling(arr[on[t]])), 0)
    /\ Goto(t, "clear")
    /\ UNCHANGED <<device, tracker, fsig, waiter>>

(* dma_fence_set_error and, after the unlock, dma_fence_signal. *)
SetError_None(t) ==
    /\ pc[t] = "error"
    /\ Goto(t, "signal")
    /\ UNCHANGED <<device, tracker, arr, dummyRef, fsig, waiter>>
SetError(t) ==
    /\ pc[t] = "error"
    /\ arr' = [arr EXCEPT ![on[t]].err = TRUE]
    /\ Goto(t, "signal")
    /\ UNCHANGED <<device, tracker, dummyRef, fsig, waiter>>
SignalArray(t) ==
    /\ pc[t] = "signal"
    /\ arr' = [arr EXCEPT ![on[t]].sig = TRUE]
    /\ Goto(t, "clear")
    /\ UNCHANGED <<device, tracker, dummyRef, fsig, waiter>>

Clear(t) ==
    /\ pc[t] = "clear"
    /\ ClearTracker(FALSE)
    /\ Goto(t, IF arr[on[t]].err THEN "put" ELSE "bound")
    /\ UNCHANGED <<device, fsig, waiter>>

SetBound(t) ==
    /\ pc[t] = "bound"
    /\ arr' = [arr EXCEPT ![on[t]].bound = TRUE]
    /\ Goto(t, "put")
    /\ UNCHANGED <<device, tracker, dummyRef, fsig, waiter>>

PutArray(t) ==
    /\ pc[t] = "put"
    /\ Settle(Set(on[t], Put(arr[on[t]])), 0)
    /\ Return(t)
    /\ UNCHANGED <<device, tracker, fsig, waiter>>

----------------------------------------------------------------------------
(* spec_sync_wait_bind_array, by a caller that holds the array until the   *)
(* call returns: at once if the array is bound, when it gets bound, or     *)
(* after a time-out.                                                       *)
WaitBind(w, a) ==
    /\ wpc[w] = "idle"
    /\ Live(a) /\ arr[a].fd
    /\ ~arr[a].bound
    /\ Settle(Set(a, Get(arr[a])), 0)
    /\ wpc' = [wpc EXCEPT ![w] = "sleep"]
    /\ won' = [won EXCEPT ![w] = a]
    /\ UNCHANGED <<device, tracker, fsig, caller>>
WaitReturn(w) ==
    /\ Settle(Set(won[w], Put(arr[won[w]])), 0)
    /\ wpc' = [wpc EXCEPT ![w] = "idle"]
    /\ won' = [won EXCEPT ![w] = NoArray]
    /\ UNCHANGED <<device, tracker, fsig, caller>>
Woken(w) == wpc[w] = "sleep" /\ arr[won[w]].bound /\ WaitReturn(w)
TimedOut(w) == wpc[w] = "sleep" /\ ~arr[won[w]].bound /\ WaitReturn(w)

----------------------------------------------------------------------------
(* Another driver signals a fence: dma_fence_array_cb counts it off every  *)
(* array with a callback on it and drops the callback's reference, except  *)
(* that the last one pending hands it to the deferred signal.              *)
Counted(r, f) ==
    LET hit == {i \in r.cbs : r.kids[i] = f}
        n == Cardinality(hit)
        ends == r.pending > 0 /\ r.pending <= n
    IN  [r EXCEPT !.cbs = @ \ hit, !.pending = @ - n, !.irq = @ \/ ends,
                  !.refs = @ - n + (IF ends THEN 1 ELSE 0)]
SignalFence(f) ==
    /\ f \notin fsig
    /\ fsig' = fsig \cup {f}
    /\ Settle([a \in Arrays |-> Counted(arr[a], f)], 0)
    /\ UNCHANGED <<device, tracker, caller, waiter>>

IrqWork(a) ==
    /\ arr[a].irq
    /\ Settle(Set(a, Put([arr[a] EXCEPT !.irq = FALSE, !.sig = TRUE])), 0)
    /\ UNCHANGED <<device, tracker, fsig, caller, waiter>>

----------------------------------------------------------------------------
(* spec_sync_register_device: the device's own reference to the dummy. *)
Init ==
    /\ avail = 0 /\ opens = 0
    /\ tracker = {}
    /\ arr = [a \in Arrays |-> NoFences]
    /\ dummyRef = 1
    /\ fsig = {}
    /\ pc = [t \in Threads |-> "idle"]
    /\ on = [t \in Threads |-> NoArray]
    /\ fds = [t \in Threads |-> << >>]
    /\ wpc = [w \in Waiters |-> "idle"]
    /\ won = [w \in Waiters |-> NoArray]

Call(t) ==
    \/ \E a \in Arrays : \E s \in Shapes[a] : CreateArray(t, a, s[1], s[2])
    \/ \E a \in Arrays : \E s \in FdLists[a] : BindStart(t, a, s)
Step(t) ==
    \/ Track(t) \/ Sanitize(t) \/ CheckChildren(t) \/ Replace(t) \/ Enable(t)
    \/ SetError(t) \/ SignalArray(t) \/ Clear(t) \/ SetBound(t) \/ PutArray(t)
WaiterStep(w) == (\E a \in Arrays : WaitBind(w, a)) \/ Woken(w) \/ TimedOut(w)
Next ==
    \/ Open \/ Release
    \/ \E t \in Threads : Call(t) \/ Step(t)
    \/ \E a \in Arrays : CloseFd(a) \/ PollFd(a) \/ IrqWork(a)
    \/ \E w \in Waiters : WaiterStep(w)
    \/ \E f \in Fences : SignalFence(f)

Spec == Init /\ [][Next]_vars

(* An ioctl that was entered goes on, and deferred signals are delivered. *)
FairSpec ==
    /\ Spec
    /\ \A t \in Threads : WF_vars(Step(t))
    /\ \A a \in Arrays : WF_vars(IrqWork(a))

----------------------------------------------------------------------------
(* The driver has no more device fds open than it supports. *)
TypeOK ==
    /\ avail \in 0..MaxDevices /\ opens \in 0..MaxOpens
    /\ tracker \subseteq Arrays
    /\ \A a \in Arrays :
          /\ arr[a].st \in {"new", "live", "freed"}
          /\ arr[a].kids \in UNION {[1..n -> Fences \cup {Dummy}] : n \in 0..MaxFences}
          /\ arr[a].pending \in Int /\ arr[a].refs \in Nat
          /\ arr[a].cbs \subseteq 1..Len(arr[a].kids)
    /\ dummyRef \in Int /\ fsig \subseteq Fences
    /\ pc \in [Threads -> {"idle", "track", "sanitize", "children", "replace", "enable", "error",
                           "signal", "clear", "bound", "put"}]
    /\ on \in [Threads -> Arrays \cup {NoArray}]
    /\ wpc \in [Waiters -> {"idle", "sleep"}]
    /\ won \in [Waiters -> Arrays \cup {NoArray}]

(* The references to an array are exactly those of the tracker (or of the  *)
(* ioctl about to track it), the fd, the binds and waits in progress and   *)
(* the callbacks on its children: none is leaked, and nobody holds an      *)
(* array that is freed.                                                    *)
One(b) == IF b THEN 1 ELSE 0
Holders(a) ==
    One(a \in tracker) + One(arr[a].fd) + One(arr[a].irq) + Cardinality(arr[a].cbs)
    + Cardinality({t \in Threads : pc[t] # "idle" /\ on[t] = a})
    + Cardinality({w \in Waiters : wpc[w] # "idle" /\ won[w] = a})
RefsBalanced == \A a \in Arrays : arr[a].refs = Holders(a)

(* "to prevent the release of the dummy_fence fences, we must keep an      *)
(* extra refcount": the dummy has one reference per place it fills in a    *)
(* live array, besides the device's own.  The look that a bind takes at    *)
(* the children before it puts the dummies holds no lock.                  *)
DummyRefs == dummyRef = 1 + Cardinality(Places(arr))

(* No reference to the dummy outlives its place, though binds fail half    *)
(* way and arrays are released with dummies in them: what the loop of a    *)
(* failed bind replaced it has put, and a release puts the rest.           *)
DummyNotLeaked == dummyRef <= 1 + Cardinality(Places(arr))

(* While the device is in use, an array is signaled only when user space   *)
(* asked for: after one of its fences, or after all of them, or because    *)
(* its bind failed.                                                        *)
SignalsSound ==
    \A a \in Arrays : Live(a) /\ arr[a].sig /\ ~arr[a].forced /\ ~arr[a].err =>
        LET done == {i \in 1..Len(arr[a].kids) : arr[a].kids[i] \in fsig}
        IN  IF arr[a].any THEN done # {} ELSE done = 1..Len(arr[a].kids)

(* Who is told that an array is bound finds no dummy in it, or its error,  *)
(* except while the bind that failed is between the two.                   *)
BoundComplete ==
    \A a \in Arrays : Live(a) /\ arr[a].bound =>
        \/ Dummies(arr[a]) = 0
        \/ arr[a].err
        \/ \E t \in Threads : pc[t] = "error" /\ on[t] = a

(* An array that left the tracker can never be bound; if it waits for any  *)
(* fence, or for its only one, it is signaled by then, at the latest by    *)
(* the last release of the device.                                         *)
LeavesSignaled ==
    \A a \in Arrays :
        /\ Live(a) /\ a \notin tracker
        /\ \A t \in Threads : pc[t] = "track" => on[t] # a
        /\ arr[a].any \/ Len(arr[a].kids) = 1
        => arr[a].sig

(* An array whose bind succeeded is signaled once its fences are. *)
BoundSignals ==
    \A a \in Arrays :
        Live(a) /\ arr[a].bound /\ (\A i \in 1..Len(arr[a].kids) : arr[a].kids[i] \in fsig)
        ~> arr[a].sig \/ ~Live(a)
=============================================================================
