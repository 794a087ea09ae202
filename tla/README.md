# Fences of the SM4635 kernel modules: a TLA+ model

The repository holds the out-of-tree kernel modules of a phone: about thirty
drivers, most of which program hardware or speak to a firmware. What they share,
and what decides whether a frame reaches the screen, is *fences*: objects that a
producer signals and consumers wait for, across threads, processes and
processors. This development models the three fence implementations that the tree
owns, builds, and that are pure shared-state logic:

- the **camera sync driver**, `src/qcom/opensource/camera-kernel/drivers/cam_sync`;
- the **hardware-fence driver**, `src/qcom/opensource/mm-drivers/hw_fence`: its message
  queues, the lock word it shares with another processor, and its table of fences with
  join fences;
- the **speculative fence driver**, `src/qcom/opensource/mm-drivers/sync_fence`.

Paths below are relative to those directories. The tree has 5.8 million lines, most of
them register definitions, firmware interfaces and the WLAN host driver; the modelled
files are a vanishing share of it, and are modelled nearly whole.

## 1. Inventory

### Camera sync driver

*State.* A table of 2048 rows (`struct sync_table_row`), each with its spinlock, and
a bitmap of the rows in use. A row has a state (INVALID, ACTIVE, or signaled as
SUCCESS, ERROR or CANCEL), a type (individual or group), a counter `remaining` of
children not yet signaled, a reference count, lists of parents and children, a list
of callbacks, a list of user payloads, and a completion for waiters. Besides: the
open count and event queue of the device node, and a work queue for callbacks.

*Operations.* create, merge, signal, get/put reference, destroy, register and
deregister a callback, wait; the same as ioctls, with registration of user payloads
(delivered as V4L2 events); open and close of the device node. Other drivers call
them through exported functions and through the `synx` operations that
`cam_sync_register_synx_bind_ops` hands out.

*Interaction.* Signaling a child walks to its groups; a group that completes
dispatches its own callbacks, payloads and waiters; callbacks run on the work queue
and call back into other drivers; destroying an object unlinks it on both sides;
closing the node signals and then destroys everything.

*What is hard.* Row locks are taken one at a time, so that what was read under one
lock is used after it was released (the list of parents in `cam_sync_signal`, both
lists in `cam_sync_deinit_object`). Rows are reused. The allocator takes no lock.
Merge can fail half way, after it linked some children. `cam_sync_wait` and
`cam_sync_close` look at rows without a lock. `remaining` is unsigned.

*What makes it correct.* A row belongs to one user at a time and starts clean; a
parent link leads to a group that lists the child; a group counts exactly the
children it still waits for, completes after the last of them, with a verdict that
says whether all succeeded; a callback runs once, with the verdict, whatever it
races with; a wait says "success" only for success.

### Hardware-fence driver

*State.* Shared memory: per client a Tx and an Rx queue (ring of payloads, header
with read and write index); an open-addressed table of fences, each with a waiting
mask, parents and a lock word; doorbell flags. *Operations.* create and destroy of a
fence, registration of a wait for a fence or for an array (a join fence), signal, reset
of a client, processing of doorbells.
*Interaction.* Driver, display and GPU clients, and a Fence CTL (firmware in another
virtual machine, the SVM) read and write the same memory, with barriers and lock words.
*What is hard.* The reader of a queue takes no lock; full and empty must be told
apart; some clients count indexes in their own unit and from their own start, and some
publish the write index themselves; the doorbell may ring while the loop ends. The SVM
sleeps on a lock and relies on the driver that unlocks to wake it. A lookup locks one
entry of the table at a time; a wait registers while a signal runs; children of an
array are signaled while the call that links them is half way, and that call can fail.
*What makes it correct.* A queue is a bounded FIFO and is drained; the lock excludes and
wakes; a lookup finds what is there; a wait is never lost; a join fence counts each
child once and completes after the last.

### Speculative fence driver

*State.* A dummy fence, the number of open device fds, and a list (the tracker) of the
fence arrays it made. *Operations.* open and release; create an array full of dummies;
bind real fences to it; let a kernel thread wait for the bind. *Interaction.* User space
hands the fd of an unbound array on; other drivers signal the bound fences;
`dma_fence_array` counts them. *What is hard.* References: to the array (tracker, fd,
calls, callbacks) and to the dummy (one per place). A bind can fail half way. The enable
bit is set at creation to keep `dma_fence_array` away from the dummies and has to be
cleared at the right moment. *What makes it correct.* References balance; an array is
signaled when its fences are and not before; whoever is told that an array is bound
finds no dummy in it, or an error; nobody is left on an array that can no longer be bound.

### Everything else

`PROJECT.json` lists the other components with the reason why each is not modelled:
they program hardware, implement a protocol whose other half is a firmware outside
the repository, or are systems of their own (WLAN, graphics, video). The camera request
manager, the largest user of the camera fences, is a candidate for a later module.
`cam_sync_dma_fence.c` and `cam_sync_synx.c` are not in
the camera Kbuild at this commit, so the code they would add to `cam_sync.c` (under
`#if`) is left out too.

## 2. Modules

| module | what it is |
|---|---|
| `CamSync` | the camera sync driver: state, actions, invariants, properties |
| `MC_CamSync` | model values and the symmetry of threads |
| `CamSyncProofs` | type correctness and ownership of rows |
| `CamSyncCallbackProofs` | callbacks are in one place and run at most once |
| `CamSyncLinkProofs` | links between objects, and free rows, for any callers |
| `CamSyncProtocolProofs` | counts, verdicts and notifications, for callers that keep the protocol |
| `HwFenceLock` | a lock word shared by drivers and the SVM |
| `HwFenceLockProofs` | mutual exclusion of the lock |
| `HwFenceQueue` | a client queue on top of `HwFenceLock`: writers, reader, doorbell, reset, index translation |
| `BoundedFifo` | what a queue promises; `HwFenceQueue` implements it |
| `HwFenceQueueProofs` | the ring implements `BoundedFifo`, whatever its size and kind |
| `HwFenceTable` | the table of fences, waits, join fences, reset of a client |
| `HwFenceTableProofs` | waits are kept, joins are sound, lookups find |
| `SpecSync` | the speculative fence driver |
| `SpecSyncProofs` | its references, signals and binds |
| `MC_HwFenceQueue`, `MC_HwFenceTable`, `MC_SpecSync` | instances |

Definitions named `X_Something` next to a definition `X` are deliberately wrong
variants of it. Each property has one: with `X` replaced by it TLC finds the
property violated (`mutants` in `PROJECT.json`). The model itself never uses them.

### CamSync and the code

A critical section of a row spinlock is one step. `pc[t]` says between which two
sections thread `t` is, `obj`, `sts`, `todo` and `args` are its local variables:

| operation | steps |
|---|---|
| `cam_sync_create` | `FindZeroBit`, `TestAndSetBit` (back to the first if the bit was taken), `CreateInit` |
| `cam_sync_merge` | `MergeStart`, `MergeCheck` per child, the allocation, `MergeInit`, `MergeChild` per child, `MergeDone` or `MergeUnlink` |
| `cam_sync_signal` | `SignalRow`, then `SignalParent` per parent |
| `cam_sync_handle_signal` | `HandleSignal` (takes the reference), then the same |
| `cam_sync_get_obj_ref`, `cam_sync_put_obj_ref` | `GetObjRef`, `PutObjRef` |
| `cam_sync_register_callback`, `cam_sync_deregister_callback` | `RegisterCallback`, `DeregisterCallback` |
| work queue | `CbDispatch` |
| payload ioctls | `RegisterUserPayload`, `DeregisterUserPayload` |
| `cam_sync_wait` | `WaitStart`, `WaitReturn` (a timeout when the completion is not done) |
| `cam_sync_destroy` | `DestroyMark`, `DestroyChild` and `DestroyParent` per link, `DestroyFinal` |
| `cam_sync_open`, `cam_sync_close` | `Open`; `CloseStart`, `CloseSignal` and `CloseDestroy` per row, `CloseFlush`, `CloseEnd` |

- Merge is the one operation that holds a row lock (its group's) while it takes
  others: `RowLocked` is that row, and every locked section waits for it. Unlocked
  reads (`cam_sync_check_valid`, wait, close) do not.
- Lists are sets. The code refuses duplicates where they could arise, and the order
  of visiting a list is left open, which includes the code's order.
- The work queue is a set, so callbacks run in any order. `flush_workqueue` waits for
  what was queued when it began.
- A callback node is a member of `Cbs` and is used for one registration; `cbLife`
  follows it. A payload stands for one registration too: it is given to one object, and
  not again after it was sent (`OwnPayload`).
- `Ops` says which operations the callers of an instance use, plus two switches:
  "nomem" lets allocations inside merge fail, "inline" is the debugfs switch
  `trigger_cb_without_switch`.
- A signal ioctl with a status that is not defined takes a reference and then fails
  without dropping it. That is the step `GetObjRef`.
- Histories, read by properties: `calls` (runs of each callback function), `events`
  (V4L2 events sent), `bad` (groups with a failed member). One guard reads one of them:
  `OwnPayload` looks at `events`.

The driver does not defend itself against every caller, so `Disciplined` selects
between two environments. With `FALSE`, any thread calls anything on any row at any
time. With `TRUE`, callers keep the protocol that the camera drivers keep: an object
is destroyed after it was signaled and while no other call on it is in progress
(`MayDestroy`), merges name existing individual objects (`MayMerge`), and a driver
signals or puts only with a reference it took (`OwnsRef`).

Left out: the id string and names of objects, statistics and monitors, logging, and
the `event_cause` value that is passed along but decides nothing.

### HwFenceLock, HwFenceQueue and the code

`_lock` spins until the word is zero and stores bit 0: one step, `Lock`. `_unlock` clears
bit 0 (`Unlock`), then reads the word again and interrupts the SVM if bit 1 is set
(`CheckWake`); the word may be another driver's by then. The SVM side (`SvmLock`,
`SvmWake`, `SvmUnlock`) is external: it sets bit 1 whoever holds the lock and sleeps if
bit 0 was set, as the comments in `_unlock` describe it.

`HwFenceQueue` extends it. `hw_fence_update_queue` is `LockClient`, `ReadIndexes`,
`WritePayload`, `PublishIndex`, `UnlockClient`, `LookBack`, and `Ring` for the doorbell
that its caller rings whatever the result. The barriers order the steps as the code
lists them, so each group of accesses between two barriers is one step. The reader,
`hw_fence_read_queue_helper` in the loop of `_process_fence_error_client_loopback`,
is `Doorbell`, `ReadQueue`, `CopyPayload`, `AdvanceRead`, and takes no lock.
`ResetTx`, `LockReset` and `ResetRx` are `hw_fence_utils_reset_queues`. A queue with
`skip_wr_idx` keeps the driver's index in `tx_wm` (`WrPtr`) and the client publishes
(`ClientPublishes`, external). `conf` chooses the kind of queue in the initial state.
`Ring` always rings: the model is of a client that both reads an Rx queue and is interrupted.
`_fence_ctl_signal` (1320-1334) writes the payload only with `update_rxq`, rings only with
`send_ipc`, and calls the client's error callback for a failed fence; that branch, and the
clients that have only one of the two flags (in the tables of `hw_fence_drv_ipc.c`: the display
and IFE clients, which have no Rx queue, and the debugfs validation clients, which poll theirs), are
left out, so `Drained` speaks of interrupted readers alone.

Assumed of what is outside the repository: the Fence CTL reads a Tx queue the way the
driver's own reader does; a client stops its reader while it resets its queues
(`ReaderRuns`); only Tx queues have translated indexes; a Tx queue has one writer.

### HwFenceTable and the code

An entry of `tbl` is a `struct msm_hw_fence` without times and counters for debugging. A
call of a client is a sequence of steps (`pc`, `loc`): `Probe` is one iteration of
`_hw_fence_lookup_and_process`, with the entry's lock held inside it and none between two;
`loc.found` and `loc.failed` say where its caller goes on.

| operation | steps |
|---|---|
| `msm_hw_fence_create` | `Create`, `Probe`..., `Enable` |
| `msm_hw_fence_destroy`, `..._with_handle` | `Destroy` or `DestroyWithHandle`, `Probe`..., `Disable` |
| wait for a fence | `Wait`, `Probe`..., `Register`, `Recheck` |
| wait for an array | `WaitArray`, `Probe`..., `MaskJoin`, then per child `Child`, `Probe`..., `Link`; `StoreData`; `SignalJoin` if all were signaled; `Unlink`, `Cut`, `SkipChild` if one failed |
| `msm_hw_fence_reset_client` | `Reset`, then per entry `ClearWait`, `CheckOwner`, `SignalError` per waiter, `NextEntry` |
| Fence CTL (external) | `CtlSignal`: flag, waiters, and parents under the child's lock |

`owed`, `served` and `bare` are histories of what clients registered for and were told.
The hash is a constant function; keys are model values, so that collisions are chosen.
Assumed of callers (`MayDestroy`, `MayHold`, `ArrayFree`): a sequence number is used once; a
waiter holds a reference to the fence, and a fence is destroyed when it is signaled and not
referenced; an array is waited for by one client at a time. `QuietReset` is a switch: with
`TRUE` nobody calls the driver during a reset, and a reset does not destroy the child of a
join fence; the driver enforces neither, and `reset_race` shows what it costs.

Left out besides times and debug counters, since nothing modelled depends on them: the error
a join fence collects from its children, the error flag of the kernel's fence, and the
`SIGNALED` flag that `Recheck` and `SignalJoin` set on the kernel's fence of the waiter (the
signal itself, in the entry and to the client, is modelled). An array without fences is taken
to have no list of them either, as `dma_fence_array` makes it: the cleanup of a failed call
would read its first place otherwise.

### SpecSync and the code

A section under `l_lock` or under the lock of the array's fence is one step.
`spec_sync_create_array` is `CreateArray` (up to `fd_install`, after which other threads
can use the fd) and `Track`. `spec_sync_bind_array` is `BindStart`, `Sanitize`,
`CheckChildren`, `Replace`, then `Enable`, `Clear`, `SetBound`, `PutArray`, or on a bad fd
`SetError`, `SignalArray`, `Clear`, `PutArray`. `ClearTracker` is
`clear_fence_array_tracker`. `WaitBind`, `Woken`, `TimedOut` are
`spec_sync_wait_bind_array`. The kernel's `dma_fence_array` is external and modelled as
far as the driver depends on it: reference counts, `num_pending`, callbacks
(`EnableSignaling`, `Counted`) and the deferred signal (`IrqWork`). The range of
the number of fences is a guard of `CreateArray`. `OneBinder` is a switch: with `TRUE` user
space binds an array from one thread at a time. The driver does not enforce it (the children
are checked without the lock under which they are replaced), and `two_binders` shows what
happens without. The model follows that case up to the second replacement, which is as far
as the run looks; the callbacks that two binds put on one array are not modelled after it.

## 3. Runs

| run | instance | states | shows |
|---|---|---|---|
| `protocol` | 3 rows, 2 threads, 1 callback, 1 payload, 3 allocations, waits, disciplined, fairness, no symmetry | 0.6 M | `RemainingCounts`, `GroupComplete`, `CallbackOnce`, `NoneLeftBehind`, `VerdictStable`, `WaitVerdict`, `CallbackRuns` |
| `wild` | 3 rows, 2 threads, 1 callback, 3 allocations, any callers, destroys, failing allocations, close and reopen; groups or callbacks, not both | 0.9 M | `TypeOK`, `RowOwnership`, `FreeRowClean`, `ParentLinksSound`, `CallbackOnce` |
| `ring` | 3 slots; four kinds of queue, up to 2 drivers and the SVM, 3 to 5 writes, fairness | 0.8 M | `TypeOK`, `ReaderHoldsHead`, `FifoSpec`, `Drained`, `LockExclusion`, `SvmGetsLock` |
| `fences` | 4 entries, 2 colliding fences (1 with up to 2 resets), 3 arrays, 1 producer, 2 waiters, fairness | 0.4 M | `TypeOK`, `NoLostWait`, `JoinCounts`, `JoinSound`, `FindsPresent`, `WaitersServed` |
| `arrays` | 2 arrays of up to 2 fences, 2 threads, one binder per array, 1 waiter, 2 opens, fairness | 0.5 M | `TypeOK`, `RefsBalanced`, `DummyNotLeaked`, `SignalsSound`, `BoundComplete`, `LeavesSignaled`, `BoundSignals` |
| `stale_parent` | 3 rows, 2 threads, disciplined | violation | `ParentsAreParents` |
| `payload_early` | 3 rows, 2 threads, disciplined | violation | `PayloadAtSignalTime` |
| `join_data` | as `fences` | violation | `JoinDataReturned` |
| `parent_hole` | as `fences`, an array that can fail after it linked a shared child | violation | `ParentsCounted` |
| `reset_race` | one fence, one reset that need not be quiet | violation | `ResetSignalsWaiters` |
| `third_parent` | one fence in three arrays, the real limit | violation | `ParentsUpToMax` |
| `two_binders` | as `arrays`, any number of binders per array | violation | `DummyRefs` |

**Bounds.** Three rows are the smallest table with a group of two children. In `wild`, whose
callers destroy, rows are reused within the three allocations, which is where stale row
numbers bite. Its constraint `GroupsOrCallbacks` (in `MC_CamSync`) lets a behaviour make
groups or register callbacks but not both, without which it has 2.6 million states and no
error either; `protocol` mixes the two without destroys, and the theorems of section 4 show
`CallbackOnce` and the table's invariants for every mix. `protocol` has no destroys: with them, payloads and fairness together the
states are too many, and the theorems of section 4 show its safety properties with
destroys and reuse, for any number of rows. Two
threads interleave any two operations; the races known in the code are between two
sections of two calls. Reference counts go to 1 in both directions (`MaxRef`), enough
for "one", "not one" and "none". `U32` is 4 instead of 2^32: more than the number of
rows, so that a legitimate count never wraps, and small enough that a decrement of
zero is seen. The ring wraps several times; `MaxIter` is 2, at least the capacity of
the instance's ring, as 100 (`HW_FENCE_MAX_ITER_READ`) is meant to be in the driver:
with a longer queue and a smaller limit the doorbell loop may leave payloads behind.
Threads are symmetric, except in `protocol`, where liveness makes symmetry unsound. In `ring` one
configuration has two drivers and the SVM compete for the lock, one writes long enough to
wrap, two are Tx queues with start 1 and factor 2, one of them published by its client. In
`fences` the two fences collide and the table is full when both fences and two joins are
in it; the configurations with the real limit of parents let two joins share a child, the
third has the limit at which the second is refused. Resets are checked with one fence: they
are quiet, so that nothing is half way when an entry is freed, and the theorems of section 4
cover any number of fences and resets. In `arrays` user space also asks for arrays of no
fence and of too many; the arrays wait for any,
for all, or for a single fence; a bind can fail at its second fd; the device is reopened
after its last release.

**Deadlock** is checked in `protocol` and `ring`. It is not in `fences` and
`arrays`, where everything may be finished, nor in `wild`. There TLC reaches one that the
code has: a merge checks its children without a lock, a child is destroyed, its row is
allocated for the group itself, and the merge then waits for the row lock it holds.
It takes callers
who destroy an object while they merge it. `Quiescent` keeps an idle system from
counting as deadlocked.

**Failing merges** ("nomem") are in `wild` but not in `protocol`: the
divergence that `stale_parent` shows makes counts and verdicts wrong after a failed
merge, and the properties of `protocol` therefore speak of merges whose
allocations succeed.

**Close** is in `wild` only. `cam_sync_close` calls `cam_sync_signal` without a reference of
its own, and that drops one and does nothing more unless it was the last: an object nobody
holds a reference on stays ACTIVE, and its callbacks are freed by the destroy pass without
having run, although the comment above the loop says "Signal all ACTIVE objects as ERR". The
model does the same (`CloseSignal`), and what the runs check of a close is that the table
stays consistent.

**Fairness.** `protocol`: a thread inside an operation goes on (it waits only for spinlocks
with bounded sections) and the work queue runs. Nothing obliges a caller to call.
`ring`: a driver that holds a lock runs with preemption disabled and so goes on, the
firmware goes on too, the doorbell interrupt and its loop run. Nothing obliges writers to
write, clients to publish or reset. `fences`: a call that was made goes on, and the Fence CTL
handles the fences made, since a producer's engine signals what it took on. `arrays`: an
ioctl that was entered goes on, and deferred signals are delivered. Nothing obliges other
drivers to signal: `BoundSignals` speaks of arrays whose fences are signaled.

### What the violations show

- **stale_parent.** `cam_sync_signal` moves the parents of the object to a private list,
  drops the lock and then locks "all parents of this object" one by one. When one of
  them is a group whose merge fails in between, its row is freed and can be given to
  another create. The loop then decrements `remaining` of an object that is no parent
  (from 0 to 2^32 - 1 if it is individual) and sets its state to a signaled one. No
  caller breaks the protocol.
- **payload_early.** A payload is kept "until signal time", but a group takes the state
  of its first signaled child, and `cam_sync_handle_register_user_payload` looks at
  the state alone, where `cam_sync_register_callback` also tests `remaining`. The event
  goes out while other children are active.
- **join_data.** `client_data` is "returned to it upon fence signaling", but the wait for an
  array stores it in the join fence after all children are linked, without a lock. A last
  child signaled before the store makes the Fence CTL signal the join without it; the store
  may then hit an entry that was freed.
- **parent_hole.** `parent_list` holds the parents of a child and `parents_cnt` is their
  "total number". When a wait fails after it linked a child,
  `_cleanup_join_and_child_fences` blanks its place and decrements the counter, and leaves
  a second join where it is: beyond the counter, to be overwritten by the next one. Its
  client is not signaled. `fences` therefore orders the children of its arrays so that a
  failing wait has not linked a shared child, and shows `JoinCounts` and `WaitersServed`
  for that case.
- **reset_race.** "if fence is not signaled, signal with error all the waiting clients": a
  reset reads the flag and the mask of a fence without its lock, signals who is in the mask,
  and destroys the fence in a lookup of its own. A client that registers after the mask was
  read sees an unsignaled fence, waits, and is erased with the entry.
- **third_parent.** Three is the "Maximum number of parents that a fence can have for a
  join-fence" and the length of `parent_list`. The count is incremented before it is compared
  with `>=`, so the third parent is refused and the wait for its array fails.
- **two_binders.** "we must keep an extra refcount for every time that the
  fence-array->release can decrement its children's refcount". Two binds of the same array
  look at its children before either replaced one, and both put a dummy per child. The dummy
  then has fewer references than places, and is freed while arrays still hold it.

## 4. Proofs

Every theorem is about a `Spec` without fairness and holds for every value of the
constants that the named assumptions of the modules admit; `theorems` in `PROJECT.json`
lists them with the run that checks the same property on an instance. Each inductive
invariant was model-checked on an instance of the runs before it was proved.

### Camera sync driver, any callers

About `CamSync!Spec` with any number of rows, threads, callbacks and payloads, any set of
operations, failing allocations and any callers (`Disciplined` either way). Assumptions:
`N` is positive, `U32` exceeds `N`, `NoThread` is no thread, `Cbs` is finite, statuses are
signaled states, bounds are natural numbers.

- `TypeCorrect`: `TypeOK` always holds. It is inductive as it stands; the proof has one
  step per action, and lemmas for what `Return`, dispatch and freeing nodes keep.
- `RowsOwned`: `RowOwnership` always holds. Not inductive: when a thread tears a row
  down, nothing in `RowOwnership` keeps another one from starting to. `OwnInv` adds that
  a row that somebody owns is invalid, except under the lock of a merge, where it is
  valid and locked; a second destroy is refused either way. Most actions touch
  neither bits nor owners and are covered by the lemma `OwnFrame`.
- `CallbacksOnce`: `CallbackOnce` always holds. Initialising a row empties its callback
  list without freeing nodes, so one must know that it was empty: `CallbackInv` adds
  that rows that are free or being built have no callbacks. `OwnInv` supplies that
  nobody can register on such a row or publish it in between.
- `ParentLinks` and `FreeRowsClean`: `ParentLinksSound` and `FreeRowClean` always hold.
  `LinkInv` adds which rows can have links at all (`LinkedRows`), that a merge under way
  is linked only from children it has visited (`MergeVisited`: these are the ones
  `MergeUnlink` cuts when it fails), and that rows that are free or being built keep no
  payloads (`BlankUnpaid`). It rests on `OwnInv`, since a row that two threads owned could
  be freed by one while the other still links to it.

### Camera sync driver, callers that keep the protocol

The theorems of `CamSyncProtocolProofs` have the hypothesis `ProtocolKept`: callers are
disciplined, allocations inside a merge succeed, and the device node is not closed. Each
part is needed. Without discipline an active child can be destroyed and its group never
completes; after a failed merge `remaining` of an innocent row is decremented (the run
`stale_parent`); a close destroys objects that are in use. TLC finds the counts or the
verdicts violated when one of the three is dropped.

- `RemainingExact` (`RemainingCounts`), `GroupsComplete` (`GroupComplete`),
  `NothingLeftBehind` (`NoneLeftBehind`), `WaitsTellTruth` (`WaitVerdict`) and
  `VerdictsStable` (the action property `VerdictStable`).

All come from `ProtoInv`, whose centre is `CountKept`: `remaining` is the number of children
that have not reached the group, over a parent link or on the private list of a parents
loop in `cam_sync_signal` (`Awaits`). That needs that both lead to live groups that list the
child and that a child is never on two lists at once (`LinksKept`, `LoopsKept`), that no
thread is on a path the protocol closes (`ThreadsKept`), that a completed row awaits nobody
and has nothing registered (`RowsKept`), and that a failure of a child is in the state of
its group or about to be (`VerdictKept`).

### Hardware-fence driver

- `LockExcludes`: `LockExclusion` holds of `LockSpec` for any number of drivers, assuming
  only that the SVM is none of them. `LockInv` adds who stands behind each bit: bit 0 is
  set while a driver is inside, bit 1 while the SVM is inside or asleep, and an SVM that
  is inside shares the word with no driver. `QueueLockExcludes` carries it over to
  `HwFenceQueue`.
- `ReaderAndWritersApart`, `QueueTypeCorrect`, `RingImplementsFifo`: `ReaderHoldsHead`,
  `TypeOK` and the refinement `FifoSpec` hold for a ring of any number of slots above one,
  payloads of any size, every start and every factor that divides the payload size, and
  any number of writers. The indexes of the code are dwords in the client's unit; the
  lemmas `PlaceOf`, `TranslateBack` and `IndexPlace` take them to places of the ring and
  back, and distances are counted round the ring. `QueueInv` conjoins the type, who holds
  the lock (`LockPart`), what the reader has read and not yet advanced over (`ReaderPart`),
  what a writer has read and not yet published (`WriterPart`: its stale copy of the read
  index can only make the ring look fuller than it is), and that the places between the
  two indexes hold the stored payloads in order (`StoredPart`). The refinement maps every
  step to an enqueue (publishing the index), a dequeue (advancing it), a reset or a
  stutter.

### Hardware-fence table

The theorems of `HwFenceTableProofs` hold for any clients, keys, hash function, table size,
arrays of fences (a fence may be in several arrays, or several times in one), limit of
parents and bounds. They have the hypothesis `QuietReset`: nobody else calls the driver
during a reset, and a reset does not destroy the child of a join fence. Without it a reset
erases a client that registers behind it (the run `reset_race`), so that waits are lost; the
theorems say that nothing else loses one.

- `WaitsAreKept` (`NoLostWait`), `JoinsAreSound` (`JoinSound`), `TableTypes` (`TypeOK`), and
  the action property `LookupsFind` (`FindsPresent`).

All follow from `TableInvariant`: the conjunction `IInv` is inductive. Its parts need each
other, and each answers a question that the code leaves to the interleaving:

- `Shapes`: what the locals of a call can be at each of its labels.
- `TableOK`: a key is in one entry, joins have keys of arrays, and a fence has its flag
  exactly when the Fence CTL signaled it. A create is safe although it tests uniqueness only
  along its own probe path, because a sequence number is given out once (`CreateOK`).
- `CallsOK`: the entry a call found is still the one it looked for when it comes back with
  the next lock (`WaitOK`, `ArrayOK`), since a fence in use is not destroyed.
- `ResetsOK`: a reset is alone, and leaves nobody waiting for a fence it is about to free.
- `LinksOK`: a parent link of an unsignaled child leads to a join, so that counting it off
  never hits a reused entry.
- `SearchOK`: what a lookup is after is not behind it (`Ahead`; a key is put in while
  nobody looks for it), so that the cleanup of a failed call finds every child it linked and
  no link outlives the join (`UndoOK`).
- `JoinsOK`: what a join has pending is at least the number of its children that are not
  signaled or not yet handled (`Left`), and a child names the join at most as often as it
  occurs among the children handled (`Occurs`). A join therefore reaches zero only when no
  child is left. The bound is an inequality because a failing wait can blank another join's
  place in a shared child (the run `parent_hole`): that join then stays pending, which is a
  lost signal and never an early one.
- `OwedOK`: only the client of a call waits for the array the call is making.

The proof shows once how each step moves its client (`...Goes`) and what it does to the
table (`...Table`), then classifies steps (`StepKinds`: plain, counts off, appends, blanks,
reserves, frees, or a signal of the Fence CTL, `CtlGoes`), and shows each part for the
kinds of steps rather than for the twenty-odd actions.

### Speculative fence driver

The theorems of `SpecSyncProofs` hold for any finite sets of threads, waiters and arrays,
any fences, every shape and every list of fds. The sets are assumed finite because
references are counted.

- `DummyIsNotLeaked` (`DummyNotLeaked`) needs nothing more: no reference to the dummy
  outlives its place, in any use of the device. Its invariant `LeakInv` knows of an array
  only which fences it has; `LeakSettle` shows that a step that takes away at most as many
  places as it puts dummies keeps it, and `LeakReplace` that a bind does so also when it
  fails half way or when another bind was there before.
- `ReferencesBalance` (`RefsBalanced`), `ArraysTypeCorrect` (`TypeOK`, with counts that
  never fall below zero), `SignalsAsAsked` (`SignalsSound`), `BoundIsComplete`
  (`BoundComplete`), `LeavingSignals` (`LeavesSignaled`) have the hypothesis `OneBinder`.
  That the dummy has a reference for *every* place (`DummyRefs`) is false without it
  (`two_binders`) and is only a part of the invariant here.
  `BoundComplete` exempts the failed bind between the wake-up and the error, and
  `LeavesSignaled` the arrays that wait for several fences: after the last release these
  stay unsignaled, as the code has it.

The five need each other: that a step finds its array live follows from the balance of
references, that the count of the dummy is right when an array is released follows from
the array being untouched by then. `SpecInv` is therefore one invariant. Of an array by
itself (`Sound`) it says that callbacks exist only after the dummies are gone, that
`num_pending` is at least the number of fences that the array has to wait for, and that a
deferred signal has nothing pending. `Outside(r) = Inside(a)` splits the balance into the
references a record explains (fd, callbacks, deferred signal) and those of the tracker,
the calls and the waits, so that each change of a record is shown once, without the rest
of the state (lemmas `...Change`). `CallOK` says what a bind between two locked sections
may rely on, `ApartPart` that one thread binds an array and one tracks it, which is what
`OneBinder` gives. `SettleStep` deals with the release of an array once for all actions.

### What stays with TLC

Liveness under fairness is beyond the prover: `CallbackRuns`, `Drained`, `SvmGetsLock`,
`WaitersServed`, `BoundSignals`. So is `JoinCounts`, the exact count of a join: it holds for
the arrays of the instance and not for all arrays, since a wait that fails after it linked a
shared child leaves another join with more pending than links (`parent_hole`). What is
proved for all arrays is the inequality in `JoinsOK`. Every other invariant and action
property of a passing run has a theorem.

## 5. Limits

A next component would be the request slots of the camera request manager, the largest user
of the camera fences.

Outside the model: interrupts on the same CPU (the difference between `spin_lock` and
`spin_lock_bh`), the memory model below the barriers the code places, and use of memory
after it was freed; the model stays above them.

Not modelled, and why: `hw_fence_update_existing_txq_payload` (swaps two payloads in place
under a contract with the firmware that is not in the repository); client registration,
memory layout and device-tree parsing of the hardware-fence driver (set-up before any of
the modelled state is shared); its debugfs and ioctl test clients; the rest of the tree, as
listed in `PROJECT.json`.

The hazards that guide the choice of properties are listed in `PROJECT.json` with their
lines, the ones not covered yet with the reason.
