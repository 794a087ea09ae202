---------------------------- MODULE HwFenceQueue ----------------------------
(***************************************************************************)
(* A queue of the hardware-fence driver (mm-drivers/hw_fence): a ring of   *)
(* payloads in memory shared by CPUs and the Fence CTL firmware, with a    *)
(* read and a write index in its header.  Writers run                      *)
(* hw_fence_update_queue under the client's lock and then ring a doorbell; *)
(* the one reader drains the queue when it takes the doorbell, the way     *)
(* _process_fence_error_client_loopback does.                              *)
(*                                                                         *)
(* Indexes count dwords.  A client may index its Tx queue in units and     *)
(* from a start of its own; the header then holds custom indexes and the   *)
(* driver translates both ways.  A Tx queue is written by its client alone *)
(* and read by the Fence CTL firmware, which is not in the repository: it  *)
(* is taken to read the way hw_fence_read_queue_helper does.               *)
(***************************************************************************)
EXTENDS Integers, Sequences, HwFenceLock

CONSTANTS
    Configs,      \* kinds of queue: tx (or Rx), skip_wr_idx, rd_wr_idx_start,
                  \* rd_wr_idx_factor, who writes it, bound on the number of writes
    Client,       \* the driver context of the queue's client
    Slots,        \* payloads the ring has room for
    Dwords,       \* payload_size_u32
    Payload, NoPayload,
    MaxIter       \* HW_FENCE_MAX_ITER_READ

ASSUME SlotsAssumption == Slots \in Nat /\ Slots > 1 /\ Dwords \in Nat \ {0}
ASSUME ConfigsAssumption ==
    \A c \in Configs :
        /\ c \in [tx : BOOLEAN, skip : BOOLEAN, start : Nat, factor : Nat \ {0},
                  writers : SUBSET (Drivers \cup {Svm}), maxWrites : Nat]
        /\ Client \in c.writers
        /\ c.tx => c.writers = {Client}
        /\ Dwords % c.factor = 0
        /\ ~c.tx => ~c.skip /\ c.start = 0 /\ c.factor = 1
ASSUME ClientAssumption == Client \in Drivers
ASSUME BoundsAssumption == MaxIter \in Nat \ {0}

VARIABLES
    conf,          \* the kind of this queue
    rdIdx, wrIdx, txWm,  \* read_index, write_index and tx_wm of the header
    slots,         \* the payload at each place of the ring
    doorbell,      \* doorbell flag of this queue
    wpc, wW, wVal, \* each writer: step, write index it read, its payload
    rpc, rR, rW, rVal, iter,\* the reader: step, indexes it read, its copy, loop count
    out,           \* the payload handed on last
    cleared,       \* history: parity of the resets, which alone may drop payloads
    writes

header == <<rdIdx, wrIdx, txWm>>
writer == <<wpc, wW, wVal>>
reader == <<rpc, rR, rW, rVal, iter>>
vars == <<header, slots, doorbell, writer, reader, out, cleared, writes, conf, lockVars>>

----------------------------------------------------------------------------
QSize == Slots * Dwords

(* REQUIRES_IDX_TRANSLATION and the two translations. *)
Translated == conf.start # 0 \/ conf.factor > 1
ToDefault_Unscaled(i) == IF Translated THEN i - conf.start ELSE i
ToDefault(i) == IF Translated THEN (i - conf.start) * conf.factor ELSE i
ToCustom(i) == IF Translated THEN i \div conf.factor + conf.start ELSE i

(* Where the driver keeps its write index: of a queue whose write_index it *)
(* is to skip, in tx_wm.                                                   *)
WrPtr == IF conf.skip THEN txWm ELSE wrIdx
SetWrPtr(i) ==
    IF conf.skip THEN txWm' = i /\ UNCHANGED wrIdx ELSE wrIdx' = i /\ UNCHANGED txWm

(* The place of the ring a dword index points at. *)
SlotOf(i) == i \div Dwords

(* The index after a payload, back to the beginning after the last one.    *)
After_WrapLate(i) == IF i + Dwords > QSize THEN 0 ELSE i + Dwords
After(i) == IF i + Dwords >= QSize THEN 0 ELSE i + Dwords

(* Free dwords; a message fits only if it leaves the queue not full.       *)
Free(r, w) == IF r <= w THEN QSize - (w - r) ELSE r - w
Fits_Full(r, w) == Free(r, w) >= Dwords
Fits(r, w) == Free(r, w) > Dwords

----------------------------------------------------------------------------
Writers == conf.writers
queue == <<header, slots, doorbell, reader, out, cleared, conf>>

(* A writer holds what it needs to write: the lock of an Rx queue, nothing *)
(* for a Tx queue, which has one writer.                                   *)
MayWrite(p) == conf.tx \/ lpc[p] = "in"

(* hw_fence_update_queue: _lock_client_queue takes the client's lock for   *)
(* an Rx queue only.  The Fence CTL may have to wait for it in its sleep.  *)
LockClient_NoLock(p, v) ==
    /\ wpc[p] = "idle" /\ lpc[p] = "out"
    /\ writes < conf.maxWrites
    /\ lpc' = [lpc EXCEPT ![p] = "in"]
    /\ writes' = writes + 1
    /\ wVal' = [wVal EXCEPT ![p] = v]
    /\ wpc' = [wpc EXCEPT ![p] = "index"]
    /\ UNCHANGED <<queue, wW, word, wakeup>>
LockClient(p, v) ==
    /\ wpc[p] = "idle" /\ lpc[p] = "out"
    /\ writes < conf.maxWrites
    /\ IF conf.tx THEN UNCHANGED lockVars
       ELSE IF p = Svm THEN SvmLock ELSE Lock(p)
    /\ writes' = writes + 1
    /\ wVal' = [wVal EXCEPT ![p] = v]
    /\ wpc' = [wpc EXCEPT ![p] = "index"]
    /\ UNCHANGED <<queue, wW>>

WakeWriter(p) ==
    /\ p = Svm
    /\ SvmWake
    /\ UNCHANGED <<queue, writer, writes>>

(* Read both indexes; without room the write is given up. *)
ReadIndexes(p) ==
    /\ wpc[p] = "index" /\ MayWrite(p)
    /\ wW' = [wW EXCEPT ![p] = ToDefault(WrPtr)]
    /\ wpc' = [wpc EXCEPT ![p] =
                  IF Fits(ToDefault(rdIdx), ToDefault(WrPtr)) THEN "payload" ELSE "unlock"]
    /\ UNCHANGED <<queue, wVal, writes, lockVars>>

(* The fields of the payload, before the barrier. *)
WritePayload(p) ==
    /\ wpc[p] = "payload"
    /\ slots' = [slots EXCEPT ![SlotOf(wW[p])] = wVal[p]]
    /\ wpc' = [wpc EXCEPT ![p] = "publish"]
    /\ UNCHANGED <<header, doorbell, wW, wVal, reader, out, cleared, writes, conf, lockVars>>

(* The write index, after it. *)
PublishIndex(p) ==
    /\ wpc[p] = "publish"
    /\ SetWrPtr(ToCustom(After(wW[p])))
    /\ wpc' = [wpc EXCEPT ![p] = "unlock"]
    /\ UNCHANGED <<rdIdx, slots, doorbell, wW, wVal, reader, out, cleared, writes, conf, lockVars>>

(* Of a queue whose write_index is skipped, the client itself publishes    *)
(* what the driver wrote, one payload at a time, and rings.                *)
ClientPublishes ==
    /\ conf.skip /\ wrIdx # txWm
    /\ wrIdx' = ToCustom(After(ToDefault(wrIdx)))
    /\ doorbell' = TRUE
    /\ UNCHANGED <<rdIdx, txWm, slots, writer, reader, out, cleared, writes, conf, lockVars>>

(* The unlock; a reset is over then, an update goes on to its signal. *)
UnlockClient(p) ==
    /\ wpc[p] = "unlock"
    /\ IF conf.tx THEN UNCHANGED lockVars
       ELSE IF p = Svm THEN SvmUnlock ELSE Unlock(p)
    /\ wpc' = [wpc EXCEPT ![p] = IF wVal[p] = NoPayload THEN "idle" ELSE "ring"]
    /\ UNCHANGED <<queue, wW, wVal, writes>>

LookBack(p) ==
    /\ CheckWake(p)
    /\ UNCHANGED <<queue, writer, writes>>

(* The signal that follows every update, whether the payload fitted or not *)
(* (_fence_ctl_signal ignores the result of the update).                   *)
Ring(p) ==
    /\ wpc[p] = "ring" /\ lpc[p] = "out"
    /\ doorbell' = TRUE
    /\ wpc' = [wpc EXCEPT ![p] = "idle"]
    /\ wW' = [wW EXCEPT ![p] = 0]
    /\ wVal' = [wVal EXCEPT ![p] = NoPayload]
    /\ UNCHANGED <<header, slots, reader, out, cleared, writes, conf, lockVars>>

(* hw_fence_utils_reset_queues: what was written and not read is dropped,  *)
(* from a Tx queue by moving the read index, from an Rx queue by moving    *)
(* the write index under the lock.  The reader is stopped meanwhile: the   *)
(* client resets the queues of an engine it has halted.                    *)
ResetTx ==
    /\ conf.tx /\ wpc[Client] = "idle" /\ rpc = "idle"
    /\ rdIdx' = wrIdx
    /\ txWm' = IF conf.skip THEN wrIdx ELSE txWm
    /\ cleared' = ~cleared
    /\ UNCHANGED <<wrIdx, slots, doorbell, writer, reader, out, writes, conf, lockVars>>
LockReset ==
    /\ ~conf.tx /\ wpc[Client] = "idle" /\ rpc = "idle"
    /\ Lock(Client)
    /\ wpc' = [wpc EXCEPT ![Client] = "reset"]
    /\ UNCHANGED <<queue, wW, wVal, writes>>
ResetRx ==
    /\ wpc[Client] = "reset"
    /\ wrIdx' = rdIdx
    /\ cleared' = ~cleared
    /\ wpc' = [wpc EXCEPT ![Client] = "unlock"]
    /\ UNCHANGED <<rdIdx, txWm, slots, doorbell, wW, wVal, reader, out, writes, conf, lockVars>>
ReaderRuns == wpc[Client] # "reset"

----------------------------------------------------------------------------
(* _hw_fence_cb: read and clean the doorbell, then process its queue.      *)
Doorbell ==
    /\ rpc = "idle" /\ ReaderRuns
    /\ doorbell
    /\ doorbell' = FALSE
    /\ iter' = 0
    /\ rpc' = "index"
    /\ UNCHANGED <<header, slots, writer, rR, rW, rVal, out, cleared, writes, conf, lockVars>>

(* hw_fence_read_queue_helper: read both indexes; nothing to read ends the *)
(* loop.                                                                   *)
ReadQueue ==
    /\ rpc = "index"
    /\ rR' = ToDefault(rdIdx)
    /\ rW' = ToDefault(wrIdx)
    /\ rpc' = IF ToDefault(rdIdx) = ToDefault(wrIdx) THEN "idle" ELSE "copy"
    /\ UNCHANGED <<header, slots, doorbell, writer, rVal, iter, out, cleared, writes, conf, lockVars>>

CopyPayload ==
    /\ rpc = "copy"
    /\ rVal' = slots[SlotOf(rR)]
    /\ rpc' = "advance"
    /\ UNCHANGED <<header, slots, doorbell, writer, rR, rW, iter, out, cleared, writes, conf, lockVars>>

(* "Return one if queue still has contents after read". *)
MoreToRead_BeforeWrap(r, w) == ToCustom(r + Dwords) # w /\ r + Dwords < QSize
MoreToRead(r, w) == ToCustom(After(r)) # w

(* Update the read index and hand the payload on; read again while there   *)
(* is more, up to the loop's limit.                                        *)
AdvanceRead ==
    /\ rpc = "advance"
    /\ rdIdx' = ToCustom(After(rR))
    /\ out' = rVal
    /\ iter' = iter + 1
    /\ rpc' = IF MoreToRead(rR, rW) /\ iter + 1 < MaxIter THEN "index" ELSE "idle"
    /\ rVal' = NoPayload
    /\ UNCHANGED <<wrIdx, txWm, slots, doorbell, writer, rR, rW, cleared, writes, conf, lockVars>>

----------------------------------------------------------------------------
(* init_hw_fences_queues: both indexes at the start. *)
Init ==
    /\ conf \in Configs
    /\ rdIdx = ToCustom(0) /\ wrIdx = ToCustom(0) /\ txWm = ToCustom(0)
    /\ slots = [i \in 0..(Slots - 1) |-> NoPayload]
    /\ doorbell = FALSE
    /\ wpc = [p \in Writers |-> "idle"]
    /\ wW = [p \in Writers |-> 0]
    /\ wVal = [p \in Writers |-> NoPayload]
    /\ rpc = "idle" /\ rR = 0 /\ rW = 0 /\ rVal = NoPayload /\ iter = 0
    /\ out = NoPayload
    /\ cleared = FALSE
    /\ writes = 0
    /\ LockInit

Update(p) == \E v \in Payload : LockClient(p, v)
WriterStep(p) ==
    \/ WakeWriter(p) \/ ReadIndexes(p) \/ WritePayload(p) \/ PublishIndex(p)
    \/ UnlockClient(p) \/ LookBack(p) \/ Ring(p)
ReaderStep == Doorbell \/ ReadQueue \/ CopyPayload \/ AdvanceRead

Next ==
    \/ \E p \in Writers : WriterStep(p) \/ Update(p)
    \/ ReaderStep \/ ClientPublishes
    \/ ResetTx \/ LockReset \/ ResetRx

Spec == Init /\ [][Next]_vars

(* A driver between lock and unlock runs with preemption disabled and goes *)
(* on, and so does the Fence CTL; the doorbell interrupt and its loop run. *)
Fairness ==
    /\ \A p \in Drivers \cup {Svm} : WF_vars(p \in Writers /\ WriterStep(p))
    /\ WF_vars(ReaderStep)
    /\ WF_vars(ResetRx)
FairSpec == Spec /\ Fairness

----------------------------------------------------------------------------
Indexes == {ToCustom(i * Dwords) : i \in 0..(Slots - 1)}
Offsets == {i * Dwords : i \in 0..(Slots - 1)}
Stored == Payload \cup {NoPayload}

(* Indexes stay on payload boundaries inside the ring. *)
TypeOK ==
    /\ {rdIdx, wrIdx, txWm} \subseteq Indexes
    /\ slots \in [0..(Slots - 1) -> Stored]
    /\ doorbell \in BOOLEAN
    /\ wpc \in [Writers -> {"idle", "index", "payload", "publish", "unlock", "ring", "reset"}]
    /\ wW \in [Writers -> Offsets]
    /\ wVal \in [Writers -> Stored]
    /\ rpc \in {"idle", "index", "copy", "advance"}
    /\ rR \in Offsets /\ rW \in Offsets /\ rVal \in Stored /\ iter \in Nat
    /\ out \in Stored /\ cleared \in BOOLEAN
    /\ writes \in Nat
    /\ conf \in Configs
    /\ LockTypeOK

(* How many payloads are between the indexes, and the queue they make up.  *)
Span(w) == LET d == SlotOf(ToDefault(w)) - SlotOf(ToDefault(rdIdx))
           IN  IF d >= 0 THEN d ELSE d + Slots
Used == Span(wrIdx)
Contents == [i \in 1..Used |-> slots[(SlotOf(ToDefault(rdIdx)) + i - 1) % Slots]]

(* The ring implements a bounded first-in first-out queue of one payload   *)
(* less than it has room for, with any number of writers and a reader that *)
(* takes no lock.                                                          *)
Fifo == INSTANCE BoundedFifo WITH q <- Contents, out <- out, Capacity <- Slots - 1
FifoSpec == Fifo!Spec

(* What a payload is written into and copied from is never in use by the   *)
(* other side: the reader's copy is the head of the queue until it moves   *)
(* the read index, and a writer's place is outside the queue.              *)
ReaderHoldsHead ==
    /\ rpc \in {"copy", "advance"} => rR = ToDefault(rdIdx) /\ Used > 0
    /\ rpc = "advance" => rVal = Head(Contents)
    /\ \A p \in Writers : wpc[p] \in {"payload", "publish"} =>
          MayWrite(p) /\ wW[p] = ToDefault(WrPtr) /\ Span(WrPtr) < Slots - 1

(* Once writers stop, the queue is drained: every payload has a doorbell   *)
(* behind it, and one pass of the loop reaches all that was in the queue.  *)
Drained == <>[](rdIdx = wrIdx)
=============================================================================
