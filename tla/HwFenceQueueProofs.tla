------------------------ MODULE HwFenceQueueProofs ------------------------
(***************************************************************************)
(* The ring of a hardware-fence queue implements a bounded first-in        *)
(* first-out queue, for a ring of any size, payloads of any size, every    *)
(* kind of queue and any number of writers.                                *)
(*                                                                         *)
(* The argument goes from dword indexes to places of the ring (PlaceOf,    *)
(* TranslateBack, IndexPlace), where distances are counted round the ring  *)
(* (RingDistance, NthFacts).  QueueInv is the inductive invariant.         *)
(***************************************************************************)
EXTENDS HwFenceQueue, HwFenceLockProofs, SequenceTheorems

(* The place after a place, and the number of places from r to w. *)
NextPlace(k) == IF k = Slots - 1 THEN 0 ELSE k + 1
Dist(r, w) == IF w >= r THEN w - r ELSE w - r + Slots

(* A multiple below the step is zero. *)
LEMMA SmallMultiple ==
    ASSUME NEW D \in Nat \ {0}, NEW n \in Int, 0 <= n * D, n * D < D
    PROVE  n = 0
<1>1. CASE n >= 1
    <2>1. n * D >= D
        BY <1>1
    <2> QED BY <2>1
<1>2. CASE n <= -1
    <2>1. n * D <= -D
        BY <1>2
    <2> QED BY <2>1
<1> QED BY <1>1, <1>2

(* Division undoes multiplication. *)
LEMMA DivMultiple ==
    ASSUME NEW D \in Nat \ {0}, NEW k \in Nat
    PROVE  (k * D) \div D = k
<1> DEFINE q == (k * D) \div D
<1>1. q \in Int /\ k * D = (D * q) + ((k * D) % D) /\ (k * D) % D \in 0..(D - 1)
    OBVIOUS
<1>2. (k - q) * D = (k * D) % D
    BY <1>1
<1>3. k - q = 0
    <2> HIDE DEF q
    <2> QED BY <1>1, <1>2, SmallMultiple
<1> QED BY <1>1, <1>3

(* A factor of the payload size divides every payload boundary. *)
LEMMA DivFactor ==
    ASSUME NEW D \in Nat \ {0}, NEW f \in Nat \ {0}, D % f = 0, NEW k \in Nat
    PROVE  /\ (k * D) \div f \in Nat
           /\ ((k * D) \div f) * f = k * D
<1> DEFINE m == D \div f
<1>1. m \in Nat /\ D = m * f
    OBVIOUS
<1> HIDE DEF m
<1>2. k * D = (k * m) * f /\ k * m \in Nat
    BY <1>1
<1>3. (k * D) \div f = k * m
    BY <1>2, DivMultiple
<1> QED BY <1>2, <1>3

USE SlotsAssumption, ClientAssumption, BoundsAssumption, SvmAssumption

Places == 0..(Slots - 1)

(* Multiples of the payload size compare like their factors. *)
LEMMA MultipleOrder ==
    ASSUME NEW a \in Int, NEW b \in Int
    PROVE  (a * Dwords <= b * Dwords) <=> (a <= b)
<1>1. CASE a <= b
    <2>1. (b - a) * Dwords >= 0
        BY <1>1
    <2> QED BY <1>1, <2>1
<1>2. CASE a >= b + 1
    <2>1. (a - b - 1) * Dwords >= 0
        BY <1>2
    <2> QED BY <1>2, <2>1
<1> QED BY <1>1, <1>2

(* The place of a payload boundary, and the boundary after it. *)
LEMMA PlaceOf ==
    ASSUME NEW k \in Places
    PROVE  /\ k * Dwords \in Int
           /\ SlotOf(k * Dwords) = k
           /\ After(k * Dwords) = NextPlace(k) * Dwords
           /\ NextPlace(k) \in Places
<1>1. SlotOf(k * Dwords) = k
    BY DivMultiple DEF SlotOf, Places
<1>2. k * Dwords + Dwords = (k + 1) * Dwords
    BY DEF Places
<1>3. (Slots * Dwords <= (k + 1) * Dwords) <=> (Slots <= k + 1)
    BY MultipleOrder DEF Places
<1> QED BY <1>1, <1>2, <1>3 DEF After, QSize, NextPlace, Places

(* Room for one more payload and one place left empty. *)
LEMMA FitsPlaces ==
    ASSUME NEW r \in Places, NEW w \in Places
    PROVE  Fits(r * Dwords, w * Dwords) <=> Dist(r, w) < Slots - 1
<1>1. (r * Dwords <= w * Dwords) <=> (r <= w)
    BY MultipleOrder DEF Places
<1> DEFINE n == IF r <= w THEN Slots - (w - r) ELSE r - w
<1>2. n \in Int /\ Free(r * Dwords, w * Dwords) = n * Dwords
    BY <1>1 DEF Free, QSize, Places
<1>3. (n * Dwords <= 1 * Dwords) <=> (n <= 1)
    <2> HIDE DEF n
    <2> QED BY <1>2, MultipleOrder
<1>4. Fits(r * Dwords, w * Dwords) <=> n > 1
    <2> HIDE DEF n
    <2> QED BY <1>2, <1>3 DEF Fits
<1> QED BY <1>4 DEF Dist, Places

(* The translation of an index and back. *)
LEMMA TranslateBack ==
    ASSUME conf \in Configs, NEW k \in Places
    PROVE  ToDefault(ToCustom(k * Dwords)) = k * Dwords
<1>1. conf.start \in Nat /\ conf.factor \in Nat \ {0} /\ Dwords % conf.factor = 0
    BY ConfigsAssumption
<1>2. /\ (k * Dwords) \div conf.factor \in Nat
      /\ ((k * Dwords) \div conf.factor) * conf.factor = k * Dwords
    <2>1. k \in Nat /\ Dwords \in Nat \ {0}
        BY DEF Places
    <2> QED BY <1>1, <2>1, DivFactor, Zenon
<1>3. k * Dwords \in Int
    BY DEF Places
<1> QED BY <1>1, <1>2, <1>3 DEF ToDefault, ToCustom, Translated

(* The header's indexes are the custom indexes of places. *)
LEMMA IndexPlace ==
    ASSUME conf \in Configs, NEW i \in Indexes
    PROVE  /\ SlotOf(ToDefault(i)) \in Places
           /\ ToDefault(i) = SlotOf(ToDefault(i)) * Dwords
           /\ i = ToCustom(SlotOf(ToDefault(i)) * Dwords)
<1> PICK k \in Places : i = ToCustom(k * Dwords)
    BY DEF Indexes, Places
<1> QED BY TranslateBack, PlaceOf

(* The offsets of places and their custom indexes. *)
LEMMA PlaceIndex ==
    ASSUME conf \in Configs, NEW k \in Places
    PROVE  /\ k * Dwords \in Offsets
           /\ ToCustom(k * Dwords) \in Indexes
           /\ SlotOf(ToDefault(ToCustom(k * Dwords))) = k
BY TranslateBack, PlaceOf DEF Offsets, Indexes, Places

(* An offset is the beginning of a place. *)
LEMMA OffsetPlace ==
    ASSUME NEW i \in Offsets
    PROVE  SlotOf(i) \in Places /\ i = SlotOf(i) * Dwords
<1> PICK k \in Places : i = k * Dwords
    BY DEF Offsets, Places
<1> QED BY PlaceOf

(* Distances round the ring. *)
LEMMA RingDistance ==
    ASSUME NEW r \in Places, NEW w \in Places
    PROVE  /\ Dist(r, w) \in 0..(Slots - 1)
           /\ Dist(r, w) = 0 <=> r = w
           /\ Dist(r, w) < Slots - 1 => Dist(r, NextPlace(w)) = Dist(r, w) + 1
           /\ Dist(r, w) > 0 => Dist(NextPlace(r), w) = Dist(r, w) - 1
           /\ Dist(r, r) = 0
BY DEF Dist, NextPlace, Places

(* The place n places after r. *)
Nth(r, n) == (r + n) % Slots

(* It is in the ring. *)
LEMMA NthPlace ==
    ASSUME NEW r \in Places, NEW n \in 0..Slots
    PROVE  /\ Nth(r, n) = IF r + n < Slots THEN r + n ELSE r + n - Slots
           /\ Nth(r, n) \in Places
<1>1. r + n \in 0..(2 * Slots - 1)
    BY DEF Places
<1>2. CASE r + n < Slots
    <2>1. (r + n) % Slots = r + n
        BY <1>1, <1>2 DEF Places
    <2> QED BY <1>1, <1>2, <2>1 DEF Nth, Places
<1>3. CASE r + n >= Slots
    <2>1. (r + n) % Slots = r + n - Slots
        BY <1>1, <1>3 DEF Places
    <2> QED BY <1>1, <1>3, <2>1 DEF Nth, Places
<1> QED BY <1>1, <1>2, <1>3

(* It is w exactly when n is the distance to w. *)
LEMMA NthFacts ==
    ASSUME NEW r \in Places, NEW n \in 0..(Slots - 1)
    PROVE  /\ Nth(r, 0) = r
           /\ Nth(NextPlace(r), n) = Nth(r, n + 1)
           /\ \A w \in Places : Nth(r, n) = w <=> n = Dist(r, w)
<1>1. Nth(r, n) = (IF r + n < Slots THEN r + n ELSE r + n - Slots)
    BY NthPlace
<1>2. Nth(r, n + 1) = (IF r + (n + 1) < Slots THEN r + (n + 1) ELSE r + (n + 1) - Slots)
    <2> DEFINE m == n + 1
    <2>1. m \in 0..Slots
        OBVIOUS
    <2> HIDE DEF m
    <2>2. Nth(r, m) = (IF r + m < Slots THEN r + m ELSE r + m - Slots)
        BY <2>1, NthPlace
    <2> QED BY <2>2 DEF m
<1>3. NextPlace(r) \in Places
    BY DEF NextPlace, Places
<1>4. Nth(NextPlace(r), n) = (IF NextPlace(r) + n < Slots THEN NextPlace(r) + n ELSE NextPlace(r) + n - Slots)
    BY <1>3, NthPlace
<1>5. Nth(r, 0) = r
    BY NthPlace DEF Places
<1> QED BY <1>1, <1>2, <1>3, <1>4, <1>5 DEF Dist, NextPlace, Places

----------------------------------------------------------------------------
(* The SVM sends no interrupt to itself. *)
SvmLeavesAtOnce == lpc[Svm] # "check"

(* Every step of the queue is a step of the lock or leaves it alone. *)
LEMMA QueueLockStep ==
    TypeOK /\ SvmLeavesAtOnce /\ [Next]_vars => [LockNext]_lockVars
<1> SUFFICES ASSUME TypeOK, SvmLeavesAtOnce, [Next]_vars PROVE [LockNext]_lockVars
    OBVIOUS
<1>0. Writers \subseteq Drivers \cup {Svm} /\ Client \in Drivers
    BY ConfigsAssumption DEF TypeOK, Writers
<1>1. ASSUME NEW p \in Writers, NEW v \in Payload, LockClient(p, v)
      PROVE  [LockNext]_lockVars
    BY <1>0, <1>1 DEF LockClient, LockNext
<1>2. ASSUME NEW p \in Writers, WriterStep(p) PROVE [LockNext]_lockVars
    <2>1. CASE WakeWriter(p)
        BY <2>1 DEF WakeWriter, LockNext
    <2>2. CASE ReadIndexes(p)
        BY <2>2 DEF ReadIndexes
    <2>3. CASE WritePayload(p)
        BY <2>3 DEF WritePayload
    <2>4. CASE PublishIndex(p)
        BY <2>4 DEF PublishIndex
    <2>5. CASE UnlockClient(p)
        BY <1>0, <2>5 DEF UnlockClient, LockNext
    <2>6. CASE LookBack(p)
        BY <1>0, <2>6 DEF LookBack, CheckWake, SvmLeavesAtOnce, LockNext
    <2>7. CASE Ring(p)
        BY <2>7 DEF Ring
    <2> QED BY <1>2, <2>1, <2>2, <2>3, <2>4, <2>5, <2>6, <2>7 DEF WriterStep
<1>3. CASE ReaderStep
    BY <1>3 DEF ReaderStep, Doorbell, ReadQueue, CopyPayload, AdvanceRead
<1>4. CASE ClientPublishes
    BY <1>4 DEF ClientPublishes
<1>5. CASE ResetTx \/ ResetRx
    BY <1>5 DEF ResetTx, ResetRx
<1>6. CASE LockReset
    BY <1>0, <1>6 DEF LockReset, LockNext
<1>7. CASE UNCHANGED vars
    BY <1>7 DEF vars
<1> QED BY <1>1, <1>2, <1>3, <1>4, <1>5, <1>6, <1>7 DEF Next, Update

LockPart == LockInv /\ SvmLeavesAtOnce

(* The lock keeps its invariant, and the SVM never looks back. *)
LEMMA LockPartStep == TypeOK /\ LockPart /\ [Next]_vars => LockPart'
<1>1. LockInv /\ SvmLeavesAtOnce /\ [LockNext]_lockVars => SvmLeavesAtOnce'
    BY DEF SvmLeavesAtOnce, LockInv, LockTypeOK, LockNext, lockVars, Lock, Unlock, CheckWake,
           SvmLock, SvmWake, SvmUnlock
<1> QED BY <1>1, QueueLockStep, LockInvNext DEF LockPart

----------------------------------------------------------------------------
(* The kind of the queue never changes. *)
LEMMA ConfFixed == [Next]_vars => conf' = conf
<1> SUFFICES ASSUME [Next]_vars PROVE conf' = conf
    OBVIOUS
<1>1. ASSUME NEW p \in Writers, Update(p) PROVE conf' = conf
    BY <1>1 DEF Update, LockClient, queue
<1>2. ASSUME NEW p \in Writers, WriterStep(p) PROVE conf' = conf
    BY <1>2 DEF WriterStep, WakeWriter, ReadIndexes, WritePayload, PublishIndex, UnlockClient,
                LookBack, Ring, queue
<1>3. CASE ReaderStep \/ ClientPublishes
    BY <1>3 DEF ReaderStep, Doorbell, ReadQueue, CopyPayload, AdvanceRead, ClientPublishes
<1>4. CASE ResetTx \/ LockReset \/ ResetRx
    BY <1>4 DEF ResetTx, LockReset, ResetRx, queue
<1>5. CASE UNCHANGED vars
    BY <1>5 DEF vars
<1> QED BY <1>1, <1>2, <1>3, <1>4, <1>5 DEF Next

(* What depends on the kind alone does not change either. *)
LEMMA ConfFrame ==
    ASSUME conf' = conf
    PROVE  /\ Writers' = Writers /\ Indexes' = Indexes
           /\ \A i : ToDefault(i)' = ToDefault(i) /\ ToCustom(i)' = ToCustom(i)
BY DEF Writers, Indexes, ToDefault, ToCustom, Translated

(* What an index moves to is an index. *)
LEMMA AfterIndex ==
    ASSUME conf \in Configs, NEW i \in Offsets
    PROVE  After(i) \in Offsets /\ ToCustom(After(i)) \in Indexes
BY OffsetPlace, PlaceOf, PlaceIndex

(* An index of the header is the offset of a payload. *)
LEMMA DefaultOffset ==
    ASSUME conf \in Configs, NEW i \in Indexes
    PROVE  ToDefault(i) \in Offsets
BY IndexPlace, PlaceIndex

(* Initially both indexes are at the start. *)
LEMMA QueueTypeInit == Init => TypeOK
<1> SUFFICES ASSUME Init PROVE TypeOK
    OBVIOUS
<1>1. 0 \in Places /\ 0 * Dwords = 0
    BY DEF Places
<1>2. 0 \in Offsets /\ ToCustom(0) \in Indexes
    BY <1>1, PlaceIndex DEF Init
<1>3. LockTypeOK
    BY LockInvInit DEF Init, LockInv
<1> QED BY <1>2, <1>3 DEF Init, TypeOK, Stored

(* Every step keeps indexes on payload boundaries inside the ring. *)
LEMMA QueueTypeStep == TypeOK /\ LockPart /\ [Next]_vars => TypeOK'
<1> SUFFICES ASSUME TypeOK, LockPart, [Next]_vars PROVE TypeOK'
    OBVIOUS
<1>a. LockTypeOK'
    BY LockPartStep DEF LockPart, LockInv
<1>b. conf' = conf /\ Writers' = Writers /\ Indexes' = Indexes
    BY ConfFixed, ConfFrame
<1>c. conf \in Configs /\ Client \in Writers
    BY ConfigsAssumption DEF TypeOK, Writers
<1>d. /\ ToDefault(rdIdx) \in Offsets /\ ToDefault(wrIdx) \in Offsets
      /\ ToDefault(WrPtr) \in Offsets /\ 0 \in Offsets
    <2>1. 0 \in Places /\ 0 * Dwords = 0
        BY DEF Places
    <2>2. 0 \in Offsets
        BY <1>c, <2>1, PlaceIndex
    <2>3. rdIdx \in Indexes /\ wrIdx \in Indexes /\ WrPtr \in Indexes
        BY DEF TypeOK, WrPtr
    <2> QED BY <1>c, <2>2, <2>3, DefaultOffset
<1>1. ASSUME NEW p \in Writers, NEW v \in Payload, LockClient(p, v) PROVE TypeOK'
    BY <1>1, <1>a, <1>b DEF LockClient, TypeOK, queue, header, reader, Stored
<1>2. ASSUME NEW p \in Writers, WriterStep(p) PROVE TypeOK'
    <2>1. CASE WakeWriter(p) \/ LookBack(p)
        BY <2>1, <1>a, <1>b DEF WakeWriter, LookBack, TypeOK, queue, header, reader, writer
    <2>2. CASE ReadIndexes(p)
        BY <2>2, <1>a, <1>b, <1>d DEF ReadIndexes, TypeOK, queue, header, reader
    <2>3. CASE WritePayload(p)
        <3>1. SlotOf(wW[p]) \in 0..(Slots - 1)
            BY OffsetPlace DEF TypeOK, Places
        <3> QED BY <2>3, <3>1, <1>a, <1>b DEF WritePayload, TypeOK, header, reader
    <2>4. CASE PublishIndex(p)
        <3>1. ToCustom(After(wW[p])) \in Indexes
            BY <1>c, AfterIndex DEF TypeOK
        <3> QED BY <2>4, <3>1, <1>a, <1>b DEF PublishIndex, SetWrPtr, TypeOK, reader
    <2>5. CASE UnlockClient(p)
        BY <2>5, <1>a, <1>b DEF UnlockClient, TypeOK, queue, header, reader
    <2>6. CASE Ring(p)
        BY <2>6, <1>a, <1>b, <1>d DEF Ring, TypeOK, header, reader, Stored
    <2> QED BY <1>2, <2>1, <2>2, <2>3, <2>4, <2>5, <2>6 DEF WriterStep
<1>3. CASE Doorbell
    BY <1>3, <1>a, <1>b DEF Doorbell, TypeOK, header, writer
<1>4. CASE ReadQueue
    BY <1>4, <1>a, <1>b, <1>d DEF ReadQueue, TypeOK, header, writer
<1>5. CASE CopyPayload
    <2>1. SlotOf(rR) \in 0..(Slots - 1)
        BY OffsetPlace DEF TypeOK, Places
    <2> QED BY <1>5, <2>1, <1>a, <1>b DEF CopyPayload, TypeOK, header, writer
<1>6. CASE AdvanceRead
    <2>1. ToCustom(After(rR)) \in Indexes
        BY <1>c, AfterIndex DEF TypeOK
    <2> QED BY <1>6, <2>1, <1>a, <1>b DEF AdvanceRead, TypeOK, writer, Stored
<1>7. CASE ClientPublishes
    <2>1. ToCustom(After(ToDefault(wrIdx))) \in Indexes
        BY <1>c, <1>d, AfterIndex
    <2> QED BY <1>7, <2>1, <1>a, <1>b DEF ClientPublishes, TypeOK, writer, reader
<1>8. CASE ResetTx
    BY <1>8, <1>a, <1>b DEF ResetTx, TypeOK, writer, reader
<1>9. CASE LockReset
    BY <1>9, <1>a, <1>b, <1>c DEF LockReset, TypeOK, queue, header, reader
<1>10. CASE ResetRx
    BY <1>10, <1>a, <1>b, <1>c DEF ResetRx, TypeOK, reader
<1>11. CASE UNCHANGED vars
    BY <1>11, <1>a, <1>b DEF vars, TypeOK, header, reader, writer
<1> QED
    BY <1>1, <1>2, <1>3, <1>4, <1>5, <1>6, <1>7, <1>8, <1>9, <1>10, <1>11
       DEF Next, Update, ReaderStep

----------------------------------------------------------------------------
(* The places of the read index, of the write index and of the driver's    *)
(* own write index.                                                        *)
Rd == SlotOf(ToDefault(rdIdx))
Wr == SlotOf(ToDefault(wrIdx))
Wp == SlotOf(ToDefault(WrPtr))

(* The reader's copy is the payload at the read index. *)
ReaderPart ==
    /\ rpc \in {"copy", "advance"} => rR = Rd * Dwords /\ Dist(Rd, Wr) > 0
    /\ rpc = "advance" => rVal = slots[Rd]

(* A writer past the look at the indexes has the queue for itself, with    *)
(* room for its payload; a reset has stopped the reader.                   *)
WriterPart ==
    \A p \in Writers :
        /\ wpc[p] \in {"payload", "publish", "unlock", "reset"} => MayWrite(p)
        /\ wpc[p] \in {"payload", "publish"} => wW[p] = Wp * Dwords /\ Dist(Rd, Wp) < Slots - 1
        /\ wpc[p] \in {"index", "payload", "publish"} => wVal[p] \in Payload
        /\ wpc[p] = "publish" => slots[Wp] = wVal[p]
        /\ wpc[p] = "reset" => p = Client /\ rpc = "idle" /\ ~conf.tx

(* What is published is part of what is written, and that is payloads. *)
StoredPart ==
    /\ Dist(Rd, Wr) <= Dist(Rd, Wp)
    /\ \A n \in 0..(Slots - 1) : n < Dist(Rd, Wp) => slots[Nth(Rd, n)] \in Payload

QueueInv == TypeOK /\ LockPart /\ ReaderPart /\ WriterPart /\ StoredPart

(* The places and the indexes say the same. *)
LEMMA HeaderPlaces ==
    ASSUME TypeOK
    PROVE  /\ Rd \in Places /\ Wr \in Places /\ Wp \in Places
           /\ ToDefault(rdIdx) = Rd * Dwords /\ ToDefault(wrIdx) = Wr * Dwords
           /\ ToDefault(WrPtr) = Wp * Dwords
           /\ rdIdx = ToCustom(Rd * Dwords) /\ wrIdx = ToCustom(Wr * Dwords)
           /\ WrPtr = ToCustom(Wp * Dwords)
           /\ ~conf.skip => Wp = Wr
           /\ Rd \in 0..(Slots - 1) /\ Wr \in 0..(Slots - 1) /\ Wp \in 0..(Slots - 1)
<1>1. conf \in Configs /\ rdIdx \in Indexes /\ wrIdx \in Indexes /\ WrPtr \in Indexes
    BY DEF TypeOK, WrPtr
<1>2. ~conf.skip => Wp = Wr
    BY DEF Wp, Wr, WrPtr
<1> QED BY <1>1, <1>2, IndexPlace DEF Rd, Wr, Wp, Places

(* How a step moves them. *)
LEMMA MovePlaces ==
    ASSUME TypeOK, conf' = conf
    PROVE  /\ rdIdx' = rdIdx => Rd' = Rd
           /\ wrIdx' = wrIdx => Wr' = Wr
           /\ wrIdx' = wrIdx /\ txWm' = txWm => Wp' = Wp
           /\ \A k \in Places : rdIdx' = ToCustom(k * Dwords) => Rd' = k
           /\ \A k \in Places : wrIdx' = ToCustom(k * Dwords) => Wr' = k
           /\ \A k \in Places :
                 (IF conf.skip THEN txWm' ELSE wrIdx') = ToCustom(k * Dwords) => Wp' = k
<1>1. conf \in Configs
    BY DEF TypeOK
<1>2. /\ Rd' = SlotOf(ToDefault(rdIdx'))
      /\ Wr' = SlotOf(ToDefault(wrIdx'))
      /\ Wp' = SlotOf(ToDefault(IF conf.skip THEN txWm' ELSE wrIdx'))
    BY DEF Rd, Wr, Wp, WrPtr, ToDefault, Translated, SlotOf
<1>3. \A k \in Places : SlotOf(ToDefault(ToCustom(k * Dwords))) = k
    BY <1>1, PlaceIndex
<1> QED BY <1>2, <1>3 DEF Rd, Wr, Wp, WrPtr

(* Nobody else is writing or resetting while a writer is. *)
LEMMA WriterAlone ==
    ASSUME TypeOK, LockPart, WriterPart, NEW p \in Writers, NEW q \in Writers,
           wpc[p] \in {"payload", "publish", "reset"}, wpc[q] \in {"payload", "publish", "reset"}
    PROVE  p = q
<1>1. MayWrite(p) /\ MayWrite(q)
    BY DEF WriterPart
<1>2. CASE conf.tx
    BY <1>2, ConfigsAssumption DEF TypeOK, Writers
<1>3. CASE ~conf.tx
    <2>1. p \in Drivers \cup {Svm} /\ q \in Drivers \cup {Svm}
        BY ConfigsAssumption DEF TypeOK, Writers
    <2>2. lpc[p] = "in" /\ lpc[q] = "in"
        BY <1>1, <1>3 DEF MayWrite
    <2> QED BY <2>1, <2>2 DEF LockPart, LockInv, WordOwned
<1> QED BY <1>2, <1>3

(* A step that leaves the header and the ring alone. *)
LEMMA StillRing ==
    ASSUME QueueInv, conf' = conf, UNCHANGED <<header, slots>>
    PROVE  /\ Rd' = Rd /\ Wr' = Wr /\ Wp' = Wp /\ slots' = slots
           /\ StoredPart'
           /\ UNCHANGED reader => ReaderPart'
<1>1. Rd' = Rd /\ Wr' = Wr /\ Wp' = Wp /\ slots' = slots
    BY MovePlaces DEF QueueInv, header
<1> QED BY <1>1 DEF QueueInv, ReaderPart, StoredPart, reader

(* Every step keeps reader and writers out of each other's places. *)
LEMMA QueueInvStep == QueueInv /\ [Next]_vars => QueueInv'
<1> SUFFICES ASSUME QueueInv, [Next]_vars PROVE QueueInv'
    OBVIOUS
<1>a. TypeOK' /\ LockPart'
    BY QueueTypeStep, LockPartStep DEF QueueInv
<1>b. conf' = conf /\ Writers' = Writers
    BY ConfFixed, ConfFrame
<1>c. /\ Client \in Writers /\ Writers \subseteq Drivers \cup {Svm} /\ conf \in Configs
      /\ ~conf.tx => ~conf.skip
      /\ conf.tx => Writers = {Client}
    BY ConfigsAssumption DEF QueueInv, TypeOK, Writers
<1>d. /\ Rd \in Places /\ Wr \in Places /\ Wp \in Places
      /\ Rd \in 0..(Slots - 1) /\ Wr \in 0..(Slots - 1) /\ Wp \in 0..(Slots - 1)
      /\ ToDefault(rdIdx) = Rd * Dwords /\ ToDefault(wrIdx) = Wr * Dwords
      /\ ToDefault(WrPtr) = Wp * Dwords
      /\ rdIdx = ToCustom(Rd * Dwords) /\ wrIdx = ToCustom(Wr * Dwords)
      /\ WrPtr = ToCustom(Wp * Dwords)
      /\ ~conf.skip => Wp = Wr
    BY HeaderPlaces DEF QueueInv
<1>e. /\ TypeOK /\ LockPart /\ ReaderPart /\ WriterPart /\ StoredPart
      /\ wpc \in [Writers -> {"idle", "index", "payload", "publish", "unlock", "ring", "reset"}]
      /\ wW \in [Writers -> Offsets] /\ wVal \in [Writers -> Stored]
      /\ slots \in [0..(Slots - 1) -> Stored]
      /\ lpc \in [Drivers \cup {Svm} -> {"out", "wfi", "in", "check"}]
    BY DEF QueueInv, TypeOK, LockTypeOK
<1>f. /\ Dist(Rd, Wr) \in 0..(Slots - 1) /\ Dist(Rd, Wp) \in 0..(Slots - 1)
      /\ Dist(Rd, Wr) = 0 <=> Rd = Wr
      /\ Dist(Rd, Wp) = 0 <=> Rd = Wp
    BY <1>d, RingDistance
<1>1. ASSUME NEW p \in Writers, NEW v \in Payload, LockClient(p, v) PROVE QueueInv'
    <2>1. /\ UNCHANGED <<header, slots>> /\ UNCHANGED reader
          /\ Rd' = Rd /\ Wr' = Wr /\ Wp' = Wp /\ slots' = slots /\ ReaderPart' /\ StoredPart'
        BY <1>1, <1>b, StillRing DEF LockClient, queue
    <2>2. \A q \in Writers : lpc[q] = "in" => lpc'[q] = "in"
        BY <1>1, <1>c, <1>e DEF LockClient, Lock, SvmLock, lockVars
    <2>3. WriterPart'
        BY <1>1, <1>b, <1>e, <2>1, <2>2 DEF LockClient, WriterPart, MayWrite, reader
    <2> QED BY <1>a, <2>1, <2>3 DEF QueueInv
<1>2. ASSUME NEW p \in Writers, WakeWriter(p) \/ LookBack(p) PROVE QueueInv'
    <2>1. /\ UNCHANGED <<header, slots>> /\ UNCHANGED reader
          /\ Rd' = Rd /\ Wr' = Wr /\ Wp' = Wp /\ slots' = slots /\ ReaderPart' /\ StoredPart'
        BY <1>2, <1>b, StillRing DEF WakeWriter, LookBack, queue
    <2>2. \A q \in Writers : lpc[q] = "in" => lpc'[q] = "in"
        BY <1>2, <1>c, <1>e DEF WakeWriter, SvmWake, LookBack, CheckWake
    <2>3. WriterPart'
        BY <1>2, <1>b, <1>e, <2>1, <2>2
           DEF WakeWriter, LookBack, WriterPart, MayWrite, reader, writer
    <2> QED BY <1>a, <2>1, <2>3 DEF QueueInv
<1>3. ASSUME NEW p \in Writers, ReadIndexes(p) PROVE QueueInv'
    <2>1. /\ UNCHANGED <<header, slots>> /\ UNCHANGED reader
          /\ Rd' = Rd /\ Wr' = Wr /\ Wp' = Wp /\ slots' = slots /\ ReaderPart' /\ StoredPart'
        BY <1>3, <1>b, StillRing DEF ReadIndexes, queue
    <2>2. Fits(ToDefault(rdIdx), ToDefault(WrPtr)) => Dist(Rd, Wp) < Slots - 1
        BY <1>d, FitsPlaces
    <2>3. WriterPart'
        BY <1>3, <1>b, <1>d, <1>e, <2>1, <2>2
           DEF ReadIndexes, WriterPart, MayWrite, reader, lockVars
    <2> QED BY <1>a, <2>1, <2>3 DEF QueueInv
<1>4. ASSUME NEW p \in Writers, WritePayload(p) PROVE QueueInv'
    <2>1. /\ Rd' = Rd /\ Wr' = Wr /\ Wp' = Wp
          /\ UNCHANGED reader /\ UNCHANGED lockVars
        BY <1>4, <1>b, <1>e, MovePlaces DEF WritePayload, header
    <2>2. slots' = [slots EXCEPT ![Wp] = wVal[p]]
        BY <1>4, <1>d, <1>e, PlaceOf DEF WritePayload, WriterPart
    <2>3. wVal[p] \in Payload /\ Dist(Rd, Wp) < Slots - 1
        BY <1>4, <1>e DEF WritePayload, WriterPart
    <2>4. ReaderPart'
        <3>1. rpc = "advance" => Rd # Wp
            BY <1>e, <1>f DEF ReaderPart, StoredPart
        <3> QED BY <1>d, <1>e, <2>1, <2>2, <3>1 DEF ReaderPart, reader
    <2>5. StoredPart'
        <3>1. ASSUME NEW n \in 0..(Slots - 1), n < Dist(Rd, Wp)
              PROVE  slots'[Nth(Rd, n)] = slots[Nth(Rd, n)]
            BY <1>d, <1>e, <1>f, <2>2, <3>1, NthFacts, NthPlace DEF Places
        <3> QED BY <1>e, <2>1, <3>1 DEF StoredPart
    <2>6. WriterPart'
        <3>1. \A q \in Writers : wpc[q] \in {"payload", "publish"} => q = p
            BY <1>4, <1>e, WriterAlone DEF WritePayload
        <3> QED BY <1>4, <1>b, <1>d, <1>e, <2>1, <2>2, <2>3, <3>1
                   DEF WritePayload, WriterPart, MayWrite, reader, lockVars
    <2> QED BY <1>a, <2>4, <2>5, <2>6 DEF QueueInv
<1>5. ASSUME NEW p \in Writers, PublishIndex(p) PROVE QueueInv'
    <2>1. /\ wW[p] = Wp * Dwords /\ Dist(Rd, Wp) < Slots - 1
          /\ slots[Wp] = wVal[p] /\ wVal[p] \in Payload
        BY <1>5, <1>e DEF PublishIndex, WriterPart
    <2>2. /\ NextPlace(Wp) \in Places
          /\ After(Wp * Dwords) = NextPlace(Wp) * Dwords
        BY <1>d, PlaceOf
    <2>3. SetWrPtr(ToCustom(NextPlace(Wp) * Dwords))
        BY <1>5, <2>1, <2>2 DEF PublishIndex
    <2>4. /\ Rd' = Rd /\ Wp' = NextPlace(Wp)
          /\ Wr' = IF conf.skip THEN Wr ELSE NextPlace(Wp)
        BY <1>5, <1>b, <1>e, <2>2, <2>3, MovePlaces DEF PublishIndex, SetWrPtr
    <2>5. Dist(Rd, NextPlace(Wp)) = Dist(Rd, Wp) + 1
        BY <1>d, <2>1, RingDistance
    <2>6. UNCHANGED reader /\ UNCHANGED slots
        BY <1>5 DEF PublishIndex
    <2>7. ReaderPart'
        BY <1>d, <1>e, <1>f, <2>4, <2>5, <2>6 DEF ReaderPart, reader
    <2>8. StoredPart'
        <3>1. Nth(Rd, Dist(Rd, Wp)) = Wp
            BY <1>d, <1>f, NthFacts
        <3>2. \A n \in 0..(Slots - 1) : n < Dist(Rd, Wp) + 1 => slots[Nth(Rd, n)] \in Payload
            BY <1>e, <1>f, <2>1, <3>1 DEF StoredPart
        <3>3. Dist(Rd, Wr)' <= Dist(Rd, Wp)'
            BY <1>e, <1>f, <2>4, <2>5 DEF StoredPart
        <3> QED BY <2>4, <2>5, <2>6, <3>2, <3>3 DEF StoredPart
    <2>9. WriterPart'
        <3>1. \A q \in Writers : wpc[q] \in {"payload", "publish"} => q = p
            BY <1>5, <1>e, WriterAlone DEF PublishIndex
        <3> QED BY <1>5, <1>b, <1>e, <2>6, <3>1
                   DEF PublishIndex, WriterPart, MayWrite, reader, lockVars
    <2> QED BY <1>a, <2>7, <2>8, <2>9 DEF QueueInv
<1>6. ASSUME NEW p \in Writers, UnlockClient(p) PROVE QueueInv'
    <2>1. /\ UNCHANGED <<header, slots>> /\ UNCHANGED reader
          /\ Rd' = Rd /\ Wr' = Wr /\ Wp' = Wp /\ slots' = slots /\ ReaderPart' /\ StoredPart'
        BY <1>6, <1>b, StillRing DEF UnlockClient, queue
    <2>2. \A q \in Writers : q # p /\ lpc[q] = "in" => lpc'[q] = "in"
        BY <1>6, <1>c, <1>e DEF UnlockClient, Unlock, SvmUnlock, lockVars
    <2>3. WriterPart'
        BY <1>6, <1>b, <1>e, <2>1, <2>2 DEF UnlockClient, WriterPart, MayWrite, reader
    <2> QED BY <1>a, <2>1, <2>3 DEF QueueInv
<1>7. ASSUME NEW p \in Writers, Ring(p) PROVE QueueInv'
    <2>1. /\ UNCHANGED <<header, slots>> /\ UNCHANGED reader
          /\ Rd' = Rd /\ Wr' = Wr /\ Wp' = Wp /\ slots' = slots /\ ReaderPart' /\ StoredPart'
        BY <1>7, <1>b, StillRing DEF Ring
    <2>2. WriterPart'
        BY <1>7, <1>b, <1>e, <2>1 DEF Ring, WriterPart, MayWrite, reader, lockVars
    <2> QED BY <1>a, <2>1, <2>2 DEF QueueInv
<1>8. CASE Doorbell
    <2>1. UNCHANGED <<header, slots>>
        BY <1>8 DEF Doorbell
    <2>2. Rd' = Rd /\ Wr' = Wr /\ Wp' = Wp /\ slots' = slots /\ StoredPart'
        BY <1>b, <2>1, StillRing
    <2>3. ReaderPart'
        BY <1>8 DEF Doorbell, ReaderPart
    <2>4. WriterPart'
        BY <1>8, <1>b, <1>c, <1>e, <2>2
           DEF Doorbell, ReaderRuns, WriterPart, MayWrite, writer, lockVars
    <2> QED BY <1>a, <2>2, <2>3, <2>4 DEF QueueInv
<1>9. CASE ReadQueue
    <2>1. UNCHANGED <<header, slots>>
        BY <1>9 DEF ReadQueue
    <2>2. Rd' = Rd /\ Wr' = Wr /\ Wp' = Wp /\ slots' = slots /\ StoredPart'
        BY <1>b, <2>1, StillRing
    <2>3. ReaderPart'
        BY <1>9, <1>d, <1>f, <2>2 DEF ReadQueue, ReaderPart
    <2>4. WriterPart'
        BY <1>9, <1>b, <1>e, <2>2 DEF ReadQueue, WriterPart, MayWrite, writer, lockVars
    <2> QED BY <1>a, <2>2, <2>3, <2>4 DEF QueueInv
<1>10. CASE CopyPayload
    <2>1. UNCHANGED <<header, slots>>
        BY <1>10 DEF CopyPayload
    <2>2. Rd' = Rd /\ Wr' = Wr /\ Wp' = Wp /\ slots' = slots /\ StoredPart'
        BY <1>b, <2>1, StillRing
    <2>3. SlotOf(rR) = Rd
        BY <1>10, <1>d, <1>e, PlaceOf DEF CopyPayload, ReaderPart
    <2>4. ReaderPart'
        BY <1>10, <1>e, <2>2, <2>3 DEF CopyPayload, ReaderPart
    <2>5. WriterPart'
        BY <1>10, <1>b, <1>e, <2>2 DEF CopyPayload, WriterPart, MayWrite, writer, lockVars
    <2> QED BY <1>a, <2>2, <2>4, <2>5 DEF QueueInv
<1>11. CASE AdvanceRead
    <2>1. rR = Rd * Dwords /\ Dist(Rd, Wr) > 0
        BY <1>11, <1>e DEF AdvanceRead, ReaderPart
    <2>2. After(rR) = NextPlace(Rd) * Dwords /\ NextPlace(Rd) \in Places
        BY <1>d, <2>1, PlaceOf
    <2>3. Rd' = NextPlace(Rd) /\ Wr' = Wr /\ Wp' = Wp /\ slots' = slots
        BY <1>11, <1>b, <1>e, <2>2, MovePlaces DEF AdvanceRead
    <2>4. /\ Dist(NextPlace(Rd), Wr) = Dist(Rd, Wr) - 1
          /\ Dist(NextPlace(Rd), Wp) = Dist(Rd, Wp) - 1
        BY <1>d, <1>e, <1>f, <2>1, RingDistance DEF StoredPart
    <2>5. ReaderPart'
        BY <1>11 DEF AdvanceRead, ReaderPart
    <2>6. StoredPart'
        <3>1. ASSUME NEW n \in 0..(Slots - 1), n < Dist(Rd, Wp) - 1
              PROVE  slots[Nth(NextPlace(Rd), n)] \in Payload
            <4>1. Nth(NextPlace(Rd), n) = Nth(Rd, n + 1)
                BY <1>d, NthFacts
            <4>2. n + 1 \in 0..(Slots - 1) /\ n + 1 < Dist(Rd, Wp)
                BY <1>f, <3>1
            <4> QED BY <1>e, <4>1, <4>2 DEF StoredPart
        <3>2. Dist(Rd, Wr)' <= Dist(Rd, Wp)'
            BY <1>e, <1>f, <2>3, <2>4 DEF StoredPart
        <3> QED BY <2>3, <2>4, <3>1, <3>2 DEF StoredPart
    <2>7. WriterPart'
        BY <1>11, <1>b, <1>e, <1>f, <2>3, <2>4
           DEF AdvanceRead, WriterPart, MayWrite, writer, lockVars
    <2> QED BY <1>a, <2>5, <2>6, <2>7 DEF QueueInv
<1>12. CASE ClientPublishes
    <2>1. conf.skip /\ conf.tx /\ WrPtr = txWm
        BY <1>12, <1>c DEF ClientPublishes, WrPtr
    <2>2. After(Wr * Dwords) = NextPlace(Wr) * Dwords /\ NextPlace(Wr) \in Places
        BY <1>d, PlaceOf
    <2>3. wrIdx' = ToCustom(NextPlace(Wr) * Dwords)
        BY <1>12, <1>d, <2>2 DEF ClientPublishes
    <2>4. Rd' = Rd /\ Wr' = NextPlace(Wr) /\ slots' = slots
        BY <1>12, <1>b, <1>e, <2>2, <2>3, MovePlaces DEF ClientPublishes
    <2>5. Wp' = Wp
        <3>1. txWm' = ToCustom(Wp * Dwords)
            BY <1>12, <1>d, <2>1 DEF ClientPublishes
        <3> QED BY <1>b, <1>d, <1>e, <2>1, <3>1, MovePlaces
    <2>6. Wr # Wp
        BY <1>12, <1>d, <2>1 DEF ClientPublishes
    <2>7. Dist(Rd, Wr) < Dist(Rd, Wp)
        BY <1>d, <1>e, <1>f, <2>6, NthFacts DEF StoredPart
    <2>8. Dist(Rd, NextPlace(Wr)) = Dist(Rd, Wr) + 1
        BY <1>d, <1>f, <2>7, RingDistance
    <2>9. ReaderPart'
        BY <1>12, <1>e, <1>f, <2>4, <2>8 DEF ClientPublishes, ReaderPart, reader
    <2>10. StoredPart'
        BY <1>e, <1>f, <2>4, <2>5, <2>7, <2>8 DEF StoredPart
    <2>11. WriterPart'
        BY <1>12, <1>b, <1>e, <2>4, <2>5
           DEF ClientPublishes, WriterPart, MayWrite, reader, writer, lockVars
    <2> QED BY <1>a, <2>9, <2>10, <2>11 DEF QueueInv
<1>13. CASE ResetTx
    <2>1. Rd' = Wr /\ Wr' = Wr /\ slots' = slots
        BY <1>13, <1>b, <1>d, <1>e, MovePlaces DEF ResetTx
    <2>2. Wp' = Wr
        BY <1>13, <1>b, <1>d, <1>e, MovePlaces DEF ResetTx
    <2>3. Dist(Wr, Wr) = 0
        BY <1>d, RingDistance
    <2>4. ReaderPart' /\ StoredPart'
        BY <1>13, <2>1, <2>2, <2>3 DEF ResetTx, ReaderPart, StoredPart, reader
    <2>5. WriterPart'
        BY <1>13, <1>b, <1>c, <1>e DEF ResetTx, WriterPart, writer
    <2> QED BY <1>a, <2>4, <2>5 DEF QueueInv
<1>14. CASE LockReset
    <2>1. /\ UNCHANGED <<header, slots>> /\ UNCHANGED reader
          /\ Rd' = Rd /\ Wr' = Wr /\ Wp' = Wp /\ slots' = slots /\ ReaderPart' /\ StoredPart'
        BY <1>14, <1>b, StillRing DEF LockReset, queue
    <2>2. lpc'[Client] = "in" /\ \A q \in Writers : lpc[q] = "in" => lpc'[q] = "in"
        BY <1>14, <1>c, <1>e DEF LockReset, Lock
    <2>3. WriterPart'
        BY <1>14, <1>b, <1>c, <1>e, <2>1, <2>2 DEF LockReset, WriterPart, MayWrite, reader
    <2> QED BY <1>a, <2>1, <2>3 DEF QueueInv
<1>15. CASE ResetRx
    <2>1. ~conf.skip /\ rpc = "idle"
        BY <1>15, <1>c, <1>e DEF ResetRx, WriterPart
    <2>2. Rd' = Rd /\ Wr' = Rd /\ Wp' = Rd /\ slots' = slots
        BY <1>15, <1>b, <1>d, <1>e, <2>1, MovePlaces DEF ResetRx
    <2>3. Dist(Rd, Rd) = 0
        BY <1>d, RingDistance
    <2>4. ReaderPart' /\ StoredPart'
        BY <1>15, <2>1, <2>2, <2>3 DEF ResetRx, ReaderPart, StoredPart, reader
    <2>5. \A q \in Writers : wpc[q] \in {"payload", "publish", "reset"} => q = Client
        BY <1>15, <1>c, <1>e, WriterAlone DEF ResetRx
    <2>6. WriterPart'
        BY <1>15, <1>b, <1>c, <1>e, <2>1, <2>5
           DEF ResetRx, WriterPart, MayWrite, reader, lockVars
    <2> QED BY <1>a, <2>4, <2>6 DEF QueueInv
<1>16. CASE UNCHANGED vars
    <2>1. UNCHANGED <<header, slots>> /\ UNCHANGED reader
        BY <1>16 DEF vars
    <2>2. Rd' = Rd /\ Wr' = Wr /\ Wp' = Wp /\ slots' = slots /\ ReaderPart' /\ StoredPart'
        BY <1>b, <2>1, StillRing
    <2>3. WriterPart'
        BY <1>16, <1>b, <1>e, <2>2 DEF vars, WriterPart, MayWrite, reader, writer, lockVars
    <2> QED BY <1>a, <2>2, <2>3 DEF QueueInv
<1> QED
    BY <1>1, <1>2, <1>3, <1>4, <1>5, <1>6, <1>7, <1>8, <1>9, <1>10, <1>11, <1>12, <1>13, <1>14,
       <1>15, <1>16
       DEF Next, Update, WriterStep, ReaderStep

(* Initially the ring is empty and nobody is at work. *)
LEMMA QueueInvInit == Init => QueueInv
<1> SUFFICES ASSUME Init PROVE QueueInv
    OBVIOUS
<1>1. TypeOK /\ conf \in Configs /\ Client \in Writers
    BY QueueTypeInit, ConfigsAssumption DEF Init, Writers
<1>2. LockPart
    BY LockInvInit DEF Init, LockPart, SvmLeavesAtOnce, LockInit
<1>3. Wr = Rd /\ Wp = Rd /\ Rd \in Places
    BY <1>1, HeaderPlaces DEF Init, Rd, Wr, Wp, WrPtr
<1>4. Dist(Rd, Wr) = 0 /\ Dist(Rd, Wp) = 0
    BY <1>3, RingDistance
<1>5. ReaderPart /\ WriterPart /\ StoredPart
    BY <1>4 DEF Init, ReaderPart, WriterPart, StoredPart
<1> QED BY <1>1, <1>2, <1>5 DEF QueueInv

(* The invariant holds always. *)
LEMMA QueueInvAlways == Spec => []QueueInv
BY QueueInvInit, QueueInvStep, PTL DEF Spec

(* What the module calls used and contents, in places. *)
LEMMA UsedPlaces ==
    ASSUME TypeOK
    PROVE  Used = Dist(Rd, Wr) /\ Span(WrPtr) = Dist(Rd, Wp)
BY HeaderPlaces DEF Used, Span, Dist, Rd, Wr, Wp

(* The contents are the payloads at the places from read to write index. *)
LEMMA ContentsPlaces ==
    ASSUME TypeOK
    PROVE  /\ Contents = [i \in 1..Dist(Rd, Wr) |-> slots[Nth(Rd, i - 1)]]
           /\ Contents \in Seq(Stored)
           /\ Len(Contents) = Dist(Rd, Wr)
           /\ \A i \in 1..Dist(Rd, Wr) : Contents[i] = slots[Nth(Rd, i - 1)]
<1>1. Dist(Rd, Wr) \in 0..(Slots - 1) /\ Rd \in Places
    BY HeaderPlaces, RingDistance
<1>2. Contents = [i \in 1..Dist(Rd, Wr) |-> slots[Nth(Rd, i - 1)]]
    <2>1. \A i \in 1..Dist(Rd, Wr) : (Rd + i - 1) % Slots = Nth(Rd, i - 1)
        BY <1>1 DEF Nth, Places
    <2> QED BY <2>1, UsedPlaces DEF Contents, Rd
<1>3. \A i \in 1..Dist(Rd, Wr) : slots[Nth(Rd, i - 1)] \in Stored
    <2> SUFFICES ASSUME NEW i \in 1..Dist(Rd, Wr) PROVE slots[Nth(Rd, i - 1)] \in Stored
        OBVIOUS
    <2>1. i - 1 \in 0..Slots
        BY <1>1
    <2>2. Nth(Rd, i - 1) \in Places
        BY <1>1, <2>1, NthPlace
    <2> QED BY <2>2 DEF TypeOK, Places
<1>4. Contents \in [1..Dist(Rd, Wr) -> Stored]
    BY <1>2, <1>3
<1>5. Contents \in Seq(Stored) /\ Len(Contents) = Dist(Rd, Wr)
    BY <1>1, <1>4
<1> QED BY <1>2, <1>5

(* The reader's copy and the writers' places are not in use by the other   *)
(* side, in a ring of any size, for any kind of queue and any number of    *)
(* writers (ReaderHoldsHead).                                              *)
THEOREM ReaderAndWritersApart == Spec => []ReaderHoldsHead
<1>1. QueueInv => ReaderHoldsHead
    <2> SUFFICES ASSUME QueueInv PROVE ReaderHoldsHead
        OBVIOUS
    <2>0. TypeOK
        BY DEF QueueInv
    <2>1. /\ Rd \in Places /\ ToDefault(rdIdx) = Rd * Dwords /\ ToDefault(WrPtr) = Wp * Dwords
          /\ Used = Dist(Rd, Wr) /\ Span(WrPtr) = Dist(Rd, Wp)
        BY <2>0, HeaderPlaces, UsedPlaces
    <2>2. Dist(Rd, Wr) > 0 => Head(Contents) = slots[Rd]
        <3>1. Dist(Rd, Wr) \in 0..(Slots - 1) /\ Nth(Rd, 0) = Rd
            BY <2>0, HeaderPlaces, RingDistance, NthFacts
        <3>2. Dist(Rd, Wr) > 0 => Contents[1] = slots[Nth(Rd, 1 - 1)]
            BY <2>0, <3>1, ContentsPlaces
        <3> QED BY <2>0, <3>1, <3>2, ContentsPlaces
    <2>3. rpc \in {"copy", "advance"} => rR = ToDefault(rdIdx) /\ Used > 0
        BY <2>1 DEF QueueInv, ReaderPart
    <2>4. rpc = "advance" => rVal = Head(Contents)
        BY <2>2 DEF QueueInv, ReaderPart
    <2>5. \A p \in Writers : wpc[p] \in {"payload", "publish"} =>
              MayWrite(p) /\ wW[p] = ToDefault(WrPtr) /\ Span(WrPtr) < Slots - 1
        BY <2>1 DEF QueueInv, WriterPart
    <2> QED BY <2>3, <2>4, <2>5 DEF ReaderHoldsHead
<1> QED BY <1>1, QueueInvAlways, PTL

(* Indexes stay on payload boundaries inside the ring. *)
THEOREM QueueTypeCorrect == Spec => []TypeOK
<1>1. QueueInv => TypeOK
    BY DEF QueueInv
<1> QED BY <1>1, QueueInvAlways, PTL

----------------------------------------------------------------------------
(* The contents, by the places. *)
ContentsShape ==
    /\ Contents \in Seq(Stored)
    /\ Len(Contents) = Dist(Rd, Wr)
    /\ \A i \in 1..Dist(Rd, Wr) : Contents[i] = slots[Nth(Rd, i - 1)]

(* The contents have that shape in every well-typed state, *)
LEMMA ContentsShaped == TypeOK => ContentsShape
BY ContentsPlaces DEF ContentsShape

(* also in the next one. *)
LEMMA ContentsNext ==
    ASSUME TypeOK'
    PROVE  /\ Contents' \in Seq(Stored)
           /\ Len(Contents') = Dist(Rd', Wr')
           /\ \A i \in 1..Dist(Rd', Wr') : Contents'[i] = slots'[Nth(Rd', i - 1)]
<1>1. TypeOK' => ContentsShape'
    BY ContentsShaped, PTL
<1> QED BY <1>1 DEF ContentsShape, Dist, Nth

(* A step that keeps the published places and what is in them. *)
LEMMA SameContents ==
    ASSUME TypeOK, TypeOK', Rd' = Rd, Wr' = Wr,
           \A n \in 0..(Slots - 1) : n < Dist(Rd, Wr) => slots'[Nth(Rd, n)] = slots[Nth(Rd, n)]
    PROVE  Contents' = Contents
<1>1. Dist(Rd, Wr) \in 0..(Slots - 1)
    BY HeaderPlaces, RingDistance
<1>2. Len(Contents') = Len(Contents) /\ Contents' \in Seq(Stored) /\ Contents \in Seq(Stored)
    BY ContentsPlaces, ContentsNext
<1>3. ASSUME NEW i \in 1..Len(Contents) PROVE Contents'[i] = Contents[i]
    <2>1. i - 1 \in 0..(Slots - 1) /\ i - 1 < Dist(Rd, Wr) /\ i \in 1..Dist(Rd, Wr)
        BY <1>1, ContentsPlaces
    <2> QED BY <2>1, ContentsPlaces, ContentsNext
<1> QED BY <1>2, <1>3, SeqEqual

(* The write index moves on by one place: the payload there is put in. *)
LEMMA OneMore ==
    ASSUME TypeOK, TypeOK', Rd' = Rd, Wr' = NextPlace(Wr), slots' = slots,
           Dist(Rd, Wr) < Slots - 1, slots[Wr] \in Payload
    PROVE  Contents' = Append(Contents, slots[Wr]) /\ Len(Contents) < Slots - 1
<1>1. /\ Dist(Rd, Wr) \in 0..(Slots - 1) /\ Rd \in Places /\ Wr \in Places
      /\ Dist(Rd, NextPlace(Wr)) = Dist(Rd, Wr) + 1
      /\ Nth(Rd, Dist(Rd, Wr)) = Wr
    BY HeaderPlaces, RingDistance, NthFacts
<1> DEFINE t == Append(Contents, slots[Wr])
<1>2. /\ Contents \in Seq(Stored) /\ Len(Contents) = Dist(Rd, Wr) /\ slots[Wr] \in Stored
      /\ Contents' \in Seq(Stored) /\ Len(Contents') = Dist(Rd, Wr) + 1
    BY <1>1, ContentsPlaces, ContentsNext DEF Stored
<1>3. t \in Seq(Stored) /\ Len(t) = Dist(Rd, Wr) + 1
    BY <1>2
<1>4. ASSUME NEW i \in 1..Len(t) PROVE Contents'[i] = t[i]
    <2>1. i \in 1..(Dist(Rd, Wr) + 1)
        BY <1>3
    <2>2. Contents'[i] = slots[Nth(Rd, i - 1)]
        BY <1>1, <2>1, ContentsNext
    <2>3. CASE i = Dist(Rd, Wr) + 1
        BY <1>1, <1>2, <2>2, <2>3
    <2>4. CASE i \in 1..Dist(Rd, Wr)
        BY <1>2, <2>2, <2>4, ContentsPlaces
    <2> QED BY <1>1, <2>1, <2>3, <2>4
<1>5. Contents' = t
    <2> HIDE DEF t
    <2> QED BY <1>2, <1>3, <1>4, SeqEqual
<1> QED BY <1>2, <1>5

(* The read index moves on by one place: the head is taken out. *)
LEMMA OneLess ==
    ASSUME TypeOK, TypeOK', Rd' = NextPlace(Rd), Wr' = Wr, slots' = slots, Dist(Rd, Wr) > 0
    PROVE  Contents # << >> /\ Contents' = Tail(Contents) /\ Head(Contents) = slots[Rd]
<1>1. /\ Dist(Rd, Wr) \in 0..(Slots - 1) /\ Rd \in Places /\ Wr \in Places
      /\ Dist(NextPlace(Rd), Wr) = Dist(Rd, Wr) - 1
      /\ Nth(Rd, 0) = Rd
    BY HeaderPlaces, RingDistance, NthFacts
<1>2. /\ Contents \in Seq(Stored) /\ Len(Contents) = Dist(Rd, Wr)
      /\ Contents' \in Seq(Stored) /\ Len(Contents') = Dist(Rd, Wr) - 1
    BY <1>1, ContentsPlaces, ContentsNext
<1>3. Contents # << >>
    BY <1>2
<1>4. Head(Contents) = slots[Rd]
    <2>1. Contents[1] = slots[Nth(Rd, 1 - 1)]
        BY <1>1, ContentsPlaces
    <2> QED BY <1>1, <1>2, <2>1
<1>5. /\ Tail(Contents) \in Seq(Stored) /\ Len(Tail(Contents)) = Dist(Rd, Wr) - 1
      /\ \A i \in 1..Len(Tail(Contents)) : Tail(Contents)[i] = Contents[i + 1]
    BY <1>2, <1>3, HeadTailProperties
<1>6. ASSUME NEW i \in 1..Len(Contents') PROVE Contents'[i] = Tail(Contents)[i]
    <2>1. i \in 1..(Dist(Rd, Wr) - 1) /\ i + 1 \in 1..Dist(Rd, Wr) /\ i - 1 \in 0..(Slots - 1)
        BY <1>1, <1>2
    <2>2. Contents'[i] = slots[Nth(NextPlace(Rd), i - 1)]
        BY <1>1, <2>1, ContentsNext
    <2>3. Nth(NextPlace(Rd), i - 1) = Nth(Rd, (i - 1) + 1)
        BY <1>1, <2>1, NthFacts
    <2>4. Contents[i + 1] = slots[Nth(Rd, (i + 1) - 1)]
        BY <2>1, ContentsPlaces
    <2>5. (i - 1) + 1 = (i + 1) - 1
        BY <2>1
    <2> QED BY <1>5, <2>1, <2>2, <2>3, <2>4, <2>5
<1> QED BY <1>2, <1>3, <1>4, <1>5, <1>6, SeqEqual

(* Both indexes meet: nothing is left. *)
LEMMA NoneLeft ==
    ASSUME TypeOK', Rd' = Wr', Wr' \in Places
    PROVE  Contents' = << >>
<1>1. Dist(Rd', Wr') = 0
    BY RingDistance
<1> QED BY <1>1, ContentsNext

(* Every step of the ring is a step of the abstract queue or changes       *)
(* nothing of it: the write index puts in, the read index takes out, a     *)
(* reset clears.                                                           *)
LEMMA FifoStep ==
    QueueInv /\ QueueInv' /\ [Next]_vars => [Fifo!Next]_<<Contents, out, cleared>>
<1> SUFFICES ASSUME QueueInv, QueueInv', [Next]_vars
             PROVE  [Fifo!Next]_<<Contents, out, cleared>>
    OBVIOUS
<1>a. /\ TypeOK /\ TypeOK' /\ ReaderPart /\ WriterPart /\ StoredPart
      /\ conf' = conf
    BY ConfFixed DEF QueueInv
<1>b. /\ Rd \in Places /\ Wr \in Places /\ Wp \in Places
      /\ Rd \in 0..(Slots - 1) /\ Wr \in 0..(Slots - 1) /\ Wp \in 0..(Slots - 1)
      /\ rdIdx = ToCustom(Rd * Dwords) /\ wrIdx = ToCustom(Wr * Dwords)
      /\ ToDefault(wrIdx) = Wr * Dwords
      /\ WrPtr = ToCustom(Wp * Dwords)
      /\ ~conf.skip => Wp = Wr
      /\ Dist(Rd, Wr) \in 0..(Slots - 1) /\ Dist(Rd, Wp) \in 0..(Slots - 1)
    BY <1>a, HeaderPlaces, RingDistance
<1>c. ASSUME UNCHANGED <<header, slots, out, cleared>>
      PROVE  UNCHANGED <<Contents, out, cleared>>
    <2>1. Rd' = Rd /\ Wr' = Wr /\ slots' = slots
        BY <1>a, <1>c, MovePlaces DEF header
    <2> QED BY <1>a, <1>c, <2>1, SameContents
<1>1. ASSUME NEW p \in Writers, Update(p) PROVE UNCHANGED <<Contents, out, cleared>>
    BY <1>1, <1>c DEF Update, LockClient, queue
<1>2. ASSUME NEW p \in Writers,
             WakeWriter(p) \/ ReadIndexes(p) \/ UnlockClient(p) \/ LookBack(p) \/ Ring(p)
      PROVE  UNCHANGED <<Contents, out, cleared>>
    BY <1>2, <1>c DEF WakeWriter, ReadIndexes, UnlockClient, LookBack, Ring, queue
<1>3. ASSUME NEW p \in Writers, WritePayload(p) PROVE UNCHANGED <<Contents, out, cleared>>
    <2>1. Rd' = Rd /\ Wr' = Wr /\ UNCHANGED <<out, cleared>>
        BY <1>3, <1>a, MovePlaces DEF WritePayload, header
    <2>2. slots' = [slots EXCEPT ![Wp] = wVal[p]]
        BY <1>3, <1>a, <1>b, PlaceOf DEF WritePayload, WriterPart
    <2>3. ASSUME NEW n \in 0..(Slots - 1), n < Dist(Rd, Wr)
          PROVE  slots'[Nth(Rd, n)] = slots[Nth(Rd, n)]
        <3>1. Nth(Rd, n) \in Places /\ Nth(Rd, n) # Wp
            BY <1>a, <1>b, <2>3, NthFacts, NthPlace DEF StoredPart
        <3> QED BY <1>a, <2>2, <3>1 DEF TypeOK, Places
    <2> QED BY <1>a, <2>1, <2>3, SameContents
<1>4. ASSUME NEW p \in Writers, PublishIndex(p)
      PROVE  [Fifo!Next]_<<Contents, out, cleared>>
    <2>1. /\ wW[p] = Wp * Dwords /\ Dist(Rd, Wp) < Slots - 1
          /\ slots[Wp] = wVal[p] /\ wVal[p] \in Payload
        BY <1>4, <1>a DEF PublishIndex, WriterPart
    <2>2. NextPlace(Wp) \in Places /\ After(Wp * Dwords) = NextPlace(Wp) * Dwords
        BY <1>b, PlaceOf
    <2>3. Rd' = Rd /\ slots' = slots /\ UNCHANGED <<out, cleared>>
        BY <1>4, <1>a, MovePlaces DEF PublishIndex
    <2>4. CASE conf.skip
        <3>1. Wr' = Wr
            BY <1>4, <1>a, <2>4, MovePlaces DEF PublishIndex, SetWrPtr
        <3> QED BY <1>a, <2>3, <3>1, SameContents
    <2>5. CASE ~conf.skip
        <3>1. Wr' = NextPlace(Wr)
            BY <1>4, <1>a, <1>b, <2>1, <2>2, <2>5, MovePlaces DEF PublishIndex, SetWrPtr
        <3>2. Contents' = Append(Contents, slots[Wr]) /\ Len(Contents) < Slots - 1
            BY <1>a, <1>b, <2>1, <2>3, <2>5, <3>1, OneMore
        <3>3. Fifo!Put(wVal[p])
            BY <1>b, <2>1, <2>3, <2>5, <3>2 DEF Fifo!Put
        <3> QED BY <2>1, <3>3 DEF Fifo!Next
    <2> QED BY <2>4, <2>5
<1>5. CASE Doorbell \/ ReadQueue \/ CopyPayload
    BY <1>5, <1>c DEF Doorbell, ReadQueue, CopyPayload
<1>6. CASE AdvanceRead
    <2>1. rR = Rd * Dwords /\ Dist(Rd, Wr) > 0 /\ rVal = slots[Rd]
        BY <1>6, <1>a DEF AdvanceRead, ReaderPart
    <2>2. NextPlace(Rd) \in Places /\ After(Rd * Dwords) = NextPlace(Rd) * Dwords
        BY <1>b, PlaceOf
    <2>3. Rd' = NextPlace(Rd) /\ Wr' = Wr /\ slots' = slots /\ out' = slots[Rd] /\ UNCHANGED cleared
        BY <1>6, <1>a, <2>1, <2>2, MovePlaces DEF AdvanceRead
    <2>4. Contents # << >> /\ Contents' = Tail(Contents) /\ Head(Contents) = slots[Rd]
        BY <1>a, <2>1, <2>3, OneLess
    <2>5. Fifo!Get
        BY <2>3, <2>4 DEF Fifo!Get
    <2> QED BY <2>5 DEF Fifo!Next
<1>7. CASE ClientPublishes
    <2>1. conf.skip /\ WrPtr = txWm /\ wrIdx # txWm
        BY <1>7 DEF ClientPublishes, WrPtr
    <2>2. NextPlace(Wr) \in Places /\ After(Wr * Dwords) = NextPlace(Wr) * Dwords
        BY <1>b, PlaceOf
    <2>3. /\ Rd' = Rd /\ Wr' = NextPlace(Wr) /\ slots' = slots
          /\ UNCHANGED <<out, cleared>>
        BY <1>7, <1>a, <1>b, <2>2, MovePlaces DEF ClientPublishes
    <2>4. Dist(Rd, Wr) < Dist(Rd, Wp)
        BY <1>a, <1>b, <2>1, NthFacts DEF StoredPart
    <2>5. slots[Wr] \in Payload /\ Dist(Rd, Wr) < Slots - 1
        <3>1. Nth(Rd, Dist(Rd, Wr)) = Wr
            BY <1>b, NthFacts
        <3> QED BY <1>a, <1>b, <2>4, <3>1 DEF StoredPart
    <2>6. Contents' = Append(Contents, slots[Wr]) /\ Len(Contents) < Slots - 1
        BY <1>a, <2>3, <2>5, OneMore
    <2>7. Fifo!Put(slots[Wr])
        BY <2>3, <2>6 DEF Fifo!Put
    <2> QED BY <2>5, <2>7 DEF Fifo!Next
<1>8. CASE ResetTx
    <2>1. Rd' = Wr' /\ Wr' \in Places
        BY <1>8, <1>a, <1>b, MovePlaces DEF ResetTx
    <2>2. Contents' = << >>
        BY <1>a, <2>1, NoneLeft
    <2>3. Fifo!Clear
        BY <1>8, <2>2 DEF ResetTx, Fifo!Clear
    <2> QED BY <2>3 DEF Fifo!Next
<1>9. CASE LockReset
    BY <1>9, <1>c DEF LockReset, queue
<1>10. CASE ResetRx
    <2>1. Rd' = Wr' /\ Wr' \in Places
        BY <1>10, <1>a, <1>b, MovePlaces DEF ResetRx
    <2>2. Contents' = << >>
        BY <1>a, <2>1, NoneLeft
    <2>3. Fifo!Clear
        BY <1>10, <2>2 DEF ResetRx, Fifo!Clear
    <2> QED BY <2>3 DEF Fifo!Next
<1>11. CASE UNCHANGED vars
    BY <1>11, <1>c DEF vars
<1> QED
    BY <1>1, <1>2, <1>3, <1>4, <1>5, <1>6, <1>7, <1>8, <1>9, <1>10, <1>11
       DEF Next, WriterStep, ReaderStep

(* The ring of hw_fence_update_queue and hw_fence_read_queue_helper is a   *)
(* bounded first-in first-out queue of one payload less than it has room   *)
(* for (FifoSpec): of any size, of every kind, with any number of writers  *)
(* that lock it and a reader that does not.                                *)
THEOREM RingImplementsFifo == Spec => FifoSpec
<1>1. Init => Fifo!Init
    <2> SUFFICES ASSUME Init PROVE Fifo!Init
        OBVIOUS
    <2>1. QueueInv
        BY QueueInvInit
    <2>2. TypeOK /\ Wr = Rd /\ Rd \in Places
        BY <2>1, HeaderPlaces DEF Init, QueueInv, Rd, Wr
    <2>3. Dist(Rd, Wr) = 0
        BY <2>2, RingDistance
    <2>4. Contents = << >>
        BY <2>2, <2>3, ContentsPlaces
    <2> QED BY <2>4 DEF Init, Fifo!Init
<1> QED BY <1>1, QueueInvAlways, FifoStep, PTL DEF Spec, FifoSpec, Fifo!Spec

(* The lock of the queue keeps drivers and the Fence CTL apart inside the  *)
(* queue's operations as well (LockExclusion).                             *)
THEOREM QueueLockExcludes == Spec => []LockExclusion
<1>1. QueueInv => LockExclusion
    BY DEF QueueInv, LockPart, LockInv, WordOwned, LockExclusion, LockTypeOK
<1> QED BY <1>1, QueueInvAlways, PTL
===========================================================================
