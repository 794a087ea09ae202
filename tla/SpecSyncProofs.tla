--------------------------- MODULE SpecSyncProofs ---------------------------
(***************************************************************************)
(* The speculative sync driver balances every reference and signals an     *)
(* array when it should, for any number of threads, waiters, arrays and    *)
(* fences, every mix of shapes and every list of fds user space binds.     *)
(*                                                                         *)
(* What an array must satisfy by itself (Sound) is shown for each change a *)
(* step makes to a record; what ties arrays to the calls in progress is    *)
(* shown per action.  SpecInv is the inductive invariant; it needs that    *)
(* one thread at a time binds an array (OneBinder).  That the dummy is not *)
(* leaked has an invariant of its own, LeakInv, and needs no such thing.   *)
(***************************************************************************)
EXTENDS SpecSync, FiniteSetTheorems, SequenceTheorems, WellFoundedInduction, TLAPS

Labels == {"idle", "track", "sanitize", "children", "replace", "enable", "error",
           "signal", "clear", "bound", "put"}

(* The records that arrays can be. *)
Records ==
    [st : {"new", "live", "freed"}, any : BOOLEAN, kids : Seq(Fences \cup {Dummy}),
     pending : Int, refs : Int, fd : BOOLEAN, sig : BOOLEAN, en : BOOLEAN, bound : BOOLEAN,
     err : BOOLEAN, cbs : SUBSET (1..MaxFences), irq : BOOLEAN, forced : BOOLEAN]

(* An array by itself, sg being the fences that are signaled.  It counts   *)
(* callbacks only once its dummies are gone, and until it is forced it has *)
(* no fewer fences pending than it has to wait for.                        *)
NoDummy(r) == \A i \in 1..Len(r.kids) : r.kids[i] # Dummy
OnlyDummies(r) == \A i \in 1..Len(r.kids) : r.kids[i] = Dummy
Undone(r, sg) == {i \in 1..Len(r.kids) : r.kids[i] \notin sg}
OneDone(r, sg) == \E i \in 1..Len(r.kids) : r.kids[i] \in sg
AllDone(r, sg) == \A i \in 1..Len(r.kids) : r.kids[i] \in sg
Asked(r) == InitialPending(Len(r.kids), r.any)
Counts(r, sg) ==
    /\ ~r.en \/ ~NoDummy(r) => r.pending = Asked(r)
    /\ r.any => r.pending = 1 \/ OneDone(r, sg)
    /\ ~r.any => r.pending >= Cardinality(Undone(r, sg))
    /\ r.sig /\ ~r.err => IF r.any THEN OneDone(r, sg) ELSE AllDone(r, sg)
Sound(r, sg) ==
    /\ r.st # "live" => /\ r.kids = << >> /\ r.cbs = {} /\ r.pending = 0
                        /\ r.refs = 0 /\ ~r.irq /\ ~r.fd
    /\ r.st = "live" =>
          /\ Len(r.kids) \in 1..MaxFences
          /\ r.cbs \subseteq 1..Len(r.kids)
          /\ r.cbs # {} => r.en
          /\ NoDummy(r) \/ (r.en /\ r.cbs = {})
          /\ r.irq => r.pending <= 0
          /\ r.pending <= Asked(r)
          /\ ~r.forced => Counts(r, sg)

(* The references to an array that its own record does not explain are    *)
(* those of the tracker, of calls and of waits.                            *)
Outside(r) == r.refs - One(r.fd) - One(r.irq) - Cardinality(r.cbs)
CallersOf(a) == {t \in Threads : pc[t] # "idle" /\ on[t] = a}
WaitersOf(a) == {w \in Waiters : wpc[w] # "idle" /\ won[w] = a}
Inside(a) == One(a \in tracker) + Cardinality(CallersOf(a)) + Cardinality(WaitersOf(a))

(* What ties the arrays f to the calls in progress.  A call knows what it  *)
(* saw of its array; one thread binds an array at a time, and the thread   *)
(* that made it tracks it once.                                            *)
CallOn(t, r) ==
    /\ pc[t] \in {"sanitize", "children", "replace"} => Len(fds[t]) = Len(r.kids)
    /\ pc[t] = "replace" => OnlyDummies(r)
    /\ pc[t] \in {"enable", "bound"} => NoDummy(r)
    /\ pc[t] = "signal" => r.err
    /\ pc[t] = "clear" => NoDummy(r) \/ r.err
    /\ pc[t] \notin {"sanitize", "put"} => ~r.forced
CallOK(t, f) ==
    /\ pc[t] = "idle" <=> on[t] = NoArray
    /\ pc[t] # "idle" => CallOn(t, f[on[t]])
Binding(t) == pc[t] \notin {"idle", "track"}
ApartPart ==
    \A t, u \in Threads : t # u /\ on[t] = on[u] =>
        ~(Binding(t) /\ Binding(u)) /\ ~(pc[t] = "track" /\ pc[u] = "track")
TrackIn(f) ==
    /\ \A t \in Threads : pc[t] = "track" => on[t] \notin tracker
    /\ \A a \in tracker : ~f[a].forced
WaitPart == \A w \in Waiters : wpc[w] = "idle" <=> won[w] = NoArray
BoundIn(f) ==
    \A a \in Arrays : f[a].st = "live" /\ f[a].bound =>
        NoDummy(f[a]) \/ f[a].err \/ \E t \in Threads : pc[t] = "error" /\ on[t] = a
LeavesIn(f) ==
    \A a \in Arrays :
        /\ f[a].st = "live" /\ a \notin tracker
        /\ \A t \in Threads : pc[t] = "track" => on[t] # a
        /\ f[a].any \/ Len(f[a].kids) = 1
        => f[a].sig
InvOn(f) ==
    /\ \A a \in Arrays : Sound(f[a], fsig)
    /\ \A a \in Arrays : Outside(f[a]) = Inside(a)
    /\ \A t \in Threads : CallOK(t, f)
    /\ ApartPart /\ TrackIn(f) /\ WaitPart /\ BoundIn(f) /\ LeavesIn(f)

RestOK ==
    /\ avail \in 0..MaxDevices /\ opens \in 0..MaxOpens
    /\ tracker \subseteq Arrays
    /\ fsig \subseteq Fences
    /\ pc \in [Threads -> Labels]
    /\ on \in [Threads -> Arrays \cup {NoArray}]
    /\ fds \in [Threads -> Seq(Fences \cup {BadFd})]
    /\ wpc \in [Waiters -> {"idle", "sleep"}]
    /\ won \in [Waiters -> Arrays \cup {NoArray}]
SpecInv ==
    /\ RestOK /\ arr \in [Arrays -> Records] /\ dummyRef \in Int
    /\ InvOn(arr)
    /\ \A a \in Arrays : Live(a) => arr[a].refs # 0
    /\ DummyRefs
----------------------------------------------------------------------------
(* A non-empty set of naturals has a least element. *)
LEMMA LeastNatural ==
    ASSUME NEW T \in SUBSET Nat, T # {}
    PROVE  \E x \in T : \A y \in T : x <= y
<1>1. PICK x \in T : \A y \in T : ~(<<y, x>> \in OpToRel(<, Nat))
    BY NatLessThanWellFounded, WFMin
<1>2. \A y \in T : ~(y < x)
    BY <1>1 DEF OpToRel
<1> QED BY <1>2

(* The part of 1..n chosen by any set is finite and has at most n members. *)
LEMMA PartOfInterval ==
    ASSUME NEW n \in Nat, NEW S \in SUBSET (1..n)
    PROVE  /\ IsFiniteSet(S) /\ Cardinality(S) \in 0..n
           /\ Cardinality(S) = n => S = 1..n
           /\ Cardinality(S) = 0 <=> S = {}
<1>1. IsFiniteSet(1..n) /\ Cardinality(1..n) = n
    BY FS_Interval
<1>2. IsFiniteSet(S) /\ Cardinality(S) <= n /\ (Cardinality(S) = n => S = 1..n)
    BY <1>1, FS_Subset
<1>3. Cardinality(S) \in Nat
    BY <1>2, FS_CardinalityType
<1>4. Cardinality(S) = 0 <=> S = {}
    BY <1>2, FS_EmptySet
<1> QED BY <1>2, <1>3, <1>4

(* The counts of a record's fences that a bind compares. *)
LEMMA DummyCounts ==
    ASSUME NEW r \in Records
    PROVE  /\ Dummies(r) = 0 <=> NoDummy(r)
           /\ AllDummies(r) <=> OnlyDummies(r)
<1> DEFINE S == {i \in 1..Len(r.kids) : r.kids[i] = Dummy}
<1>1. Len(r.kids) \in Nat
    BY DEF Records
<1>2. S \in SUBSET (1..Len(r.kids)) /\ Dummies(r) = Cardinality(S)
    BY DEF Dummies
<1>3. /\ Cardinality(S) = Len(r.kids) => S = 1..Len(r.kids)
      /\ Cardinality(S) = 0 <=> S = {}
    BY <1>1, <1>2, PartOfInterval
<1>4. Cardinality(1..Len(r.kids)) = Len(r.kids)
    BY <1>1, FS_Interval
<1>5. S = {} <=> NoDummy(r)
    BY DEF NoDummy
<1>6. S = 1..Len(r.kids) <=> OnlyDummies(r)
    BY DEF OnlyDummies
<1> QED BY <1>2, <1>3, <1>4, <1>5, <1>6 DEF AllDummies

(* Who holds an array, as numbers. *)
LEMMA HeldCounts ==
    \A a \in Arrays : /\ IsFiniteSet(CallersOf(a)) /\ Cardinality(CallersOf(a)) \in Nat
                      /\ IsFiniteSet(WaitersOf(a)) /\ Cardinality(WaitersOf(a)) \in Nat
<1> SUFFICES ASSUME NEW a \in Arrays
             PROVE  /\ IsFiniteSet(CallersOf(a)) /\ Cardinality(CallersOf(a)) \in Nat
                    /\ IsFiniteSet(WaitersOf(a)) /\ Cardinality(WaitersOf(a)) \in Nat
    OBVIOUS
<1>1. CallersOf(a) \in SUBSET Threads /\ WaitersOf(a) \in SUBSET Waiters
    BY DEF CallersOf, WaitersOf
<1> QED BY <1>1, FiniteAssumption, FS_Subset, FS_CardinalityType

(* The callbacks of an array are finitely many. *)
LEMMA CbsCount ==
    ASSUME NEW r \in Records
    PROVE  IsFiniteSet(r.cbs) /\ Cardinality(r.cbs) \in Nat
<1>1. r.cbs \in SUBSET (1..MaxFences)
    BY DEF Records
<1> QED BY <1>1, PartOfInterval, BoundsAssumption

----------------------------------------------------------------------------
(* What most changes of an array leave as it was: its fences, and what the *)
(* calls on it rely on.                                                    *)
Calm(r, q) ==
    /\ q.st = r.st /\ q.kids = r.kids /\ q.any = r.any /\ q.bound = r.bound
    /\ r.err => q.err
    /\ q.forced = r.forced
    /\ r.sig => q.sig

(* The records of an array that is not made yet, and of one released. *)
LEMMA BlankTypes == NoFences \in Records /\ Freed \in Records
<1>1. \A k \in Seq(Fences \cup {Dummy}) :
        [st |-> "new", any |-> FALSE, kids |-> k, pending |-> 0, refs |-> 0,
         fd |-> FALSE, sig |-> FALSE, en |-> FALSE, bound |-> FALSE, err |-> FALSE,
         cbs |-> {}, irq |-> FALSE, forced |-> FALSE] \in Records
    BY DEF Records
<1>2. << >> \in Seq(Fences \cup {Dummy})
    BY EmptySeq
<1>3. NoFences \in Records
    <2>1. NoFences = [st |-> "new", any |-> FALSE, kids |-> << >>, pending |-> 0, refs |-> 0,
                      fd |-> FALSE, sig |-> FALSE, en |-> FALSE, bound |-> FALSE, err |-> FALSE,
                      cbs |-> {}, irq |-> FALSE, forced |-> FALSE]
        BY DEF NoFences
    <2> QED BY <1>1, <1>2, <2>1
<1>4. Freed \in Records
    BY <1>3 DEF Freed, Records
<1> QED BY <1>3, <1>4

(* A dropped reference leaves an array a record. *)
LEMMA PutType == \A r \in Records : Put(r) \in Records
BY DEF Put, Records

(* Taking and dropping references. *)
LEMMA RefChanges ==
    ASSUME NEW r \in Records, NEW sg, Sound(r, sg), r.st = "live"
    PROVE  /\ Put(r) \in Records /\ Sound(Put(r), sg) /\ Calm(r, Put(r))
           /\ Outside(Put(r)) = Outside(r) - 1
           /\ Get(r) \in Records /\ Sound(Get(r), sg) /\ Calm(r, Get(r))
           /\ Outside(Get(r)) = Outside(r) + 1
<1>1. Cardinality(r.cbs) \in Nat
    BY CbsCount
<1>2. Put(r) \in Records /\ Get(r) \in Records /\ Calm(r, Put(r)) /\ Calm(r, Get(r))
    BY DEF Put, Get, Records, Calm
<1>3. Outside(Put(r)) = Outside(r) - 1 /\ Outside(Get(r)) = Outside(r) + 1
    BY <1>1 DEF Put, Get, Records, Outside, One
<1>4. Sound(Put(r), sg)
    BY DEF Put, Records, Sound, Counts, NoDummy, OneDone, AllDone, Undone, Asked
<1>5. Sound(Get(r), sg)
    BY DEF Get, Records, Sound, Counts, NoDummy, OneDone, AllDone, Undone, Asked
<1> QED BY <1>2, <1>3, <1>4, <1>5

(* An array with nothing pending may be signaled: dma_fence_is_signaled    *)
(* and the deferred signal.                                                *)
LEMMA MaySignal ==
    ASSUME NEW r \in Records, NEW sg, Sound(r, sg), r.st = "live", ~r.forced, r.pending <= 0
    PROVE  IF r.any THEN OneDone(r, sg) ELSE AllDone(r, sg)
<1>1. r.any => OneDone(r, sg)
    BY DEF Sound, Counts
<1>2. ASSUME ~r.any PROVE AllDone(r, sg)
    <2>1. Len(r.kids) \in Nat /\ Undone(r, sg) \in SUBSET (1..Len(r.kids))
        BY DEF Records, Undone
    <2>2. Cardinality(Undone(r, sg)) \in Nat
        BY <2>1, PartOfInterval
    <2>3. Cardinality(Undone(r, sg)) = 0
        BY <1>2, <2>2 DEF Sound, Counts, Records
    <2>4. Undone(r, sg) = {}
        BY <2>1, <2>3, PartOfInterval
    <2> QED BY <2>4 DEF Undone, AllDone
<1> QED BY <1>1, <1>2

(* dma_fence_is_signaled signals an array that has nothing pending. *)
LEMMA SeenChange ==
    ASSUME NEW r \in Records, NEW sg, Sound(r, sg), r.st = "live"
    PROVE  /\ Seen(r) \in Records /\ Sound(Seen(r), sg) /\ Calm(r, Seen(r))
           /\ Outside(Seen(r)) = Outside(r) /\ Seen(r).sig = IsSignaled(r)
           /\ Seen(r).pending = r.pending
<1>1. /\ Seen(r) \in Records /\ Calm(r, Seen(r)) /\ Outside(Seen(r)) = Outside(r)
      /\ Seen(r).sig = IsSignaled(r) /\ Seen(r).pending = r.pending
    BY DEF Seen, IsSignaled, Records, Calm, Outside
<1>2. ~r.forced /\ r.pending <= 0 => IF r.any THEN OneDone(r, sg) ELSE AllDone(r, sg)
    BY MaySignal
<1> HIDE DEF Calm
<1>3. Sound(Seen(r), sg)
    BY <1>2 DEF Seen, IsSignaled, Records, Sound, Counts, NoDummy, OneDone, AllDone, Undone, Asked
<1> QED BY <1>1, <1>3

(* The deferred signal of dma_fence_array_cb. *)
LEMMA IrqChange ==
    ASSUME NEW r \in Records, NEW sg, Sound(r, sg), r.irq
    PROVE  LET q == Put([r EXCEPT !.irq = FALSE, !.sig = TRUE])
           IN  /\ q \in Records /\ Sound(q, sg) /\ Calm(r, q)
               /\ Outside(q) = Outside(r)
<1> DEFINE q == Put([r EXCEPT !.irq = FALSE, !.sig = TRUE])
<1>1. r.st = "live" /\ r.pending <= 0
    BY DEF Sound
<1>2. Cardinality(r.cbs) \in Nat
    BY CbsCount
<1>3. q \in Records
    <2>1. [r EXCEPT !.irq = FALSE, !.sig = TRUE] \in Records
        BY DEF Records
    <2> QED BY <2>1, PutType
<1>8. Calm(r, q)
    BY DEF Put, Records, Calm
<1>6. /\ q.refs = r.refs - 1 /\ q.fd = r.fd /\ q.irq = FALSE /\ q.cbs = r.cbs
      /\ r.refs \in Int /\ r.fd \in BOOLEAN
    BY DEF Put, Records
<1>7. Outside(q) = Outside(r)
    BY <1>2, <1>6 DEF Outside, One
<1>4. ~r.forced => IF r.any THEN OneDone(r, sg) ELSE AllDone(r, sg)
    BY <1>1, MaySignal
<1>5. Sound(q, sg)
    BY <1>1, <1>4 DEF Put, Records, Sound, Counts, NoDummy, OneDone, AllDone, Undone, Asked
<1> QED BY <1>3, <1>5, <1>7, <1>8

(* The fd of an array is closed. *)
LEMMA CloseChange ==
    ASSUME NEW r \in Records, NEW sg, Sound(r, sg), r.st = "live", r.fd
    PROVE  LET q == [Put(r) EXCEPT !.fd = FALSE]
           IN  /\ q \in Records /\ Sound(q, sg) /\ Calm(r, q)
               /\ Outside(q) = Outside(r)
<1> DEFINE q == [Put(r) EXCEPT !.fd = FALSE]
<1>1. Cardinality(r.cbs) \in Nat
    BY CbsCount
<1>2. q \in Records
    <2>1. Put(r) \in Records
        BY DEF Put, Records
    <2> QED BY <2>1 DEF Records
<1>6. Calm(r, q)
    BY DEF Put, Records, Calm
<1>4. /\ q.refs = r.refs - 1 /\ q.fd = FALSE /\ q.irq = r.irq /\ q.cbs = r.cbs
      /\ r.refs \in Int /\ r.irq \in BOOLEAN
    BY DEF Put, Records
<1>5. Outside(q) = Outside(r)
    BY <1>1, <1>4 DEF Outside, One
<1>3. Sound(q, sg)
    BY DEF Put, Records, Sound, Counts, NoDummy, OneDone, AllDone, Undone, Asked
<1> QED BY <1>2, <1>3, <1>5, <1>6

(* A failed bind sets its error, then signals; a bind that succeeded says  *)
(* so.                                                                     *)
LEMMA FlagChanges ==
    ASSUME NEW r \in Records, NEW sg, Sound(r, sg), r.st = "live"
    PROVE  /\ LET q == [r EXCEPT !.err = TRUE]
              IN  q \in Records /\ Sound(q, sg) /\ Calm(r, q) /\ Outside(q) = Outside(r)
           /\ r.err => LET q == [r EXCEPT !.sig = TRUE]
              IN  q \in Records /\ Sound(q, sg) /\ Calm(r, q) /\ Outside(q) = Outside(r)
           /\ LET q == [r EXCEPT !.bound = TRUE]
              IN  q \in Records /\ Sound(q, sg) /\ Outside(q) = Outside(r)
<1>1. LET q == [r EXCEPT !.err = TRUE]
      IN  q \in Records /\ Calm(r, q) /\ Outside(q) = Outside(r)
    BY DEF Records, Calm, Outside
<1>2. LET q == [r EXCEPT !.err = TRUE] IN Sound(q, sg)
    BY DEF Records, Sound, Counts, NoDummy, OneDone, AllDone, Undone, Asked
<1>3. r.err => LET q == [r EXCEPT !.sig = TRUE]
      IN  q \in Records /\ Calm(r, q) /\ Outside(q) = Outside(r)
    BY DEF Records, Calm, Outside
<1>4. r.err => LET q == [r EXCEPT !.sig = TRUE] IN Sound(q, sg)
    BY DEF Records, Sound, Counts, NoDummy, OneDone, AllDone, Undone, Asked
<1>5. LET q == [r EXCEPT !.bound = TRUE]
      IN  q \in Records /\ Outside(q) = Outside(r)
    BY DEF Records, Outside
<1>6. LET q == [r EXCEPT !.bound = TRUE] IN Sound(q, sg)
    BY DEF Records, Sound, Counts, NoDummy, OneDone, AllDone, Undone, Asked
<1> QED BY <1>1, <1>2, <1>3, <1>4, <1>5, <1>6

(* dma_fence_enable_sw_signaling: every callback has a reference, and what *)
(* is counted off is signaled.                                             *)
LEMMA EnableChange ==
    ASSUME NEW r \in Records, Sound(r, fsig), r.st = "live"
    PROVE  LET q == EnableSignaling(r)
           IN  /\ q \in Records /\ Sound(q, fsig) /\ Calm(r, q)
               /\ Outside(q) = Outside(r)
<1> DEFINE q == EnableSignaling(r)
           n == Len(r.kids)
           stops == {i \in 1..n : SignaledUpTo(r, i) = r.pending}
           last == IF stops = {} THEN n ELSE CHOOSE i \in stops : \A j \in stops : i <= j
           cbs == {i \in 1..last : r.kids[i] \notin fsig}
           D(m) == {j \in 1..m : r.kids[j] \in fsig}
<1>1. CASE r.en \/ r.sig
    <2>1. q = [r EXCEPT !.en = TRUE]
        BY <1>1 DEF EnableSignaling
    <2>2. q \in Records /\ Calm(r, q) /\ Outside(q) = Outside(r)
        BY <2>1 DEF Records, Calm, Outside
    <2>3. Sound(q, fsig)
        BY <2>1 DEF Records, Sound, Counts, NoDummy, OneDone, AllDone, Undone, Asked
    <2> QED BY <2>2, <2>3
<1>2. CASE ~(r.en \/ r.sig)
    <2>1. q = [r EXCEPT !.en = TRUE, !.cbs = cbs, !.refs = @ + Cardinality(cbs),
                        !.pending = @ - SignaledUpTo(r, last), !.sig = (stops # {})]
        BY <1>2 DEF EnableSignaling
    <2>2. /\ n \in 1..MaxFences /\ n \in Nat /\ MaxFences \in Nat /\ r.cbs = {} /\ NoDummy(r) /\ r.pending <= Asked(r)
          /\ r.irq => r.pending <= 0
          /\ r.pending \in Int /\ r.refs \in Int /\ r.any \in BOOLEAN
        BY <1>2, BoundsAssumption DEF Sound, Records
    <2>3. last \in 1..n /\ (stops # {} => last \in stops)
        <3>1. stops \in SUBSET Nat /\ stops \subseteq 1..n
            OBVIOUS
        <3> HIDE DEF stops
        <3>2. CASE stops = {}
            BY <2>2, <3>2
        <3>3. CASE stops # {}
            <4>1. \E i \in stops : \A j \in stops : i <= j
                BY <3>1, <3>3, LeastNatural
            <4>2. last \in stops
                BY <3>3, <4>1
            <4> QED BY <3>1, <4>2
        <3> QED BY <3>2, <3>3
    <2>4. \A m \in 1..n : SignaledUpTo(r, m) = Cardinality(D(m))
        BY DEF SignaledUpTo
    <2> HIDE DEF last, stops
    <2>5. /\ D(last) \in SUBSET (1..last) /\ D(n) \in SUBSET (1..n)
          /\ D(last) \in SUBSET (1..n)
        BY <2>2, <2>3
    <2>6. /\ Cardinality(D(last)) \in 0..n
          /\ Cardinality(D(last)) = n => D(last) = 1..n
          /\ Cardinality(D(last)) = 0 <=> D(last) = {}
        <3> HIDE DEF D
        <3> QED BY <2>2, <2>5, PartOfInterval
    <2>7. cbs \in SUBSET (1..n)
        BY <2>2, <2>3
    <2>8. Cardinality(cbs) \in Nat /\ cbs \in SUBSET (1..MaxFences)
        <3> HIDE DEF cbs
        <3>1. Cardinality(cbs) \in 0..n
            BY <2>2, <2>7, PartOfInterval
        <3> QED BY <2>2, <2>7, <3>1
    <2>9. SignaledUpTo(r, last) = Cardinality(D(last))
        BY <2>3, <2>4
    <2> HIDE DEF cbs
    <2>10. /\ q.st = "live" /\ q.any = r.any /\ q.kids = r.kids /\ q.fd = r.fd /\ q.irq = r.irq
           /\ q.bound = r.bound /\ q.err = r.err /\ q.forced = r.forced
           /\ q.en = TRUE /\ q.cbs = cbs /\ q.refs = r.refs + Cardinality(cbs)
           /\ q.pending = r.pending - Cardinality(D(last)) /\ q.sig = (stops # {})
        BY <2>1, <2>9 DEF Records
    <2>11. q \in Records
        <3>1. /\ r.refs + Cardinality(cbs) \in Int /\ r.pending - SignaledUpTo(r, last) \in Int
              /\ (stops # {}) \in BOOLEAN
            BY <2>2, <2>6, <2>8, <2>9
        <3>2. PICK x \in Int, p \in Int, b \in BOOLEAN :
                  /\ x = r.refs + Cardinality(cbs) /\ p = r.pending - SignaledUpTo(r, last)
                  /\ b = (stops # {})
            BY <3>1
        <3>3. q = [r EXCEPT !.en = TRUE, !.cbs = cbs, !.refs = x, !.pending = p, !.sig = b]
            BY <2>1, <3>2
        <3> HIDE DEF q
        <3> QED BY <2>8, <3>3 DEF Records
    <2>12. Calm(r, q)
        BY <1>2, <2>10 DEF Calm
    <2>13. Outside(q) = Outside(r)
        <3>1. Cardinality(r.cbs) = 0
            BY <2>2, FS_EmptySet
        <3>2. One(r.fd) \in Int /\ One(r.irq) \in Int
            BY DEF One
        <3> QED BY <2>2, <2>8, <2>10, <3>1, <3>2 DEF Outside
    <2> HIDE DEF q
    <2>14. NoDummy(q) /\ Asked(q) = Asked(r) /\ Undone(q, fsig) = Undone(r, fsig)
        BY <2>2, <2>10 DEF NoDummy, Asked, Undone
    <2>15. ASSUME ~r.forced PROVE Counts(q, fsig)
        <3>1. r.pending = Asked(r)
            BY <1>2, <2>15 DEF Sound, Counts
        <3>2. D(last) # {} => OneDone(q, fsig)
            BY <2>3, <2>5, <2>10 DEF OneDone
        <3>3. r.any => q.pending = 1 \/ OneDone(q, fsig)
            BY <2>2, <2>6, <2>10, <3>1, <3>2 DEF Asked, InitialPending
        <3>4. ~r.any => q.pending >= Cardinality(Undone(q, fsig))
            <4>1. Undone(r, fsig) = (1..n) \ D(n)
                BY DEF Undone
            <4>2. Cardinality(Undone(r, fsig)) = n - Cardinality(D(n))
                <5>1. IsFiniteSet(1..n) /\ Cardinality(1..n) = n /\ (1..n) \cap D(n) = D(n)
                    <6>1. IsFiniteSet(1..n) /\ Cardinality(1..n) = n
                        <7>1. n \in Nat
                            BY <2>2
                        <7> HIDE DEF n
                        <7> QED BY <7>1, FS_Interval
                    <6>2. (1..n) \cap D(n) = D(n)
                        OBVIOUS
                    <6> HIDE DEF D
                    <6> QED BY <6>1, <6>2
                <5> HIDE DEF D
                <5> QED BY <4>1, <5>1, FS_Difference
            <4>3. Cardinality(D(last)) <= Cardinality(D(n)) /\ Cardinality(D(n)) \in Nat
                <5>1. D(last) \in SUBSET D(n)
                    BY <2>2, <2>3
                <5>2. IsFiniteSet(D(n)) /\ Cardinality(D(n)) \in 0..n
                    BY <2>2, <2>5, PartOfInterval
                <5> HIDE DEF D
                <5> QED BY <5>1, <5>2, FS_Subset
            <4> HIDE DEF D
            <4> QED BY <2>2, <2>6, <2>10, <2>14, <3>1, <4>2, <4>3 DEF Asked, InitialPending
        <3>5. ASSUME q.sig PROVE IF q.any THEN OneDone(q, fsig) ELSE AllDone(q, fsig)
            <4>1. Cardinality(D(last)) = r.pending
                BY <2>3, <2>9, <2>10, <3>5 DEF stops
            <4>2. r.any => OneDone(q, fsig)
                BY <2>2, <2>6, <3>1, <3>2, <4>1 DEF Asked, InitialPending
            <4>3. ~r.any => AllDone(q, fsig)
                <5>1. ~r.any => D(last) = 1..n
                    BY <2>6, <3>1, <4>1 DEF Asked, InitialPending
                <5>2. D(last) = 1..n => AllDone(q, fsig)
                    BY <2>10 DEF AllDone
                <5> QED BY <5>1, <5>2
            <4> QED BY <2>10, <4>2, <4>3
        <3> QED BY <2>10, <2>14, <3>3, <3>4, <3>5 DEF Counts
    <2>16. Sound(q, fsig)
        <3>1. q.pending <= Asked(q) /\ (q.irq => q.pending <= 0)
            <4>1. Asked(r) \in Int
                BY <2>2 DEF Asked, InitialPending
            <4> QED BY <2>2, <2>6, <2>10, <2>14, <4>1
        <3> QED BY <2>2, <2>7, <2>10, <2>14, <2>15, <3>1 DEF Sound
    <2> QED BY <2>11, <2>12, <2>13, <2>16 DEF q
<1> QED BY <1>1, <1>2

(* dma_fence_array_cb: a fence that gets signaled is counted off with its  *)
(* callbacks' references, the last one pending keeping one.                *)
LEMMA CountedChange ==
    ASSUME NEW r \in Records, NEW sg, Sound(r, sg), NEW f, f \notin sg
    PROVE  LET q == Counted(r, f)
           IN  /\ q \in Records /\ Sound(q, sg \cup {f}) /\ Calm(r, q)
               /\ Outside(q) = Outside(r)
<1> DEFINE q == Counted(r, f)
           hit == {i \in r.cbs : r.kids[i] = f}
           n == Cardinality(hit)
           ends == r.pending > 0 /\ r.pending <= n
           sh == sg \cup {f}
<1>1. /\ r.pending \in Int /\ r.refs \in Int /\ r.fd \in BOOLEAN /\ r.irq \in BOOLEAN
      /\ r.any \in BOOLEAN /\ r.cbs \in SUBSET (1..MaxFences) /\ Len(r.kids) \in Nat
    BY DEF Records
<1>2. IsFiniteSet(r.cbs) /\ Cardinality(r.cbs) \in Nat
    BY CbsCount
<1>3. IsFiniteSet(hit) /\ n \in Nat /\ (n = 0 <=> hit = {})
    <2>1. hit \in SUBSET r.cbs
        OBVIOUS
    <2>2. IsFiniteSet(hit)
        BY <1>2, <2>1, FS_Subset
    <2> HIDE DEF hit
    <2> QED BY <2>2, FS_CardinalityType, FS_EmptySet
<1>4. q = [r EXCEPT !.cbs = @ \ hit, !.pending = @ - n, !.irq = @ \/ ends,
                    !.refs = @ - n + (IF ends THEN 1 ELSE 0)]
    BY DEF Counted
<1>5. hit \subseteq r.cbs /\ \A i \in hit : r.kids[i] = f
    OBVIOUS
<1> HIDE DEF hit, n
<1>6. /\ q.st = r.st /\ q.any = r.any /\ q.kids = r.kids /\ q.fd = r.fd /\ q.sig = r.sig
      /\ q.bound = r.bound /\ q.err = r.err /\ q.forced = r.forced /\ q.en = r.en
      /\ q.cbs = r.cbs \ hit /\ q.pending = r.pending - n /\ q.irq = (r.irq \/ ends)
      /\ q.refs = r.refs - n + (IF ends THEN 1 ELSE 0)
    BY <1>4 DEF Records
<1>7. q \in Records
    <2>1. /\ r.cbs \ hit \in SUBSET (1..MaxFences) /\ r.pending - n \in Int
          /\ (r.irq \/ ends) \in BOOLEAN /\ r.refs - n + (IF ends THEN 1 ELSE 0) \in Int
        BY <1>1, <1>3
    <2> HIDE DEF ends
    <2>2. PICK c \in SUBSET (1..MaxFences), p \in Int, b \in BOOLEAN, x \in Int :
              /\ c = r.cbs \ hit /\ p = r.pending - n /\ b = (r.irq \/ ends)
              /\ x = r.refs - n + (IF ends THEN 1 ELSE 0)
        BY <2>1
    <2>3. q = [r EXCEPT !.cbs = c, !.pending = p, !.irq = b, !.refs = x]
        BY <1>4, <2>2
    <2> HIDE DEF q
    <2> QED BY <2>3 DEF Records
<1>8. Calm(r, q)
    BY <1>6 DEF Calm
<1> HIDE DEF q
<1>9. r.irq => r.pending <= 0
    BY DEF Sound
<1>10. Outside(q) = Outside(r)
    <2>1. Cardinality(q.cbs) = Cardinality(r.cbs) - n
        <3>1. r.cbs \cap hit = hit
            BY <1>5
        <3>2. Cardinality(r.cbs \ hit) = Cardinality(r.cbs) - Cardinality(r.cbs \cap hit)
            BY <1>2, FS_Difference
        <3> QED BY <1>6, <3>1, <3>2 DEF n
    <2>2. One(q.irq) = One(r.irq) + (IF ends THEN 1 ELSE 0)
        <3>1. CASE ends
            <4>1. r.irq = FALSE /\ q.irq = TRUE
                <5>1. ~r.irq
                    BY <1>1, <1>9, <3>1
                <5> QED BY <1>1, <1>6, <3>1, <5>1
            <4> QED BY <3>1, <4>1 DEF One
        <3>2. CASE ~ends
            <4>1. q.irq = r.irq
                BY <1>1, <1>6, <3>2
            <4> QED BY <3>2, <4>1 DEF One
        <3> QED BY <3>1, <3>2
    <2>3. One(r.fd) \in Int /\ One(r.irq) \in Int
        BY DEF One
    <2> HIDE DEF ends
    <2> QED BY <1>1, <1>2, <1>3, <1>6, <2>1, <2>2, <2>3 DEF Outside
<1>11. CASE r.st # "live"
    <2>1. r.cbs = {} /\ r.pending = 0 /\ r.kids = << >> /\ r.refs = 0 /\ ~r.irq /\ ~r.fd
        BY <1>11 DEF Sound
    <2>2. hit = {}
        BY <1>5, <2>1
    <2>3. n = 0
        BY <1>3, <2>2
    <2>4. q.irq = FALSE /\ q.fd = FALSE /\ q.pending = 0 /\ q.cbs = {} /\ q.refs = 0
        BY <1>1, <1>6, <2>1, <2>2, <2>3
    <2>5. Sound(q, sh)
        BY <1>6, <1>11, <2>1, <2>4 DEF Sound
    <2> QED BY <1>7, <1>8, <1>10, <2>5 DEF q
<1>12. CASE r.st = "live"
    <2>1. NoDummy(q) = NoDummy(r) /\ Asked(q) = Asked(r)
        BY <1>6 DEF NoDummy, Asked
    <2>2. r.cbs = {} => n = 0
        BY <1>3, <1>5
    <2>3. n # 0 => OneDone(q, sh)
        <3>1. r.cbs \subseteq 1..Len(r.kids)
            BY <1>12 DEF Sound
        <3> QED BY <1>3, <1>5, <1>6, <3>1 DEF OneDone
    <2>4. (OneDone(r, sg) => OneDone(q, sh)) /\ (AllDone(r, sg) => AllDone(q, sh))
        BY <1>6 DEF OneDone, AllDone
    <2>5. ASSUME ~r.forced PROVE Counts(q, sh)
        <3>1. Counts(r, sg)
            BY <1>12, <2>5 DEF Sound
        <3>2. ~q.en \/ ~NoDummy(q) => q.pending = Asked(q)
            BY <1>1, <1>6, <1>12, <2>1, <2>2, <3>1 DEF Sound, Counts
        <3>3. q.any => q.pending = 1 \/ OneDone(q, sh)
            BY <1>1, <1>3, <1>6, <2>3, <2>4, <3>1 DEF Counts
        <3>4. ~q.any => q.pending >= Cardinality(Undone(q, sh))
            <4> DEFINE u == Undone(r, sg)
                       v == Undone(q, sh)
            <4>1. v \subseteq u /\ v \cap hit = {} /\ hit \subseteq u
                BY <1>5, <1>6, <1>12 DEF Undone, Sound
            <4>2. u \in SUBSET (1..Len(r.kids))
                BY DEF Undone
            <4>3. IsFiniteSet(u) /\ Cardinality(u) \in Nat
                BY <1>1, <4>2, PartOfInterval
            <4> HIDE DEF u, v
            <4>4. Cardinality(u \ hit) = Cardinality(u) - n /\ IsFiniteSet(u \ hit)
                <5>1. u \cap hit = hit
                    BY <4>1
                <5> QED BY <4>3, <5>1, FS_Difference DEF n
            <4>5. Cardinality(v) <= Cardinality(u \ hit) /\ IsFiniteSet(v)
                BY <4>1, <4>4, FS_Subset
            <4>6. Cardinality(v) \in Nat
                BY <4>5, FS_CardinalityType
            <4>7. ~r.any => r.pending >= Cardinality(u)
                BY <3>1 DEF Counts, u
            <4> QED BY <1>1, <1>3, <1>6, <4>3, <4>4, <4>5, <4>6, <4>7 DEF v
        <3>5. q.sig /\ ~q.err => IF q.any THEN OneDone(q, sh) ELSE AllDone(q, sh)
            BY <1>6, <2>4, <3>1 DEF Counts
        <3> QED BY <3>2, <3>3, <3>4, <3>5 DEF Counts
    <2>6. q.pending <= Asked(q) /\ (q.irq => q.pending <= 0)
        <3>1. Asked(r) \in Int /\ r.pending <= Asked(r)
            BY <1>1, <1>12 DEF Asked, InitialPending, Sound
        <3> QED BY <1>1, <1>3, <1>6, <1>9, <2>1, <3>1
    <2>7. Sound(q, sh)
        BY <1>6, <1>12, <2>1, <2>5, <2>6 DEF Sound
    <2> QED BY <1>7, <1>8, <1>10, <2>7 DEF q
<1> QED BY <1>11, <1>12

(* What clear_fence_array_tracker does to an array of the list. *)
LEMMA ClearedChange ==
    ASSUME NEW r \in Records, NEW sg, Sound(r, sg), r.st = "live", ~r.forced
    PROVE  /\ Cleared(r, FALSE) \in Records /\ Sound(Cleared(r, FALSE), sg)
           /\ Calm(r, Cleared(r, FALSE))
           /\ Outside(Cleared(r, FALSE)) = IF IsSignaled(r) THEN Outside(r) - 1 ELSE Outside(r)
           /\ IsSignaled(r) => Cleared(r, FALSE).sig
           /\ Cleared(r, TRUE) \in Records /\ Sound(Cleared(r, TRUE), sg)
           /\ Outside(Cleared(r, TRUE)) = Outside(r) - 1
           /\ LET q == Cleared(r, TRUE)
              IN  /\ q.st = r.st /\ q.kids = r.kids /\ q.any = r.any /\ q.bound = r.bound
                  /\ q.err = r.err
                  /\ Asked(r) = 1 => q.sig
<1> DEFINE s == Seen(r)
           f == [s EXCEPT !.pending = @ - 1, !.sig = (s.pending = 1), !.forced = TRUE]
<1>1. /\ s \in Records /\ Sound(s, sg) /\ Calm(r, s) /\ Outside(s) = Outside(r)
      /\ s.sig = IsSignaled(r) /\ s.pending = r.pending
    BY SeenChange
<1>2. s.st = "live" /\ s.err = r.err
    BY <1>1 DEF Calm, Seen, Records
<1>3. IsSignaled(r) \in BOOLEAN
    BY DEF IsSignaled, Records
<1>4. CASE s.sig
    <2>1. Cleared(r, FALSE) = Put(s) /\ Cleared(r, TRUE) = Put(s)
        BY <1>4 DEF Cleared
    <2>2. /\ Put(s) \in Records /\ Sound(Put(s), sg) /\ Calm(s, Put(s))
          /\ Outside(Put(s)) = Outside(s) - 1
        BY <1>1, <1>2, RefChanges
    <2>3. Calm(r, Put(s)) /\ Put(s).err = r.err /\ Put(s).sig
        BY <1>1, <1>2, <1>4, <2>2 DEF Calm, Put, Records
    <2>4. Put(s).st = r.st /\ Put(s).kids = r.kids /\ Put(s).any = r.any /\ Put(s).bound = r.bound
        BY <2>3 DEF Calm
    <2> HIDE DEF s
    <2> QED BY <1>1, <1>4, <2>1, <2>2, <2>3, <2>4
<1>5. CASE ~s.sig
    <2>1. Cleared(r, FALSE) = s /\ Cleared(r, TRUE) = Put(f)
        BY <1>5 DEF Cleared
    <2>2. s.pending > 0 /\ s.pending \in Int
        BY <1>1, <1>5 DEF IsSignaled, Records
    <2>3. f \in Records
        <3>1. PICK p \in Int, b \in BOOLEAN : p = s.pending - 1 /\ b = (s.pending = 1)
            <4>1. s.pending - 1 \in Int /\ (s.pending = 1) \in BOOLEAN
                BY <2>2
            <4> QED BY <4>1
        <3>2. f = [s EXCEPT !.pending = p, !.sig = b, !.forced = TRUE]
            BY <3>1
        <3> HIDE DEF f, s
        <3> QED BY <1>1, <3>2 DEF Records
    <2>4. /\ f.st = "live" /\ f.kids = s.kids /\ f.any = s.any /\ f.bound = s.bound
          /\ f.err = s.err /\ f.refs = s.refs /\ f.fd = s.fd /\ f.irq = s.irq /\ f.cbs = s.cbs
          /\ f.en = s.en /\ f.forced = TRUE /\ f.pending = s.pending - 1
          /\ f.sig = (s.pending = 1)
        <3> HIDE DEF s
        <3> QED BY <1>1, <1>2 DEF Records
    <2> HIDE DEF f, s
    <2>5. Outside(f) = Outside(s)
        BY <2>4 DEF Outside
    <2>6. Sound(f, sg)
        <3>1. NoDummy(f) = NoDummy(s) /\ Asked(f) = Asked(s)
            BY <2>4 DEF NoDummy, Asked
        <3>2. Asked(s) \in Int
            BY <1>1 DEF Asked, InitialPending, Records
        <3>3. f.pending <= Asked(f) /\ ~f.irq
            BY <1>1, <1>2, <2>2, <2>4, <3>1, <3>2 DEF Sound
        <3> QED BY <1>1, <1>2, <2>4, <3>1, <3>3 DEF Sound
    <2>7. /\ Put(f) \in Records /\ Sound(Put(f), sg) /\ Calm(f, Put(f))
          /\ Outside(Put(f)) = Outside(f) - 1
        BY <2>3, <2>4, <2>6, RefChanges
    <2>8. Put(f).err = f.err
        BY <2>3 DEF Put, Records
    <2>9. Asked(r) = 1 => Put(f).sig
        <3>1. Asked(r) = 1 => r.pending <= 1
            BY DEF Sound
        <3>2. Asked(r) = 1 => s.pending = 1
            BY <1>1, <2>2, <3>1
        <3>3. Asked(r) = 1 => f.sig
            BY <2>4, <3>2
        <3> QED BY <2>7, <3>3 DEF Calm
    <2>10. /\ Put(f).st = r.st /\ Put(f).kids = r.kids /\ Put(f).any = r.any
           /\ Put(f).bound = r.bound
        BY <1>1, <1>2, <2>4, <2>7 DEF Calm
    <2> QED BY <1>1, <1>2, <1>3, <1>5, <2>1, <2>4, <2>5, <2>7, <2>8, <2>9, <2>10
<1> QED BY <1>4, <1>5

(* What spec_sync_create_array starts from. *)
LEMMA NewChange ==
    ASSUME NEW n \in 1..MaxFences, NEW any \in BOOLEAN, NEW sg
    PROVE  LET q == NewArray(n, any)
           IN  /\ q \in Records /\ Sound(q, sg) /\ Outside(q) = 1
               /\ q.st = "live" /\ ~q.forced /\ ~q.bound /\ q.kids = [i \in 1..n |-> Dummy]
<1> DEFINE q == NewArray(n, any)
           k == [i \in 1..n |-> Dummy]
<1>1. k \in Seq(Fences \cup {Dummy}) /\ Len(k) = n /\ n \in Nat
    BY BoundsAssumption
<1>2. InitialPending(n, any) \in Int
    BY <1>1 DEF InitialPending
<1> HIDE DEF k
<1>3. /\ q.st = "live" /\ q.any = any /\ q.kids = k /\ q.pending = InitialPending(n, any)
      /\ q.refs = 2 /\ q.fd = TRUE /\ q.sig = FALSE /\ q.en = TRUE /\ q.bound = FALSE
      /\ q.err = FALSE /\ q.cbs = {} /\ q.irq = FALSE /\ q.forced = FALSE
    BY DEF NewArray, NoFences, k
<1>4. q \in Records
    <2>1. PICK p \in Int : p = InitialPending(n, any)
        BY <1>2
    <2>2. q = [st |-> "live", any |-> any, kids |-> k, pending |-> p, refs |-> 2, fd |-> TRUE,
               sig |-> FALSE, en |-> TRUE, bound |-> FALSE, err |-> FALSE, cbs |-> {},
               irq |-> FALSE, forced |-> FALSE]
        <3>1. q = [NoFences EXCEPT !.st = "live", !.any = any, !.kids = k, !.pending = p,
                                   !.refs = 2, !.fd = TRUE, !.en = TRUE]
            BY <2>1 DEF NewArray, k
        <3> HIDE DEF q
        <3> QED BY <3>1 DEF NoFences
    <2> HIDE DEF q
    <2> QED BY <1>1, <2>2 DEF Records
<1> HIDE DEF q
<1>5. Outside(q) = 1
    BY <1>3, FS_EmptySet DEF Outside, One
<1>6. Asked(q) = InitialPending(n, any)
    BY <1>1, <1>3 DEF Asked
<1>7. Cardinality(Undone(q, sg)) <= n /\ Cardinality(Undone(q, sg)) \in Nat
    <2>1. Undone(q, sg) \in SUBSET (1..n)
        BY <1>1, <1>3 DEF Undone
    <2> QED BY <1>1, <2>1, PartOfInterval
<1>8. Sound(q, sg)
    <2>1. Counts(q, sg)
        BY <1>1, <1>2, <1>3, <1>6, <1>7 DEF Counts, InitialPending
    <2> QED BY <1>1, <1>2, <1>3, <1>6, <2>1 DEF Sound
<1> QED BY <1>3, <1>4, <1>5, <1>8 DEF q, k

(* A bind that puts fences in the first m places of an array of dummies. *)
LEMMA ReplaceChange ==
    ASSUME NEW r \in Records, NEW sg \in SUBSET Fences, Sound(r, sg), r.st = "live", ~r.forced,
           OnlyDummies(r), NEW m \in 0..Len(r.kids), NEW k \in Seq(Fences \cup {Dummy}),
           Len(k) = Len(r.kids), NEW q \in Records,
           q.st = "live", q.any = r.any, q.kids = k, q.pending = r.pending, q.refs = r.refs,
           q.fd = r.fd, q.sig = r.sig, q.err = r.err, q.cbs = r.cbs, q.irq = r.irq,
           q.forced = r.forced, NoDummy(q) \/ q.en
    PROVE  Sound(q, sg) /\ Outside(q) = Outside(r)
<1>1. Len(r.kids) \in 1..MaxFences /\ Len(r.kids) \in Nat /\ 1 \in 1..Len(r.kids)
    BY BoundsAssumption DEF Sound, Records
<1>2. ~NoDummy(r) /\ ~OneDone(r, sg) /\ ~AllDone(r, sg)
    BY <1>1, FencesAssumption DEF OnlyDummies, NoDummy, OneDone, AllDone
<1>3. r.en /\ r.cbs = {} /\ r.pending = Asked(r) /\ (r.irq => r.pending <= 0) /\ Counts(r, sg)
    BY <1>2 DEF Sound, Counts
<1>4. Asked(q) = Asked(r) /\ Asked(r) \in Int
    BY <1>1 DEF Asked, InitialPending
<1>5. Cardinality(Undone(q, sg)) <= Len(r.kids) /\ Cardinality(Undone(q, sg)) \in Nat
    <2>1. Undone(q, sg) \in SUBSET (1..Len(r.kids))
        BY DEF Undone
    <2> QED BY <1>1, <2>1, PartOfInterval
<1>6. ~r.sig \/ r.err
    BY <1>2, <1>3 DEF Counts
<1>7. Counts(q, sg)
    BY <1>1, <1>3, <1>4, <1>5, <1>6 DEF Counts, Asked, InitialPending
<1>8. Outside(q) = Outside(r)
    BY DEF Outside
<1> QED BY <1>1, <1>3, <1>4, <1>7, <1>8 DEF Sound
----------------------------------------------------------------------------
(* The places of the dummy are finitely many. *)
LEMMA PlacesFinite ==
    ASSUME NEW f
    PROVE  IsFiniteSet(Places(f)) /\ Cardinality(Places(f)) \in Nat
<1>1. IsFiniteSet(1..MaxFences)
    BY BoundsAssumption, FS_Interval
<1>2. IsFiniteSet(Arrays \X (1..MaxFences))
    BY <1>1, FiniteAssumption, FS_Product
<1>3. Places(f) \in SUBSET (Arrays \X (1..MaxFences))
    BY DEF Places
<1>4. IsFiniteSet(Places(f))
    BY <1>2, <1>3, FS_Subset
<1> QED BY <1>4, FS_CardinalityType

(* Arrays with the same fences have their dummies in the same places. *)
LEMMA SamePlaces ==
    ASSUME NEW f, NEW g, \A a \in Arrays : f[a].st = g[a].st /\ f[a].kids = g[a].kids
    PROVE  Places(f) = Places(g)
BY DEF Places

(* Nobody is counted who does not hold the array. *)
InsideFacts ==
    \A a \in Arrays : /\ Inside(a) \in Nat
                      /\ Inside(a) = 0 => /\ a \notin tracker
                                          /\ CallersOf(a) = {}
                                          /\ WaitersOf(a) = {}

(* The holders of an array, as a number, in the state before a step. *)
LEMMA InsideNat == InsideFacts
<1> SUFFICES ASSUME NEW a \in Arrays
             PROVE  /\ Inside(a) \in Nat
                    /\ Inside(a) = 0 => /\ a \notin tracker
                                        /\ CallersOf(a) = {}
                                        /\ WaitersOf(a) = {}
    BY DEF InsideFacts
<1>1. /\ IsFiniteSet(CallersOf(a)) /\ Cardinality(CallersOf(a)) \in Nat
      /\ IsFiniteSet(WaitersOf(a)) /\ Cardinality(WaitersOf(a)) \in Nat
    BY HeldCounts
<1>2. /\ Cardinality(CallersOf(a)) = 0 => CallersOf(a) = {}
      /\ Cardinality(WaitersOf(a)) = 0 => WaitersOf(a) = {}
    BY <1>1, FS_EmptySet
<1> QED BY <1>1, <1>2 DEF Inside, One

(* The same after a step. *)
LEMMA InsideNatNext == InsideFacts'
BY InsideNat, PTL

(* A step that leaves the arrays as next, before those that nobody holds   *)
(* are released, keeps the invariant if next agrees with the rest.         *)
LEMMA SettleStep ==
    ASSUME SpecInv, NEW next \in [Arrays -> Records], NEW n \in Int, Settle(next, n),
           RestOK', InvOn(next)',
           Cardinality(Places(next)) = Cardinality(Places(arr)) - n
    PROVE  SpecInv'
<1> DEFINE gone == {a \in Arrays : next[a].st = "live" /\ next[a].refs = 0}
           left == {p \in gone \X (1..MaxFences) : p \in Places(next)}
<1>1. /\ arr' = [a \in Arrays |-> IF a \in gone THEN Freed ELSE next[a]]
      /\ dummyRef' = dummyRef - n - Cardinality(left)
    BY DEF Settle
<1>2. Freed \in Records /\ Freed.st = "freed" /\ Sound(Freed, fsig') /\ Outside(Freed) = 0
    <2>1. /\ Freed.st = "freed" /\ Freed.kids = << >> /\ Freed.cbs = {} /\ Freed.pending = 0
          /\ Freed.irq = FALSE /\ Freed.fd = FALSE /\ Freed.refs = 0
        BY DEF Freed, NoFences
    <2>2. Freed \in Records
        BY BlankTypes
    <2>3. Sound(Freed, fsig')
        BY <2>1 DEF Sound
    <2>4. Outside(Freed) = 0
        BY <2>1, FS_EmptySet DEF Outside, One
    <2> QED BY <2>1, <2>2, <2>3, <2>4
<1> HIDE DEF gone
<1>3. arr' \in [Arrays -> Records]
    BY <1>1, <1>2
<1>4. \A a \in Arrays : arr'[a] = IF a \in gone THEN Freed ELSE next[a]
    BY <1>1
<1>5. \A a \in gone : /\ a \in Arrays /\ a \notin tracker' /\ CallersOf(a)' = {}
                      /\ WaitersOf(a)' = {} /\ Inside(a)' = 0
    <2> SUFFICES ASSUME NEW a \in gone
                 PROVE  /\ a \in Arrays /\ a \notin tracker' /\ CallersOf(a)' = {}
                        /\ WaitersOf(a)' = {} /\ Inside(a)' = 0
        OBVIOUS
    <2>1. a \in Arrays /\ next[a].refs = 0 /\ next[a] \in Records
        BY DEF gone
    <2>2. Outside(next[a]) = Inside(a)'
        BY <2>1 DEF InvOn
    <2>3. Outside(next[a]) <= 0
        <3>1. Cardinality(next[a].cbs) \in Nat
            BY <2>1, CbsCount
        <3> QED BY <2>1, <3>1 DEF Outside, One
    <2>4. Inside(a)' \in Nat
        BY <2>1, InsideNatNext DEF InsideFacts
    <2>5. Inside(a)' = 0
        BY <2>2, <2>3, <2>4
    <2> QED BY <2>1, <2>5, InsideNatNext DEF InsideFacts
<1>6. DummyRefs' /\ dummyRef' \in Int
    <2>1. Places(arr)' = Places(next) \ left
        BY <1>2, <1>4 DEF Places
    <2>2. IsFiniteSet(Places(next)) /\ Cardinality(Places(next)) \in Nat
        BY PlacesFinite
    <2>3. Cardinality(Places(arr)) \in Nat
        BY PlacesFinite
    <2>4. left \in SUBSET Places(next) /\ Places(next) \cap left = left
        OBVIOUS
    <2> HIDE DEF left
    <2>5. IsFiniteSet(left)
        BY <2>2, <2>4, FS_Subset
    <2>6. Cardinality(left) \in Nat
        BY <2>5, FS_CardinalityType
    <2>7. Cardinality(Places(next) \ left) = Cardinality(Places(next)) - Cardinality(left)
        <3>1. Cardinality(Places(next) \ left)
                  = Cardinality(Places(next)) - Cardinality(Places(next) \cap left)
            BY <2>2, FS_Difference
        <3> QED BY <2>4, <3>1
    <2>8. dummyRef = 1 + Cardinality(Places(arr))
        BY DEF SpecInv, DummyRefs
    <2>9. dummyRef' = 1 + Cardinality(Places(arr)')
        <3>1. Cardinality(Places(arr)') = Cardinality(Places(next)) - Cardinality(left)
            BY <2>1, <2>7
        <3> QED BY <1>1, <2>2, <2>3, <2>6, <2>8, <3>1
    <2> QED BY <1>1, <2>3, <2>6, <2>8, <2>9 DEF DummyRefs
<1>7. \A a \in Arrays : Live(a)' => arr'[a] = next[a] /\ arr'[a].refs # 0
    BY <1>2, <1>4 DEF Live, gone
<1>8. InvOn(arr)'
    <2>1. (\A a \in Arrays : Sound(arr[a], fsig))'
        BY <1>2, <1>4 DEF InvOn
    <2>2. (\A a \in Arrays : Outside(arr[a]) = Inside(a))'
        BY <1>2, <1>4, <1>5 DEF InvOn
    <2>3. (\A t \in Threads : CallOK(t, arr))'
        <3> SUFFICES ASSUME NEW t \in Threads
                     PROVE  CallOK(t, arr)'
            OBVIOUS
        <3>1. CallOK(t, next)'
            BY DEF InvOn
        <3>2. CASE pc'[t] = "idle"
            BY <3>1, <3>2 DEF CallOK
        <3>3. CASE pc'[t] # "idle"
            <4>1. on'[t] \in Arrays
                BY <3>1, <3>3 DEF CallOK, RestOK
            <4>2. PICK a \in Arrays : a = on'[t]
                BY <4>1
            <4>3. t \in CallersOf(a)'
                BY <3>3, <4>2 DEF CallersOf
            <4>4. arr'[a] = next[a]
                BY <1>4, <1>5, <4>3
            <4> QED BY <3>1, <3>3, <4>2, <4>4 DEF CallOK
        <3> QED BY <3>2, <3>3
    <2>4. TrackIn(arr)'
        BY <1>4, <1>5 DEF InvOn, TrackIn, RestOK
    <2>5. BoundIn(arr)'
        BY <1>2, <1>4 DEF InvOn, BoundIn
    <2>6. LeavesIn(arr)'
        BY <1>2, <1>4 DEF InvOn, LeavesIn
    <2> QED BY <2>1, <2>2, <2>3, <2>4, <2>5, <2>6 DEF InvOn
<1> QED BY <1>3, <1>6, <1>7, <1>8 DEF SpecInv

(* A step that puts and releases nothing is of that form too. *)
LEMMA SettleNothing ==
    ASSUME SpecInv, NEW next \in [Arrays -> Records],
           \A a \in Arrays : next[a].st = arr[a].st /\ next[a].refs = arr[a].refs,
           arr' = next, UNCHANGED dummyRef
    PROVE  Settle(next, 0)
<1> DEFINE gone == {a \in Arrays : next[a].st = "live" /\ next[a].refs = 0}
           left == {p \in gone \X (1..MaxFences) : p \in Places(next)}
<1>1. gone = {}
    BY DEF SpecInv, Live
<1>2. left = {}
    BY <1>1
<1>3. Cardinality(left) = 0
    BY <1>2, FS_EmptySet
<1>4. arr' = [a \in Arrays |-> IF a \in gone THEN Freed ELSE next[a]]
    BY <1>1
<1>5. dummyRef' = dummyRef - 0 - Cardinality(left)
    BY <1>3 DEF SpecInv
<1> QED BY <1>4, <1>5 DEF Settle
----------------------------------------------------------------------------
(* An array that does not change is calm. *)
LEMMA CalmSelf == \A r \in Records : Calm(r, r)
BY DEF Calm

(* An update of one array. *)
LEMMA SetFacts ==
    ASSUME arr \in [Arrays -> Records], NEW a \in Arrays, NEW r \in Records
    PROVE  /\ Set(a, r) \in [Arrays -> Records]
           /\ \A b \in Arrays : Set(a, r)[b] = IF b = a THEN r ELSE arr[b]
BY DEF Set

(* An array that somebody holds is there, and its references are those of  *)
(* its holders.                                                            *)
LEMMA HeldLive ==
    ASSUME SpecInv, NEW a \in Arrays, Inside(a) # 0
    PROVE  Live(a)
<1>1. Outside(arr[a]) = Inside(a) /\ Sound(arr[a], fsig) /\ arr[a] \in Records
    BY DEF SpecInv, InvOn
<1>2. arr[a].st # "live" => Outside(arr[a]) = 0
    <2>1. arr[a].st # "live" => /\ arr[a].cbs = {} /\ arr[a].refs = 0
                                /\ ~arr[a].irq /\ ~arr[a].fd
        BY <1>1 DEF Sound
    <2> QED BY <2>1, FS_EmptySet DEF Outside, One
<1> QED BY <1>1, <1>2 DEF Live

(* What the tracker, a call or a wait holds is a live array. *)
LEMMA HeldBy ==
    ASSUME SpecInv
    PROVE  /\ \A a \in tracker : a \in Arrays /\ Live(a)
           /\ \A t \in Threads : pc[t] # "idle" => on[t] \in Arrays /\ Live(on[t])
           /\ \A w \in Waiters : wpc[w] # "idle" => won[w] \in Arrays /\ Live(won[w])
<1> USE InsideNat DEF InsideFacts
<1>1. \A a \in tracker : a \in Arrays /\ Live(a)
    BY HeldLive DEF SpecInv, RestOK
<1>2. \A t \in Threads : pc[t] # "idle" => on[t] \in Arrays /\ Live(on[t])
    <2> SUFFICES ASSUME NEW t \in Threads, pc[t] # "idle"
                 PROVE  on[t] \in Arrays /\ Live(on[t])
        OBVIOUS
    <2>1. on[t] \in Arrays /\ t \in CallersOf(on[t])
        BY DEF SpecInv, InvOn, CallOK, RestOK, CallersOf
    <2> QED BY <2>1, HeldLive
<1>3. \A w \in Waiters : wpc[w] # "idle" => won[w] \in Arrays /\ Live(won[w])
    <2> SUFFICES ASSUME NEW w \in Waiters, wpc[w] # "idle"
                 PROVE  won[w] \in Arrays /\ Live(won[w])
        OBVIOUS
    <2>1. won[w] \in Arrays /\ w \in WaitersOf(won[w])
        BY DEF SpecInv, InvOn, WaitPart, RestOK, WaitersOf
    <2> QED BY <2>1, HeldLive
<1> QED BY <1>1, <1>2, <1>3

(* A call that does not move keeps its place on an array that is calm. *)
LEMMA CalmCall ==
    ASSUME SpecInv, NEW next, NEW t \in Threads,
           \A a \in Arrays : Calm(arr[a], next[a]),
           pc'[t] = pc[t], on'[t] = on[t], fds'[t] = fds[t]
    PROVE  CallOK(t, next)'
<1>1. CallOK(t, arr) /\ (pc[t] # "idle" => on[t] \in Arrays)
    BY HeldBy DEF SpecInv, InvOn
<1>2. CASE pc[t] = "idle"
    BY <1>1, <1>2 DEF CallOK
<1>3. CASE pc[t] # "idle"
    <2>1. PICK a \in Arrays : a = on[t]
        BY <1>1, <1>3
    <2>2. Calm(arr[a], next[a]) /\ CallOn(t, arr[a])
        BY <1>1, <1>3, <2>1 DEF CallOK
    <2>3. CallOn(t, next[a])'
        BY <2>2 DEF CallOn, Calm, OnlyDummies, NoDummy
    <2> QED BY <1>1, <1>3, <2>1, <2>3 DEF CallOK
<1> QED BY <1>2, <1>3

(* A step that leaves the fences of every array alone. *)
LEMMA CalmStep ==
    ASSUME SpecInv, NEW next \in [Arrays -> Records], Settle(next, 0), RestOK',
           \A a \in Arrays : Calm(arr[a], next[a]) /\ Sound(next[a], fsig'),
           \A a \in Arrays : Outside(next[a]) = Inside(a)',
           \A t \in Threads : CallOK(t, next)',
           ApartPart', WaitPart',
           \A t \in Threads : pc'[t] = "track" <=> pc[t] = "track",
           \A t \in Threads : pc[t] = "track" => on'[t] = on[t],
           \A t \in Threads : pc[t] = "error" =>
               (pc'[t] = "error" /\ on'[t] = on[t]) \/ next[on[t]].err,
           tracker' \subseteq tracker,
           \A a \in tracker : a \in tracker' \/ next[a].sig
    PROVE  SpecInv'
<1>1. Cardinality(Places(next)) = Cardinality(Places(arr)) - 0
    <2>1. Places(next) = Places(arr)
        BY SamePlaces DEF Calm
    <2>2. Cardinality(Places(arr)) \in Nat
        BY PlacesFinite
    <2> QED BY <2>1, <2>2
<1>2. TrackIn(arr) /\ BoundIn(arr) /\ LeavesIn(arr) /\ tracker \subseteq Arrays
    BY DEF SpecInv, InvOn, RestOK
<1>3. TrackIn(next)'
    BY <1>2 DEF TrackIn, Calm
<1>4. BoundIn(next)'
    <2> SUFFICES ASSUME NEW a \in Arrays, next[a].st = "live", next[a].bound
                 PROVE  \/ NoDummy(next[a]) \/ next[a].err
                        \/ \E t \in Threads : pc'[t] = "error" /\ on'[t] = a
        BY DEF BoundIn
    <2>1. Calm(arr[a], next[a])
        OBVIOUS
    <2>2. NoDummy(arr[a]) \/ arr[a].err \/ \E t \in Threads : pc[t] = "error" /\ on[t] = a
        BY <1>2, <2>1 DEF BoundIn, Calm
    <2>3. NoDummy(arr[a]) => NoDummy(next[a])
        BY <2>1 DEF NoDummy, Calm
    <2> QED BY <2>1, <2>2, <2>3 DEF Calm
<1>5. LeavesIn(next)'
    BY <1>2 DEF LeavesIn, Calm
<1>6. InvOn(next)'
    BY <1>3, <1>4, <1>5 DEF InvOn
<1> QED BY <1>1, <1>6, SettleStep

(* The calls, when none moves. *)
LEMMA CallersSame ==
    ASSUME SpecInv, UNCHANGED caller
    PROVE  /\ pc' \in [Threads -> Labels] /\ on' \in [Threads -> Arrays \cup {NoArray}]
           /\ fds' \in [Threads -> Seq(Fences \cup {BadFd})]
           /\ ApartPart'
           /\ \A a \in Arrays : CallersOf(a)' = CallersOf(a)
<1>1. UNCHANGED <<pc, on, fds>>
    BY DEF caller
<1>2. ApartPart'
    BY <1>1 DEF SpecInv, InvOn, ApartPart, Binding
<1>3. \A a \in Arrays : CallersOf(a)' = CallersOf(a)
    BY <1>1 DEF CallersOf
<1> QED BY <1>1, <1>2, <1>3 DEF SpecInv, RestOK

(* The waits, when none moves. *)
LEMMA WaitersSame ==
    ASSUME SpecInv, UNCHANGED waiter
    PROVE  /\ wpc' \in [Waiters -> {"idle", "sleep"}] /\ won' \in [Waiters -> Arrays \cup {NoArray}]
           /\ WaitPart'
           /\ \A a \in Arrays : WaitersOf(a)' = WaitersOf(a)
<1>1. UNCHANGED <<wpc, won>>
    BY DEF waiter
<1>2. WaitPart'
    BY <1>1 DEF SpecInv, InvOn, WaitPart
<1>3. \A a \in Arrays : WaitersOf(a)' = WaitersOf(a)
    BY <1>1 DEF WaitersOf
<1> QED BY <1>1, <1>2, <1>3 DEF SpecInv, RestOK

(* The calls, when one goes on inside a bind. *)
LEMMA GotoFrame ==
    ASSUME SpecInv, NEW t \in Threads, NEW l \in Labels, Goto(t, l),
           pc[t] \notin {"idle", "track"}, l \notin {"idle", "track"}
    PROVE  /\ pc' \in [Threads -> Labels] /\ on' \in [Threads -> Arrays \cup {NoArray}]
           /\ fds' \in [Threads -> Seq(Fences \cup {BadFd})]
           /\ ApartPart'
           /\ \A a \in Arrays : CallersOf(a)' = CallersOf(a)
           /\ pc'[t] = l /\ on'[t] = on[t] /\ fds'[t] = fds[t]
           /\ \A u \in Threads \ {t} : pc'[u] = pc[u] /\ on'[u] = on[u] /\ fds'[u] = fds[u]
           /\ \A u \in Threads : pc'[u] = "track" <=> pc[u] = "track"
           /\ \A u \in Threads : pc[u] = "track" => on'[u] = on[u]
<1>1. pc \in [Threads -> Labels]
    BY DEF SpecInv, RestOK
<1>2. pc' = [pc EXCEPT ![t] = l] /\ UNCHANGED <<on, fds>>
    BY DEF Goto
<1>3. ApartPart'
    BY <1>1, <1>2 DEF SpecInv, InvOn, ApartPart, Binding
<1>4. \A a \in Arrays : CallersOf(a)' = CallersOf(a)
    BY <1>1, <1>2 DEF CallersOf
<1> QED BY <1>1, <1>2, <1>3, <1>4 DEF SpecInv, RestOK

(* The calls, when one returns. *)
LEMMA ReturnFrame ==
    ASSUME SpecInv, NEW t \in Threads, Return(t), pc[t] # "idle"
    PROVE  /\ pc' \in [Threads -> Labels] /\ on' \in [Threads -> Arrays \cup {NoArray}]
           /\ fds' \in [Threads -> Seq(Fences \cup {BadFd})]
           /\ ApartPart'
           /\ \A a \in Arrays : CallersOf(a)' = CallersOf(a) \ {t}
           /\ \A a \in Arrays : t \in CallersOf(a) <=> a = on[t]
           /\ pc'[t] = "idle" /\ on'[t] = NoArray
           /\ \A u \in Threads \ {t} : pc'[u] = pc[u] /\ on'[u] = on[u] /\ fds'[u] = fds[u]
<1>1. /\ pc \in [Threads -> Labels] /\ on \in [Threads -> Arrays \cup {NoArray}]
      /\ fds \in [Threads -> Seq(Fences \cup {BadFd})]
    BY DEF SpecInv, RestOK
<1>2. /\ pc' = [pc EXCEPT ![t] = "idle"] /\ on' = [on EXCEPT ![t] = NoArray]
      /\ fds' = [fds EXCEPT ![t] = << >>]
    BY DEF Return
<1>3. /\ pc' \in [Threads -> Labels] /\ on' \in [Threads -> Arrays \cup {NoArray}]
    BY <1>1, <1>2 DEF Labels
<1>4. fds' \in [Threads -> Seq(Fences \cup {BadFd})]
    <2>1. << >> \in Seq(Fences \cup {BadFd})
        BY EmptySeq
    <2> QED BY <1>1, <1>2, <2>1
<1>5. /\ pc'[t] = "idle" /\ on'[t] = NoArray
      /\ \A u \in Threads \ {t} : pc'[u] = pc[u] /\ on'[u] = on[u] /\ fds'[u] = fds[u]
    BY <1>1, <1>2
<1>6. ApartPart'
    BY <1>5 DEF SpecInv, InvOn, ApartPart, Binding
<1>7. \A a \in Arrays : CallersOf(a)' = CallersOf(a) \ {t}
    BY <1>5 DEF CallersOf
<1>8. \A a \in Arrays : t \in CallersOf(a) <=> a = on[t]
    BY DEF CallersOf
<1> QED BY <1>3, <1>4, <1>5, <1>6, <1>7, <1>8

(* The calls, when one begins. *)
LEMMA EnterFrame ==
    ASSUME SpecInv, NEW t \in Threads, NEW a \in Arrays, NEW l \in Labels, l # "idle",
           pc[t] = "idle", pc' = [pc EXCEPT ![t] = l], on' = [on EXCEPT ![t] = a],
           NEW s \in Seq(Fences \cup {BadFd}), fds' = [fds EXCEPT ![t] = s],
           l # "track" => \A o \in Threads : pc[o] \notin {"idle", "track"} => on[o] # a,
           l = "track" => CallersOf(a) = {}
    PROVE  /\ pc' \in [Threads -> Labels] /\ on' \in [Threads -> Arrays \cup {NoArray}]
           /\ fds' \in [Threads -> Seq(Fences \cup {BadFd})]
           /\ ApartPart'
           /\ CallersOf(a)' = CallersOf(a) \cup {t} /\ t \notin CallersOf(a)
           /\ \A b \in Arrays \ {a} : CallersOf(b)' = CallersOf(b)
           /\ pc'[t] = l /\ on'[t] = a /\ fds'[t] = s
           /\ \A u \in Threads \ {t} : pc'[u] = pc[u] /\ on'[u] = on[u] /\ fds'[u] = fds[u]
<1>1. /\ pc \in [Threads -> Labels] /\ on \in [Threads -> Arrays \cup {NoArray}]
      /\ fds \in [Threads -> Seq(Fences \cup {BadFd})]
    BY DEF SpecInv, RestOK
<1>2. /\ pc' \in [Threads -> Labels] /\ on' \in [Threads -> Arrays \cup {NoArray}]
      /\ fds' \in [Threads -> Seq(Fences \cup {BadFd})]
    BY <1>1
<1>3. /\ pc'[t] = l /\ on'[t] = a /\ fds'[t] = s
      /\ \A u \in Threads \ {t} : pc'[u] = pc[u] /\ on'[u] = on[u] /\ fds'[u] = fds[u]
    BY <1>1
<1>4. ApartPart'
    <2> SUFFICES ASSUME NEW u \in Threads, NEW v \in Threads, u # v, on'[u] = on'[v]
                 PROVE  ~(Binding(u)' /\ Binding(v)') /\ ~(pc'[u] = "track" /\ pc'[v] = "track")
        BY DEF ApartPart
    <2>1. CASE u # t /\ v # t
        BY <1>3, <2>1 DEF SpecInv, InvOn, ApartPart, Binding
    <2>2. CASE u = t
        <3>1. on[v] = a /\ pc'[v] = pc[v]
            BY <1>3, <2>2
        <3>2. l # "track" => ~Binding(v)'
            BY <3>1 DEF Binding
        <3>3. l = "track" => pc'[v] = "idle"
            BY <3>1 DEF CallersOf
        <3> QED BY <1>3, <2>2, <3>2, <3>3 DEF Binding
    <2>3. CASE v = t
        <3>1. on[u] = a /\ pc'[u] = pc[u]
            BY <1>3, <2>3
        <3>2. l # "track" => ~Binding(u)'
            BY <3>1 DEF Binding
        <3>3. l = "track" => pc'[u] = "idle"
            BY <3>1 DEF CallersOf
        <3> QED BY <1>3, <2>3, <3>2, <3>3 DEF Binding
    <2> QED BY <2>1, <2>2, <2>3
<1>5. CallersOf(a)' = CallersOf(a) \cup {t} /\ t \notin CallersOf(a)
    BY <1>3 DEF CallersOf
<1>6. \A b \in Arrays \ {a} : CallersOf(b)' = CallersOf(b)
    BY <1>3 DEF CallersOf
<1> QED BY <1>2, <1>3, <1>4, <1>5, <1>6

(* A step that changes one array calmly, and nothing else. *)
LEMMA OneArray ==
    ASSUME SpecInv, NEW a \in Arrays, NEW r \in Records, Sound(r, fsig), Calm(arr[a], r),
           Outside(r) = Outside(arr[a]), Settle(Set(a, r), 0),
           UNCHANGED <<device, tracker, fsig, caller, waiter>>
    PROVE  SpecInv'
<1>1. PICK next : next = Set(a, r)
    OBVIOUS
<1>2. /\ next \in [Arrays -> Records] /\ arr \in [Arrays -> Records]
      /\ \A b \in Arrays : next[b] = IF b = a THEN r ELSE arr[b]
    BY <1>1, SetFacts DEF SpecInv
<1>3. Settle(next, 0)
    BY <1>1
<1>4. UNCHANGED <<avail, opens, tracker, fsig, pc, on, fds>>
    BY DEF device, caller
<1>5. \A b \in Arrays : Calm(arr[b], next[b]) /\ Sound(next[b], fsig')
    BY <1>2, <1>4, CalmSelf DEF SpecInv, InvOn
<1>6. \A b \in Arrays : Outside(next[b]) = Inside(b)'
    <2> SUFFICES ASSUME NEW b \in Arrays PROVE Outside(next[b]) = Inside(b)'
        OBVIOUS
    <2>1. Outside(next[b]) = Outside(arr[b])
        BY <1>2
    <2>2. Inside(b)' = Inside(b)
        BY <1>4, CallersSame, WaitersSame DEF Inside
    <2> QED BY <2>1, <2>2 DEF SpecInv, InvOn
<1>7. \A t \in Threads : CallOK(t, next)'
    BY <1>4, <1>5, CalmCall
<1>8. RestOK'
    BY <1>4, CallersSame, WaitersSame DEF SpecInv, RestOK
<1>9. ApartPart' /\ WaitPart'
    BY CallersSame, WaitersSame
<1> QED BY <1>2, <1>3, <1>4, <1>5, <1>6, <1>7, <1>8, <1>9, CalmStep
----------------------------------------------------------------------------
(* User space closes the fd of an array. *)
LEMMA CloseFdKeeps ==
    ASSUME SpecInv, NEW a \in Arrays, CloseFd(a)
    PROVE  SpecInv'
<1>1. /\ arr[a] \in Records /\ Sound(arr[a], fsig) /\ arr[a].st = "live" /\ arr[a].fd
    BY DEF SpecInv, InvOn, CloseFd, Live
<1>2. PICK r : r = [Put(arr[a]) EXCEPT !.fd = FALSE]
    OBVIOUS
<1>3. r \in Records /\ Sound(r, fsig) /\ Calm(arr[a], r) /\ Outside(r) = Outside(arr[a])
    BY <1>1, <1>2, CloseChange
<1> QED BY <1>2, <1>3, OneArray DEF CloseFd

(* Somebody waits on the fd of an array. *)
LEMMA PollFdKeeps ==
    ASSUME SpecInv, NEW a \in Arrays, PollFd(a)
    PROVE  SpecInv'
<1>1. /\ arr[a] \in Records /\ Sound(arr[a], fsig) /\ arr[a].st = "live"
    BY DEF SpecInv, InvOn, PollFd, Live
<1>2. PICK r : r = EnableSignaling(arr[a])
    OBVIOUS
<1>3. r \in Records /\ Sound(r, fsig) /\ Calm(arr[a], r) /\ Outside(r) = Outside(arr[a])
    BY <1>1, <1>2, EnableChange
<1> QED BY <1>2, <1>3, OneArray DEF PollFd

(* The deferred signal of an array is delivered. *)
LEMMA IrqWorkKeeps ==
    ASSUME SpecInv, NEW a \in Arrays, IrqWork(a)
    PROVE  SpecInv'
<1>1. /\ arr[a] \in Records /\ Sound(arr[a], fsig) /\ arr[a].irq
    BY DEF SpecInv, InvOn, IrqWork
<1>2. PICK r : r = Put([arr[a] EXCEPT !.irq = FALSE, !.sig = TRUE])
    OBVIOUS
<1>3. r \in Records /\ Sound(r, fsig) /\ Calm(arr[a], r) /\ Outside(r) = Outside(arr[a])
    BY <1>1, <1>2, IrqChange
<1> QED BY <1>2, <1>3, OneArray DEF IrqWork

(* A step that changes no array and no call: opening the device, and       *)
(* releasing it while other fds of it are open.                            *)
LEMMA QuietStep ==
    ASSUME SpecInv, avail' \in 0..MaxDevices, opens' \in 0..MaxOpens,
           UNCHANGED <<tracker, arr, dummyRef, fsig, caller, waiter>>
    PROVE  SpecInv'
<1>1. PICK next : next = arr
    OBVIOUS
<1>2. next \in [Arrays -> Records]
    BY <1>1 DEF SpecInv
<1>3. Settle(next, 0)
    BY <1>1, <1>2, SettleNothing
<1>4. UNCHANGED <<tracker, fsig, pc, on, fds>>
    BY DEF caller
<1>5. \A b \in Arrays : Calm(arr[b], next[b]) /\ Sound(next[b], fsig')
    BY <1>1, <1>2, <1>4, CalmSelf DEF SpecInv, InvOn
<1>6. \A b \in Arrays : Outside(next[b]) = Inside(b)'
    <2> SUFFICES ASSUME NEW b \in Arrays PROVE Outside(next[b]) = Inside(b)'
        OBVIOUS
    <2>1. Inside(b)' = Inside(b)
        BY <1>4, CallersSame, WaitersSame DEF Inside
    <2> QED BY <1>1, <2>1 DEF SpecInv, InvOn
<1>7. \A t \in Threads : CallOK(t, next)'
    BY <1>4, <1>5, CalmCall
<1>8. RestOK'
    BY <1>4, CallersSame, WaitersSame DEF SpecInv, RestOK
<1>9. ApartPart' /\ WaitPart'
    BY CallersSame, WaitersSame
<1> QED BY <1>2, <1>3, <1>4, <1>5, <1>6, <1>7, <1>8, <1>9, CalmStep

(* spec_sync_open. *)
LEMMA OpenKeeps ==
    ASSUME SpecInv, Open
    PROVE  SpecInv'
<1>1. avail' \in 0..MaxDevices /\ opens' \in 0..MaxOpens
    BY BoundsAssumption DEF SpecInv, RestOK, Open, HasRoom
<1> QED BY <1>1, QuietStep DEF Open

(* The last release empties the tracker under no call. *)
LEMMA ReleaseKeeps ==
    ASSUME SpecInv, Release
    PROVE  SpecInv'
<1>1. avail' \in 0..MaxDevices /\ opens' \in 0..MaxOpens /\ avail \in Nat
    BY BoundsAssumption DEF SpecInv, RestOK, Release
<1>2. CASE avail # 1
    BY <1>1, <1>2, QuietStep DEF Release
<1>3. CASE avail = 1
    <2>1. /\ ClearTracker(TRUE) /\ \A t \in Threads : pc[t] = "idle"
          /\ UNCHANGED <<opens, fsig, caller, waiter>>
        BY <1>3 DEF Release
    <2>2. PICK next : next = [a \in Arrays |-> IF a \in tracker THEN Cleared(arr[a], TRUE) ELSE arr[a]]
        OBVIOUS
    <2>3. Settle(next, 0) /\ tracker' = {}
        BY <2>1, <2>2 DEF ClearTracker
    <2>4. UNCHANGED <<fsig, pc, on, fds>>
        BY <2>1 DEF caller
    <2>5. \A a \in Arrays : /\ arr[a] \in Records /\ Sound(arr[a], fsig)
                            /\ Outside(arr[a]) = Inside(a)
                            /\ a \in tracker => arr[a].st = "live" /\ ~arr[a].forced
        BY HeldBy DEF SpecInv, InvOn, TrackIn, Live
    <2>6. \A a \in Arrays : next[a] = IF a \in tracker THEN Cleared(arr[a], TRUE) ELSE arr[a]
        BY <2>2
    <2>7. \A a \in Arrays :
            /\ next[a] \in Records /\ Sound(next[a], fsig)
            /\ Outside(next[a]) = Outside(arr[a]) - One(a \in tracker)
            /\ next[a].st = arr[a].st /\ next[a].kids = arr[a].kids /\ next[a].any = arr[a].any
            /\ next[a].bound = arr[a].bound /\ next[a].err = arr[a].err
            /\ a \in tracker /\ Asked(arr[a]) = 1 => next[a].sig
            /\ a \notin tracker => next[a] = arr[a]
        <3> SUFFICES ASSUME NEW a \in Arrays
                     PROVE  /\ next[a] \in Records /\ Sound(next[a], fsig)
                            /\ Outside(next[a]) = Outside(arr[a]) - One(a \in tracker)
                            /\ next[a].st = arr[a].st /\ next[a].kids = arr[a].kids
                            /\ next[a].any = arr[a].any
                            /\ next[a].bound = arr[a].bound /\ next[a].err = arr[a].err
                            /\ a \in tracker /\ Asked(arr[a]) = 1 => next[a].sig
                            /\ a \notin tracker => next[a] = arr[a]
            OBVIOUS
        <3>1. CASE a \in tracker
            <4>1. next[a] = Cleared(arr[a], TRUE) /\ One(a \in tracker) = 1
                BY <2>6, <3>1 DEF One
            <4>2. /\ arr[a] \in Records /\ Sound(arr[a], fsig)
                  /\ arr[a].st = "live" /\ ~arr[a].forced
                BY <2>5, <3>1
            <4> DEFINE q == Cleared(arr[a], TRUE)
            <4>3. /\ q \in Records /\ Sound(q, fsig)
                  /\ Outside(q) = Outside(arr[a]) - 1
                  /\ q.st = arr[a].st /\ q.kids = arr[a].kids
                  /\ q.any = arr[a].any /\ q.bound = arr[a].bound /\ q.err = arr[a].err
                  /\ Asked(arr[a]) = 1 => q.sig
                BY <4>2, ClearedChange
            <4>4. next[a] = q
                BY <4>1
            <4> HIDE DEF q
            <4> QED BY <3>1, <4>1, <4>3, <4>4
        <3>2. CASE a \notin tracker
            <4>1. next[a] = arr[a] /\ One(a \in tracker) = 0
                BY <2>6, <3>2 DEF One
            <4>2. Outside(arr[a]) \in Int
                BY <2>5, InsideNat DEF InsideFacts
            <4> QED BY <2>5, <3>2, <4>1, <4>2
        <3> QED BY <3>1, <3>2
    <2>8. next \in [Arrays -> Records]
        BY <2>2, <2>6, <2>7
    <2>9. RestOK'
        BY <1>1, <2>1, <2>3, <2>4, CallersSame, WaitersSame DEF SpecInv, RestOK
    <2>10. Cardinality(Places(next)) = Cardinality(Places(arr)) - 0
        <3>1. Places(next) = Places(arr)
            BY <2>7, SamePlaces
        <3> QED BY <3>1, PlacesFinite
    <2>11. \A a \in Arrays : Outside(next[a]) = Inside(a)'
        <3> SUFFICES ASSUME NEW a \in Arrays PROVE Outside(next[a]) = Inside(a)'
            OBVIOUS
        <3>1. /\ Cardinality(CallersOf(a)') = Cardinality(CallersOf(a))
              /\ Cardinality(WaitersOf(a)') = Cardinality(WaitersOf(a))
            BY <2>1, CallersSame, WaitersSame
        <3>2. One(a \in tracker') = 0 /\ One(a \in tracker) \in Int
            BY <2>3 DEF One
        <3>3. Cardinality(CallersOf(a)) \in Nat /\ Cardinality(WaitersOf(a)) \in Nat
            BY HeldCounts
        <3> QED BY <2>5, <2>7, <3>1, <3>2, <3>3 DEF Inside
    <2>12. \A t \in Threads : CallOK(t, next)'
        BY <2>1, <2>4 DEF SpecInv, InvOn, CallOK
    <2>13. TrackIn(next)'
        BY <2>3 DEF TrackIn
    <2>14. BoundIn(next)'
        <3>1. BoundIn(arr)
            BY DEF SpecInv, InvOn
        <3>2. \A a \in Arrays : NoDummy(next[a]) = NoDummy(arr[a])
            BY <2>7 DEF NoDummy
        <3> QED BY <2>1, <2>7, <3>1, <3>2 DEF BoundIn
    <2>15. LeavesIn(next)'
        <3>1. LeavesIn(arr)
            BY DEF SpecInv, InvOn
        <3>2. \A a \in Arrays : arr[a].any \/ Len(arr[a].kids) = 1 => Asked(arr[a]) = 1
            BY DEF Asked, InitialPending
        <3> QED BY <2>1, <2>4, <2>7, <3>1, <3>2 DEF LeavesIn
    <2>16. InvOn(next)'
        BY <2>1, <2>4, <2>7, <2>11, <2>12, <2>13, <2>14, <2>15, CallersSame, WaitersSame DEF InvOn
    <2> QED BY <2>3, <2>8, <2>9, <2>10, <2>16, SettleStep
<1> QED BY <1>2, <1>3

(* A step of a bind that changes its array calmly. *)
LEMMA BindMoves ==
    ASSUME SpecInv, NEW t \in Threads, NEW l \in Labels, Goto(t, l),
           pc[t] \notin {"idle", "track"}, l \notin {"idle", "track"},
           NEW a \in Arrays, a = on[t],
           NEW r \in Records, Sound(r, fsig), Calm(arr[a], r), Outside(r) = Outside(arr[a]),
           Settle(Set(a, r), 0), CallOn(t, r)', pc[t] = "error" => r.err,
           UNCHANGED <<device, tracker, fsig, waiter>>
    PROVE  SpecInv'
<1>1. PICK next : next = Set(a, r)
    OBVIOUS
<1>2. /\ next \in [Arrays -> Records] /\ arr \in [Arrays -> Records]
      /\ \A b \in Arrays : next[b] = IF b = a THEN r ELSE arr[b]
    BY <1>1, SetFacts DEF SpecInv
<1>3. Settle(next, 0)
    BY <1>1
<1>4. UNCHANGED <<avail, opens, tracker, fsig>>
    BY DEF device
<1>5. \A b \in Arrays : Calm(arr[b], next[b]) /\ Sound(next[b], fsig')
    BY <1>2, <1>4, CalmSelf DEF SpecInv, InvOn
<1>6. \A b \in Arrays : Outside(next[b]) = Inside(b)'
    <2> SUFFICES ASSUME NEW b \in Arrays PROVE Outside(next[b]) = Inside(b)'
        OBVIOUS
    <2>1. Outside(next[b]) = Outside(arr[b])
        BY <1>2
    <2>2. Inside(b)' = Inside(b)
        BY <1>4, GotoFrame, WaitersSame DEF Inside
    <2> QED BY <2>1, <2>2 DEF SpecInv, InvOn
<1>7. /\ pc'[t] = l /\ on'[t] = on[t] /\ fds'[t] = fds[t]
      /\ \A u \in Threads \ {t} : pc'[u] = pc[u] /\ on'[u] = on[u] /\ fds'[u] = fds[u]
      /\ \A u \in Threads : pc'[u] = "track" <=> pc[u] = "track"
      /\ \A u \in Threads : pc[u] = "track" => on'[u] = on[u]
    BY GotoFrame
<1>8. \A u \in Threads : CallOK(u, next)'
    <2>1. CallOK(t, next)'
        BY <1>2, <1>7, ArraysAssumption DEF CallOK
    <2>2. \A u \in Threads \ {t} : CallOK(u, next)'
        BY <1>5, <1>7, CalmCall
    <2> QED BY <2>1, <2>2
<1>9. RestOK'
    BY <1>4, GotoFrame, WaitersSame DEF SpecInv, RestOK
<1>10. ApartPart' /\ WaitPart'
    BY GotoFrame, WaitersSame
<1>11. \A u \in Threads : pc[u] = "error" =>
           (pc'[u] = "error" /\ on'[u] = on[u]) \/ next[on[u]].err
    BY <1>2, <1>7
<1> QED BY <1>2, <1>3, <1>4, <1>5, <1>6, <1>7, <1>8, <1>9, <1>10, <1>11, CalmStep

(* What a thread inside a bind knows. *)
LEMMA BindFacts ==
    ASSUME SpecInv, NEW t \in Threads, pc[t] # "idle"
    PROVE  /\ on[t] \in Arrays /\ arr[on[t]] \in Records /\ arr[on[t]].st = "live"
           /\ Sound(arr[on[t]], fsig) /\ CallOn(t, arr[on[t]])
           /\ Set(on[t], arr[on[t]]) = arr
<1>1. on[t] \in Arrays /\ Live(on[t])
    BY HeldBy
<1>2. /\ arr \in [Arrays -> Records] /\ Sound(arr[on[t]], fsig) /\ CallOn(t, arr[on[t]])
    BY <1>1 DEF SpecInv, InvOn, CallOK
<1> QED BY <1>1, <1>2 DEF Live, Set

(* A step of a bind that changes nothing but where it is. *)
LEMMA BindLooks ==
    ASSUME SpecInv, NEW t \in Threads, NEW l \in Labels, Goto(t, l),
           pc[t] \notin {"idle", "track", "error"}, l \notin {"idle", "track"},
           NEW a \in Arrays, a = on[t], NEW r, r = arr[a], CallOn(t, r)',
           UNCHANGED <<device, tracker, arr, dummyRef, fsig, waiter>>
    PROVE  SpecInv'
<1>1. r \in Records /\ Sound(r, fsig) /\ Set(a, r) = arr /\ Calm(arr[a], r)
    BY BindFacts, CalmSelf
<1>2. PICK next : next = arr
    OBVIOUS
<1>3. next \in [Arrays -> Records]
    BY <1>2 DEF SpecInv
<1>4. Settle(next, 0)
    BY <1>2, <1>3, SettleNothing
<1>5. Settle(Set(a, r), 0)
    BY <1>1, <1>2, <1>4
<1> QED BY <1>1, <1>5, BindMoves

(* sanitize_fence_array: an array in the tracker was not forced. *)
LEMMA SanitizeKeeps ==
    ASSUME SpecInv, NEW t \in Threads, Sanitize(t)
    PROVE  SpecInv'
<1>1. /\ on[t] \in Arrays /\ CallOn(t, arr[on[t]])
    BY BindFacts DEF Sanitize
<1>0. PICK a \in Arrays : a = on[t]
    BY <1>1
<1>2. PICK r : a = on[t] /\ r = arr[a]
    BY <1>0
<1>3. PICK l \in Labels : /\ Goto(t, l) /\ l \in {"children", "put"}
                          /\ l = "children" => on[t] \in tracker
    BY DEF Sanitize, Labels
<1>4. pc[t] = "sanitize" /\ UNCHANGED <<device, tracker, arr, dummyRef, fsig, waiter>>
    BY DEF Sanitize
<1>5. pc'[t] = l /\ fds'[t] = fds[t]
    BY <1>3, <1>4, GotoFrame
<1>6. CallOn(t, r)'
    <2>1. CallOn(t, r) /\ (l = "children" => ~r.forced)
        BY <1>1, <1>2, <1>3 DEF SpecInv, InvOn, TrackIn
    <2> QED BY <1>3, <1>4, <1>5, <2>1 DEF CallOn
<1> QED BY <1>2, <1>3, <1>4, <1>6, BindLooks

(* A bind goes on to replace only if all children are the dummy. *)
LEMMA CheckChildrenKeeps ==
    ASSUME SpecInv, NEW t \in Threads, CheckChildren(t)
    PROVE  SpecInv'
<1>1. /\ on[t] \in Arrays /\ CallOn(t, arr[on[t]]) /\ arr[on[t]] \in Records
    BY BindFacts DEF CheckChildren
<1>2. PICK a \in Arrays, r \in Records : a = on[t] /\ r = arr[a]
    BY <1>1
<1>3. PICK l \in Labels : /\ Goto(t, l) /\ l \in {"replace", "put"}
                          /\ l = "replace" => AllDummies(r)
    BY <1>2 DEF CheckChildren, Labels
<1>4. pc[t] = "children" /\ UNCHANGED <<device, tracker, arr, dummyRef, fsig, waiter>>
    BY DEF CheckChildren
<1>5. pc'[t] = l /\ fds'[t] = fds[t]
    BY <1>3, <1>4, GotoFrame
<1>6. CallOn(t, r)'
    <2>1. CallOn(t, r) /\ (l = "replace" => OnlyDummies(r))
        BY <1>1, <1>2, <1>3, DummyCounts
    <2> QED BY <1>3, <1>4, <1>5, <2>1 DEF CallOn
<1> QED BY <1>2, <1>3, <1>4, <1>6, BindLooks

(* A bind that replaced every child asks for its signal. *)
LEMMA EnableKeeps ==
    ASSUME SpecInv, NEW t \in Threads, Enable(t)
    PROVE  SpecInv'
<1>1. /\ on[t] \in Arrays /\ CallOn(t, arr[on[t]]) /\ arr[on[t]] \in Records
      /\ arr[on[t]].st = "live" /\ Sound(arr[on[t]], fsig)
    BY BindFacts DEF Enable
<1>0. PICK a \in Arrays : a = on[t]
    BY <1>1
<1>2. PICK r : a = on[t] /\ r = EnableSignaling(arr[a])
    BY <1>0
<1>3. r \in Records /\ Sound(r, fsig) /\ Calm(arr[a], r) /\ Outside(r) = Outside(arr[a])
    BY <1>1, <1>2, EnableChange
<1>4. /\ pc[t] = "enable" /\ Goto(t, "clear") /\ UNCHANGED <<device, tracker, fsig, waiter>>
      /\ Settle(Set(a, r), 0) /\ "clear" \in Labels
    BY <1>2 DEF Enable, Labels
<1>5. pc'[t] = "clear" /\ fds'[t] = fds[t]
    BY <1>4, GotoFrame
<1>6. CallOn(t, r)'
    <2>1. NoDummy(arr[a]) /\ ~arr[a].forced
        BY <1>1, <1>2, <1>4 DEF CallOn
    <2>2. NoDummy(r) /\ ~r.forced
        BY <1>3, <2>1 DEF NoDummy, Calm
    <2> QED BY <1>5, <2>2 DEF CallOn
<1> QED BY <1>2, <1>3, <1>4, <1>6, BindMoves

(* A flag of an array is set without a reference changing hands. *)
LEMMA SetFlag ==
    ASSUME SpecInv, NEW a \in Arrays, NEW r \in Records,
           r.st = arr[a].st, r.refs = arr[a].refs, arr' = Set(a, r), UNCHANGED dummyRef
    PROVE  Settle(Set(a, r), 0)
<1>1. PICK next : next = Set(a, r)
    OBVIOUS
<1>2. /\ next \in [Arrays -> Records]
      /\ \A b \in Arrays : next[b] = IF b = a THEN r ELSE arr[b]
    BY <1>1, SetFacts DEF SpecInv
<1>3. Settle(next, 0)
    BY <1>1, <1>2, SettleNothing
<1> QED BY <1>1, <1>3

(* A failed bind sets its error, which ends the window of BoundIn. *)
LEMMA SetErrorKeeps ==
    ASSUME SpecInv, NEW t \in Threads, SetError(t)
    PROVE  SpecInv'
<1>1. /\ on[t] \in Arrays /\ CallOn(t, arr[on[t]]) /\ arr[on[t]] \in Records
      /\ arr[on[t]].st = "live" /\ Sound(arr[on[t]], fsig)
    BY BindFacts DEF SetError
<1>0. PICK a \in Arrays : a = on[t]
    BY <1>1
<1>2. PICK r : a = on[t] /\ r = [arr[a] EXCEPT !.err = TRUE]
    BY <1>0
<1>3. r \in Records /\ Sound(r, fsig) /\ Calm(arr[a], r) /\ Outside(r) = Outside(arr[a])
    BY <1>1, <1>2, FlagChanges
<1>4. /\ pc[t] = "error" /\ Goto(t, "signal") /\ UNCHANGED <<device, tracker, fsig, waiter>>
      /\ "signal" \in Labels /\ UNCHANGED dummyRef
    BY DEF SetError, Labels
<1>5. r.err /\ r.st = arr[a].st /\ r.refs = arr[a].refs
    BY <1>1, <1>2 DEF Records
<1>6. arr' = Set(a, r)
    BY <1>2 DEF SetError, Set
<1>7. Settle(Set(a, r), 0)
    BY <1>3, <1>4, <1>5, <1>6, SetFlag
<1>8. pc'[t] = "signal" /\ fds'[t] = fds[t]
    BY <1>4, GotoFrame
<1>9. CallOn(t, r)'
    <2>1. ~r.forced
        BY <1>1, <1>2, <1>3, <1>4 DEF CallOn, Calm
    <2> QED BY <1>5, <1>8, <2>1 DEF CallOn
<1> QED BY <1>2, <1>3, <1>4, <1>5, <1>7, <1>9, BindMoves

(* A failed bind signals, with its error set. *)
LEMMA SignalArrayKeeps ==
    ASSUME SpecInv, NEW t \in Threads, SignalArray(t)
    PROVE  SpecInv'
<1>1. /\ on[t] \in Arrays /\ CallOn(t, arr[on[t]]) /\ arr[on[t]] \in Records
      /\ arr[on[t]].st = "live" /\ Sound(arr[on[t]], fsig)
    BY BindFacts DEF SignalArray
<1>0. PICK a \in Arrays : a = on[t]
    BY <1>1
<1>2. PICK r : a = on[t] /\ r = [arr[a] EXCEPT !.sig = TRUE]
    BY <1>0
<1>3. /\ pc[t] = "signal" /\ Goto(t, "clear") /\ UNCHANGED <<device, tracker, fsig, waiter>>
      /\ "clear" \in Labels /\ UNCHANGED dummyRef
    BY DEF SignalArray, Labels
<1>4. arr[a].err /\ ~arr[a].forced
    BY <1>1, <1>2, <1>3 DEF CallOn
<1>5. r \in Records /\ Sound(r, fsig) /\ Calm(arr[a], r) /\ Outside(r) = Outside(arr[a])
    BY <1>1, <1>2, <1>4, FlagChanges
<1>6. r.st = arr[a].st /\ r.refs = arr[a].refs
    BY <1>1, <1>2 DEF Records
<1>7. arr' = Set(a, r)
    BY <1>2 DEF SignalArray, Set
<1>8. Settle(Set(a, r), 0)
    BY <1>3, <1>5, <1>6, <1>7, SetFlag
<1>9. pc'[t] = "clear" /\ fds'[t] = fds[t]
    BY <1>3, GotoFrame
<1>10. CallOn(t, r)'
    <2>1. r.err /\ ~r.forced
        BY <1>4, <1>5 DEF Calm
    <2> QED BY <1>9, <2>1 DEF CallOn
<1> QED BY <1>2, <1>3, <1>5, <1>8, <1>10, BindMoves

(* Sanitizing and replacing aside, a bind that works on its array alone.   *)
(* The array may get other fences and be marked bound.                     *)
LEMMA BindChanges ==
    ASSUME SpecInv, NEW t \in Threads, NEW l \in Labels, Goto(t, l),
           pc[t] \notin {"idle", "track", "error"}, l \notin {"idle", "track"},
           NEW a \in Arrays, a = on[t],
           NEW r \in Records, Sound(r, fsig), Outside(r) = Outside(arr[a]),
           NEW n \in Int, Settle(Set(a, r), n),
           Cardinality(Places(Set(a, r))) = Cardinality(Places(arr)) - n,
           CallOn(t, r)', r.st = "live",
           r.sig = arr[a].sig, r.any = arr[a].any, Len(r.kids) = Len(arr[a].kids),
           r.forced = arr[a].forced, r.bound => NoDummy(r) \/ r.err \/ l = "error",
           UNCHANGED <<device, tracker, fsig, waiter>>
    PROVE  SpecInv'
<1>1. PICK next : next = Set(a, r)
    OBVIOUS
<1>2. /\ next \in [Arrays -> Records] /\ arr \in [Arrays -> Records]
      /\ \A b \in Arrays : next[b] = IF b = a THEN r ELSE arr[b]
    BY <1>1, SetFacts DEF SpecInv
<1>3. Settle(next, n) /\ Cardinality(Places(next)) = Cardinality(Places(arr)) - n
    BY <1>1
<1>4. UNCHANGED <<avail, opens, tracker, fsig>>
    BY DEF device
<1>5. \A b \in Arrays : Sound(next[b], fsig')
    BY <1>2, <1>4 DEF SpecInv, InvOn
<1>6. \A b \in Arrays : Outside(next[b]) = Inside(b)'
    <2> SUFFICES ASSUME NEW b \in Arrays PROVE Outside(next[b]) = Inside(b)'
        OBVIOUS
    <2>1. Outside(next[b]) = Outside(arr[b])
        BY <1>2
    <2>2. Inside(b)' = Inside(b)
        BY <1>4, GotoFrame, WaitersSame DEF Inside
    <2> QED BY <2>1, <2>2 DEF SpecInv, InvOn
<1>7. /\ pc'[t] = l /\ on'[t] = on[t] /\ fds'[t] = fds[t]
      /\ \A u \in Threads \ {t} : pc'[u] = pc[u] /\ on'[u] = on[u] /\ fds'[u] = fds[u]
      /\ \A u \in Threads : pc'[u] = "track" <=> pc[u] = "track"
      /\ \A u \in Threads : pc[u] = "track" => on'[u] = on[u]
    BY GotoFrame
<1>8. \A u \in Threads : CallOK(u, next)'
    <2>1. CallOK(t, next)'
        BY <1>2, <1>7, ArraysAssumption DEF CallOK
    <2>2. ASSUME NEW u \in Threads, u # t PROVE CallOK(u, next)'
        <3>1. CallOK(u, arr)
            BY DEF SpecInv, InvOn
        <3>2. CASE pc[u] = "idle"
            BY <1>7, <2>2, <3>1, <3>2 DEF CallOK
        <3>3. CASE pc[u] # "idle" /\ on[u] = a
            <4>1. pc[u] = "track"
                BY <2>2, <3>3 DEF SpecInv, InvOn, ApartPart, Binding
            <4>2. ~arr[a].forced
                BY <3>1, <3>3, <4>1 DEF CallOK, CallOn
            <4>3. CallOn(u, r)'
                BY <1>7, <2>2, <4>1, <4>2 DEF CallOn
            <4> QED BY <1>2, <1>7, <2>2, <3>1, <3>3, <4>3 DEF CallOK
        <3>4. CASE pc[u] # "idle" /\ on[u] # a
            <4>1. PICK b \in Arrays : b = on[u]
                BY <3>4, HeldBy
            <4>2. CallOn(u, arr[b]) /\ next[b] = arr[b]
                BY <1>2, <3>1, <3>4, <4>1 DEF CallOK
            <4>3. PICK q : q = arr[b]
                OBVIOUS
            <4>4. CallOn(u, q)'
                BY <1>7, <2>2, <4>2, <4>3 DEF CallOn
            <4> QED BY <1>7, <2>2, <3>1, <3>4, <4>1, <4>2, <4>3, <4>4 DEF CallOK
        <3> QED BY <3>2, <3>3, <3>4
    <2> QED BY <2>1, <2>2
<1>9. RestOK' /\ ApartPart' /\ WaitPart'
    BY <1>4, GotoFrame, WaitersSame DEF SpecInv, RestOK
<1>10. TrackIn(next)'
    BY <1>2, <1>4, <1>7 DEF SpecInv, InvOn, TrackIn, RestOK
<1>11. BoundIn(next)'
    <2> SUFFICES ASSUME NEW b \in Arrays, next[b].st = "live", next[b].bound
                 PROVE  \/ NoDummy(next[b]) \/ next[b].err
                        \/ \E u \in Threads : pc'[u] = "error" /\ on'[u] = b
        BY DEF BoundIn
    <2>1. CASE b = a
        BY <1>2, <1>7, <2>1
    <2>2. CASE b # a
        BY <1>2, <1>7, <2>2 DEF SpecInv, InvOn, BoundIn
    <2> QED BY <2>1, <2>2
<1>12. LeavesIn(next)'
    <2>1. arr[a].st = "live"
        BY BindFacts
    <2> QED BY <1>2, <1>4, <1>7, <2>1 DEF SpecInv, InvOn, LeavesIn
<1>13. InvOn(next)'
    BY <1>5, <1>6, <1>8, <1>9, <1>10, <1>11, <1>12 DEF InvOn
<1> QED BY <1>2, <1>3, <1>9, <1>13, SettleStep

(* A bind that succeeded marks an array without dummies bound. *)
LEMMA SetBoundKeeps ==
    ASSUME SpecInv, NEW t \in Threads, SetBound(t)
    PROVE  SpecInv'
<1>1. /\ on[t] \in Arrays /\ CallOn(t, arr[on[t]]) /\ arr[on[t]] \in Records
      /\ arr[on[t]].st = "live" /\ Sound(arr[on[t]], fsig)
    BY BindFacts DEF SetBound
<1>0. PICK a \in Arrays : a = on[t]
    BY <1>1
<1>2. PICK r : a = on[t] /\ r = [arr[a] EXCEPT !.bound = TRUE]
    BY <1>0
<1>3. r \in Records /\ Sound(r, fsig) /\ Outside(r) = Outside(arr[a])
    BY <1>1, <1>2, FlagChanges
<1>4. /\ pc[t] = "bound" /\ Goto(t, "put") /\ UNCHANGED <<device, tracker, fsig, waiter>>
      /\ "put" \in Labels /\ UNCHANGED dummyRef
    BY DEF SetBound, Labels
<1>5. /\ r.st = arr[a].st /\ r.refs = arr[a].refs /\ r.kids = arr[a].kids /\ r.sig = arr[a].sig
      /\ r.any = arr[a].any /\ r.forced = arr[a].forced
    BY <1>1, <1>2 DEF Records
<1>6. NoDummy(r)
    BY <1>1, <1>2, <1>4, <1>5 DEF CallOn, NoDummy
<1>7. arr' = Set(a, r)
    BY <1>2 DEF SetBound, Set
<1>8. Settle(Set(a, r), 0)
    BY <1>3, <1>4, <1>5, <1>7, SetFlag
<1>9. Cardinality(Places(Set(a, r))) = Cardinality(Places(arr)) - 0
    <2>1. \A b \in Arrays : Set(a, r)[b] = IF b = a THEN r ELSE arr[b]
        BY <1>3, SetFacts DEF SpecInv
    <2>2. \A b \in Arrays : Set(a, r)[b].st = arr[b].st /\ Set(a, r)[b].kids = arr[b].kids
        BY <1>5, <2>1
    <2>3. Places(Set(a, r)) = Places(arr)
        BY <2>2, SamePlaces
    <2>4. Cardinality(Places(arr)) \in Nat
        BY PlacesFinite
    <2> QED BY <2>3, <2>4
<1>10. pc'[t] = "put" /\ fds'[t] = fds[t]
    BY <1>4, GotoFrame
<1>11. CallOn(t, r)'
    BY <1>10 DEF CallOn
<1>12. r.st = "live" /\ Len(r.kids) = Len(arr[a].kids)
    BY <1>1, <1>2, <1>5
<1>13. PICK n \in Int, l \in Labels : n = 0 /\ l = "put"
    BY <1>4
<1>14. /\ Settle(Set(a, r), n) /\ Cardinality(Places(Set(a, r))) = Cardinality(Places(arr)) - n
      /\ Goto(t, l) /\ l \notin {"idle", "track"} /\ pc[t] \notin {"idle", "track", "error"}
    BY <1>4, <1>8, <1>9, <1>13
<1>15. a = on[t] /\ UNCHANGED <<device, tracker, fsig, waiter>>
    BY <1>2, <1>4
<1> HIDE DEF SpecInv
<1> QED BY <1>3, <1>5, <1>6, <1>11, <1>12, <1>14, <1>15, BindChanges

(* How many children a bind replaces. *)
LEMMA ReplacedFacts ==
    ASSUME NEW t \in Threads, fds[t] \in Seq(Fences \cup {BadFd})
    PROVE  /\ Replaced(t) \in 0..Len(fds[t])
           /\ \A i \in 1..Replaced(t) : fds[t][i] \in Fences
           /\ (\A i \in 1..Len(fds[t]) : fds[t][i] # BadFd) => Replaced(t) = Len(fds[t])
<1> DEFINE bad == {i \in 1..Len(fds[t]) : fds[t][i] = BadFd}
           least == CHOOSE i \in bad : \A j \in bad : i <= j
<1>1. Len(fds[t]) \in Nat /\ \A i \in 1..Len(fds[t]) : fds[t][i] \in Fences \cup {BadFd}
    OBVIOUS
<1>2. bad \in SUBSET Nat /\ bad \subseteq 1..Len(fds[t])
    BY <1>1
<1>3. \A i \in (1..Len(fds[t])) \ bad : fds[t][i] \in Fences
    BY <1>1
<1>4. Replaced(t) = IF bad = {} THEN Len(fds[t]) ELSE least - 1
    BY DEF Replaced
<1>5. (\A i \in 1..Len(fds[t]) : fds[t][i] # BadFd) => bad = {}
    OBVIOUS
<1> HIDE DEF bad
<1>6. CASE bad = {}
    BY <1>1, <1>3, <1>4, <1>6
<1>7. CASE bad # {}
    <2>1. \E i \in bad : \A j \in bad : i <= j
        BY <1>2, <1>7, LeastNatural
    <2>2. least \in bad /\ \A j \in bad : least <= j
        BY <2>1
    <2> HIDE DEF least
    <2>3. Replaced(t) = least - 1 /\ least \in 1..Len(fds[t])
        BY <1>2, <1>4, <1>7, <2>2
    <2>4. \A i \in 1..(least - 1) : i \in (1..Len(fds[t])) \ bad
        BY <1>1, <2>2, <2>3
    <2> QED BY <1>1, <1>3, <1>5, <1>7, <2>3, <2>4
<1> QED BY <1>6, <1>7

(* Replacing n dummies of an array takes n places from the dummy. *)
LEMMA ReplacePlaces ==
    ASSUME arr \in [Arrays -> Records], NEW a \in Arrays, arr[a].st = "live",
           OnlyDummies(arr[a]), Len(arr[a].kids) <= MaxFences,
           NEW n \in 0..Len(arr[a].kids), NEW r \in Records, r.st = "live",
           Len(r.kids) = Len(arr[a].kids),
           \A i \in 1..n : r.kids[i] # Dummy,
           \A i \in (n + 1)..Len(r.kids) : r.kids[i] = Dummy
    PROVE  Cardinality(Places(Set(a, r))) = Cardinality(Places(arr)) - n
<1> DEFINE P == Places(arr)
           Q == {a} \X (1..n)
<1>1. \A b \in Arrays : Set(a, r)[b] = IF b = a THEN r ELSE arr[b]
    BY SetFacts
<1>2. Len(arr[a].kids) \in Nat /\ n \in Nat
    BY DEF Records
<1>3. Places(Set(a, r)) = P \ Q
    BY <1>1, <1>2, BoundsAssumption DEF Places, OnlyDummies
<1>4. Q \in SUBSET P
    BY <1>2, BoundsAssumption DEF Places, OnlyDummies
<1>5. Cardinality(Q) = n
    <2>1. IsFiniteSet(1..n) /\ Cardinality(1..n) = n
        BY <1>2, FS_Interval
    <2>2. IsFiniteSet({a}) /\ Cardinality({a}) = 1
        BY FS_Singleton
    <2>3. Cardinality(Q) = Cardinality({a}) * Cardinality(1..n)
        BY <2>1, <2>2, FS_Product
    <2> QED BY <1>2, <2>1, <2>2, <2>3
<1>6. IsFiniteSet(P)
    BY PlacesFinite
<1> HIDE DEF P, Q
<1>7. Cardinality(P \ Q) = Cardinality(P) - Cardinality(P \cap Q)
    BY <1>6, FS_Difference
<1>8. P \cap Q = Q
    BY <1>4
<1> QED BY <1>3, <1>5, <1>7, <1>8 DEF P

(* Both ways a replace ends. *)
LEMMA ReplaceKeeps ==
    ASSUME SpecInv, NEW t \in Threads, Replace(t)
    PROVE  SpecInv'
<1>1. pc[t] = "replace" /\ UNCHANGED <<device, tracker, fsig, waiter>>
    BY DEF Replace
<1>2. /\ on[t] \in Arrays /\ CallOn(t, arr[on[t]]) /\ arr[on[t]] \in Records
      /\ arr[on[t]].st = "live" /\ Sound(arr[on[t]], fsig)
    BY <1>1, BindFacts
<1>3. PICK a \in Arrays, r \in Records, s \in Seq(Fences \cup {BadFd}), n \in Int :
          a = on[t] /\ r = arr[a] /\ s = fds[t] /\ n = Replaced(t)
    <2>1. fds[t] \in Seq(Fences \cup {BadFd})
        BY DEF SpecInv, RestOK
    <2>2. Replaced(t) \in Int
        BY <2>1, ReplacedFacts
    <2> QED BY <1>2, <2>1, <2>2
<1>4. PICK k : k = [i \in 1..Len(r.kids) |-> IF i <= n THEN s[i] ELSE r.kids[i]]
    OBVIOUS
<1>5. /\ OnlyDummies(r) /\ Len(s) = Len(r.kids) /\ ~r.forced /\ Len(r.kids) \in 1..MaxFences
      /\ NoDummy(r) \/ (r.en /\ r.cbs = {})
      /\ Sound(r, fsig) /\ r.st = "live" /\ Len(r.kids) \in Nat
    BY <1>1, <1>2, <1>3 DEF CallOn, Sound, Records
<1>6. /\ n \in 0..Len(r.kids) /\ \A i \in 1..n : s[i] \in Fences
      /\ (\A i \in 1..Len(s) : s[i] # BadFd) => n = Len(r.kids)
    BY <1>3, <1>5, ReplacedFacts
<1>7. \A i \in 1..Len(r.kids) : k[i] = IF i <= n THEN s[i] ELSE Dummy
    BY <1>4, <1>5 DEF OnlyDummies
<1>8. k \in Seq(Fences \cup {Dummy}) /\ Len(k) = Len(r.kids)
    <2>1. \A i \in 1..Len(r.kids) : k[i] \in Fences \cup {Dummy}
        BY <1>5, <1>6, <1>7
    <2>2. k \in [1..Len(r.kids) -> Fences \cup {Dummy}]
        BY <1>4, <2>1
    <2> QED BY <1>5, <2>2
<1>9. /\ \A i \in 1..n : k[i] # Dummy
      /\ \A i \in (n + 1)..Len(k) : k[i] = Dummy
    BY <1>5, <1>6, <1>7, <1>8, FencesAssumption
<1>10. r.en
    BY <1>5 DEF NoDummy, OnlyDummies
<1>21. PICK l \in Labels :
         /\ l \in {"enable", "error"} /\ Goto(t, l)
         /\ l = "enable" => /\ n = Len(r.kids)
                            /\ Settle(Set(a, Rearmed([r EXCEPT !.kids = k])), n)
         /\ l = "error" => Settle(Set(a, [r EXCEPT !.kids = k, !.bound = TRUE]), n)
    <2>1. "enable" \in Labels /\ "error" \in Labels
        BY DEF Labels
    <2>2. CASE \A i \in 1..Len(s) : s[i] # BadFd
        <3>1. Goto(t, "enable") /\ Settle(Set(a, Rearmed([r EXCEPT !.kids = k])), n)
            BY <1>3, <1>4, <2>2 DEF Replace, DummiesPut
        <3> QED BY <1>6, <2>1, <2>2, <3>1
    <2>3. CASE ~(\A i \in 1..Len(s) : s[i] # BadFd)
        <3>1. Goto(t, "error") /\ Settle(Set(a, [r EXCEPT !.kids = k, !.bound = TRUE]), n)
            BY <1>3, <1>4, <2>3 DEF Replace, DummiesPut
        <3> QED BY <2>1, <3>1
    <2> QED BY <2>2, <2>3
<1>11. PICK q : /\ Settle(Set(a, q), n)
                /\ \/ l = "enable" /\ n = Len(r.kids) /\ q = Rearmed([r EXCEPT !.kids = k])
                   \/ l = "error" /\ q = [r EXCEPT !.kids = k, !.bound = TRUE]
    BY <1>21
<1>12. /\ q \in Records /\ q.st = r.st /\ q.any = r.any /\ q.kids = k /\ q.pending = r.pending
       /\ q.refs = r.refs /\ q.fd = r.fd /\ q.sig = r.sig /\ q.err = r.err /\ q.cbs = r.cbs
       /\ q.irq = r.irq /\ q.forced = r.forced
    <2>1. CASE q = Rearmed([r EXCEPT !.kids = k])
        BY <1>8, <2>1 DEF Rearmed, Records
    <2>2. CASE q = [r EXCEPT !.kids = k, !.bound = TRUE]
        BY <1>8, <2>2 DEF Records
    <2> QED BY <1>11, <2>1, <2>2
<1>13. l = "enable" => NoDummy(q)
    BY <1>8, <1>9, <1>11, <1>12 DEF NoDummy
<1>14. l = "error" => q.en
    BY <1>10, <1>11 DEF Records
<1>15. Sound(q, fsig) /\ Outside(q) = Outside(r)
    <2>1. fsig \in SUBSET Fences
        BY DEF SpecInv, RestOK
    <2>2. NoDummy(q) \/ q.en
        BY <1>11, <1>13, <1>14
    <2> QED BY <1>5, <1>6, <1>8, <1>12, <2>1, <2>2, ReplaceChange
<1>16. Cardinality(Places(Set(a, q))) = Cardinality(Places(arr)) - n
    <2>1. Len(r.kids) <= MaxFences
        BY <1>5, BoundsAssumption
    <2>2. arr \in [Arrays -> Records]
        BY DEF SpecInv
    <2>3. /\ arr[a].st = "live" /\ OnlyDummies(arr[a]) /\ Len(arr[a].kids) <= MaxFences
          /\ n \in 0..Len(arr[a].kids) /\ q \in Records /\ q.st = "live"
          /\ Len(q.kids) = Len(arr[a].kids)
        BY <1>3, <1>5, <1>6, <1>8, <1>12, <2>1
    <2>4. /\ \A i \in 1..n : q.kids[i] # Dummy
          /\ \A i \in (n + 1)..Len(q.kids) : q.kids[i] = Dummy
        BY <1>9, <1>12
    <2> HIDE DEF Records, OnlyDummies
    <2> QED BY <2>2, <2>3, <2>4, ReplacePlaces
<1>17. pc'[t] = l /\ l \in {"enable", "error"}
    BY <1>1, <1>21, GotoFrame
<1>18. CallOn(t, q)'
    BY <1>5, <1>12, <1>13, <1>17 DEF CallOn
<1>19. /\ q.bound => NoDummy(q) \/ q.err \/ l = "error"
       /\ l \notin {"idle", "track"} /\ pc[t] \notin {"idle", "track", "error"}
    BY <1>1, <1>13, <1>17
<1>20. /\ q.st = "live" /\ Outside(q) = Outside(arr[a]) /\ q.sig = arr[a].sig /\ q.any = arr[a].any
       /\ Len(q.kids) = Len(arr[a].kids) /\ q.forced = arr[a].forced /\ a = on[t]
    BY <1>3, <1>5, <1>8, <1>12, <1>15
<1> QED BY <1>1, <1>11, <1>12, <1>15, <1>16, <1>18, <1>19, <1>20, <1>21, BindChanges
----------------------------------------------------------------------------
(* After a bind the signaled arrays leave the tracker. *)
LEMMA ClearKeeps ==
    ASSUME SpecInv, NEW t \in Threads, Clear(t)
    PROVE  SpecInv'
<1>1. /\ pc[t] = "clear" /\ ClearTracker(FALSE)
      /\ UNCHANGED <<avail, opens, fsig>> /\ UNCHANGED waiter
    BY DEF Clear, device
<1>2. PICK next : next = [a \in Arrays |-> IF a \in tracker THEN Cleared(arr[a], FALSE) ELSE arr[a]]
    OBVIOUS
<1>3. Settle(next, 0) /\ tracker' = {a \in tracker : ~IsSignaled(arr[a])}
    BY <1>1, <1>2 DEF ClearTracker
<1>4. \A a \in Arrays : /\ arr[a] \in Records /\ Sound(arr[a], fsig)
                        /\ Outside(arr[a]) = Inside(a)
                        /\ a \in tracker => arr[a].st = "live" /\ ~arr[a].forced
    BY HeldBy DEF SpecInv, InvOn, TrackIn, Live
<1>5. \A a \in Arrays : next[a] = IF a \in tracker THEN Cleared(arr[a], FALSE) ELSE arr[a]
    BY <1>2
<1>6. \A a \in Arrays : One(a \in tracker') = IF a \in tracker /\ IsSignaled(arr[a])
                                              THEN One(a \in tracker) - 1 ELSE One(a \in tracker)
    BY <1>3 DEF One
<1>7. \A a \in Arrays :
        /\ next[a] \in Records /\ Sound(next[a], fsig) /\ Calm(arr[a], next[a])
        /\ Outside(next[a]) = Outside(arr[a]) + One(a \in tracker') - One(a \in tracker)
        /\ a \in tracker => a \in tracker' \/ next[a].sig
    <2> SUFFICES ASSUME NEW a \in Arrays
                 PROVE  /\ next[a] \in Records /\ Sound(next[a], fsig) /\ Calm(arr[a], next[a])
                        /\ Outside(next[a]) = Outside(arr[a]) + One(a \in tracker') - One(a \in tracker)
                        /\ a \in tracker => a \in tracker' \/ next[a].sig
        OBVIOUS
    <2>1. Outside(arr[a]) \in Int /\ One(a \in tracker) \in Int
        BY <1>4, InsideNat DEF InsideFacts, One
    <2>2. CASE a \in tracker
        <3>1. next[a] = Cleared(arr[a], FALSE)
            BY <1>5, <2>2
        <3>2. /\ next[a] \in Records /\ Sound(next[a], fsig) /\ Calm(arr[a], next[a])
              /\ Outside(next[a]) = IF IsSignaled(arr[a]) THEN Outside(arr[a]) - 1 ELSE Outside(arr[a])
              /\ IsSignaled(arr[a]) => next[a].sig
            BY <1>4, <2>2, <3>1, ClearedChange
        <3>3. Outside(next[a]) = Outside(arr[a]) + One(a \in tracker') - One(a \in tracker)
            BY <1>6, <2>1, <2>2, <3>2
        <3> QED BY <1>3, <2>2, <3>2, <3>3
    <2>3. CASE a \notin tracker
        <3>1. next[a] = arr[a] /\ One(a \in tracker') = One(a \in tracker)
            BY <1>5, <1>6, <2>3
        <3> QED BY <1>4, <2>1, <2>3, <3>1, CalmSelf
    <2> QED BY <2>2, <2>3
<1>8. next \in [Arrays -> Records]
    BY <1>2, <1>5, <1>7
<1>9. PICK l \in Labels : /\ Goto(t, l) /\ l \in {"put", "bound"}
                          /\ l = "bound" => ~arr[on[t]].err
    BY DEF Clear, Labels
<1>10. /\ pc'[t] = l /\ on'[t] = on[t] /\ fds'[t] = fds[t]
       /\ \A u \in Threads \ {t} : pc'[u] = pc[u] /\ on'[u] = on[u] /\ fds'[u] = fds[u]
       /\ \A u \in Threads : pc'[u] = "track" <=> pc[u] = "track"
       /\ \A u \in Threads : pc[u] = "track" => on'[u] = on[u]
       /\ ApartPart' /\ \A a \in Arrays : CallersOf(a)' = CallersOf(a)
    BY <1>1, <1>9, GotoFrame
<1>11. \A a \in Arrays : Outside(next[a]) = Inside(a)'
    <2> SUFFICES ASSUME NEW a \in Arrays PROVE Outside(next[a]) = Inside(a)'
        OBVIOUS
    <2>1. /\ Cardinality(CallersOf(a)') = Cardinality(CallersOf(a))
          /\ Cardinality(WaitersOf(a)') = Cardinality(WaitersOf(a))
        BY <1>1, <1>10, WaitersSame
    <2>2. One(a \in tracker') \in Int /\ One(a \in tracker) \in Int
        BY DEF One
    <2>3. Cardinality(CallersOf(a)) \in Nat /\ Cardinality(WaitersOf(a)) \in Nat
        BY HeldCounts
    <2> QED BY <1>4, <1>7, <2>1, <2>2, <2>3 DEF Inside
<1>12. \A u \in Threads : CallOK(u, next)'
    <2>1. CallOK(t, next)'
        <3>1. on[t] \in Arrays /\ CallOn(t, arr[on[t]])
            BY <1>1, BindFacts
        <3>0. PICK a \in Arrays : a = on[t]
            BY <3>1
        <3>2. PICK q : a = on[t] /\ q = next[a]
            BY <3>0
        <3>3. /\ l = "bound" => NoDummy(arr[a])
              /\ ~arr[a].forced /\ Calm(arr[a], q)
            BY <1>1, <1>7, <1>9, <3>1, <3>2 DEF CallOn
        <3>4. CallOn(t, q)'
            BY <1>9, <1>10, <3>3 DEF CallOn, Calm, NoDummy
        <3> QED BY <1>9, <1>10, <3>2, <3>4, ArraysAssumption DEF CallOK
    <2>2. \A u \in Threads \ {t} : CallOK(u, next)'
        BY <1>7, <1>10, CalmCall
    <2> QED BY <2>1, <2>2
<1>13. tracker' \subseteq tracker
    BY <1>3
<1>14. RestOK' /\ WaitPart'
    BY <1>1, <1>9, <1>13, GotoFrame, WaitersSame DEF SpecInv, RestOK
<1>15. \A u \in Threads : pc[u] = "error" =>
           (pc'[u] = "error" /\ on'[u] = on[u]) \/ next[on[u]].err
    BY <1>1, <1>10
<1>16. \A a \in tracker : a \in tracker' \/ next[a].sig
    BY <1>7 DEF SpecInv, RestOK
<1>17. \A a \in Arrays : Calm(arr[a], next[a]) /\ Sound(next[a], fsig')
    BY <1>1, <1>7
<1> QED BY <1>3, <1>8, <1>10, <1>11, <1>12, <1>13, <1>14, <1>15, <1>16, <1>17, CalmStep----------------------------------------------------------------------------

(* A step by which a call or a wait takes or drops its reference. *)
LEMMA HolderStep ==
    ASSUME SpecInv, NEW a \in Arrays, NEW r \in Records, Sound(r, fsig), Calm(arr[a], r),
           NEW next, next = Set(a, r), Settle(next, 0), UNCHANGED <<device, tracker, fsig>>,
           RestOK', ApartPart', WaitPart',
           \A u \in Threads : CallOK(u, next)',
           Outside(r) = Inside(a)', \A b \in Arrays \ {a} : Inside(b)' = Inside(b),
           \A u \in Threads : pc[u] \in {"track", "error"} => pc'[u] = pc[u] /\ on'[u] = on[u],
           \A u \in Threads : pc'[u] = "track" => pc[u] = "track"
    PROVE  SpecInv'
<1>1. /\ next \in [Arrays -> Records] /\ arr \in [Arrays -> Records]
      /\ \A b \in Arrays : next[b] = IF b = a THEN r ELSE arr[b]
    BY SetFacts DEF SpecInv
<1>2. UNCHANGED <<avail, opens, tracker, fsig>>
    BY DEF device
<1>3. \A b \in Arrays : Calm(arr[b], next[b]) /\ Sound(next[b], fsig')
    BY <1>1, <1>2, CalmSelf DEF SpecInv, InvOn
<1>4. \A b \in Arrays : Outside(next[b]) = Inside(b)'
    <2> SUFFICES ASSUME NEW b \in Arrays PROVE Outside(next[b]) = Inside(b)'
        OBVIOUS
    <2>1. CASE b = a
        BY <1>1, <2>1
    <2>2. CASE b # a
        BY <1>1, <2>2 DEF SpecInv, InvOn
    <2> QED BY <2>1, <2>2
<1> QED BY <1>1, <1>2, <1>3, <1>4, CalmStep

(* A bind returns and drops its reference. *)
LEMMA PutArrayKeeps ==
    ASSUME SpecInv, NEW t \in Threads, PutArray(t)
    PROVE  SpecInv'
<1>1. /\ pc[t] = "put" /\ Return(t) /\ UNCHANGED <<device, tracker, fsig>> /\ UNCHANGED waiter
    BY DEF PutArray
<1>2. PICK a \in Arrays : a = on[t]
    BY <1>1, BindFacts
<1>3. PICK r, next : r = Put(arr[a]) /\ next = Set(a, r)
    OBVIOUS
<1>4. Settle(next, 0)
    BY <1>2, <1>3 DEF PutArray
<1>5. r \in Records /\ Sound(r, fsig) /\ Calm(arr[a], r) /\ Outside(r) = Outside(arr[a]) - 1
    BY <1>1, <1>2, <1>3, BindFacts, RefChanges
<1>6. /\ ApartPart'
      /\ \A b \in Arrays : CallersOf(b)' = CallersOf(b) \ {t}
      /\ \A b \in Arrays : t \in CallersOf(b) <=> b = on[t]
      /\ pc'[t] = "idle" /\ on'[t] = NoArray
      /\ \A u \in Threads \ {t} : pc'[u] = pc[u] /\ on'[u] = on[u] /\ fds'[u] = fds[u]
    BY <1>1, ReturnFrame
<1>7. UNCHANGED <<avail, opens, tracker, fsig>>
    BY <1>1 DEF device
<1>8. RestOK' /\ WaitPart' /\ \A b \in Arrays : WaitersOf(b)' = WaitersOf(b)
    BY <1>1, <1>7, ReturnFrame, WaitersSame DEF SpecInv, RestOK
<1>9. \A b \in Arrays \ {a} : Inside(b)' = Inside(b)
    <2> SUFFICES ASSUME NEW b \in Arrays \ {a} PROVE Inside(b)' = Inside(b)
        OBVIOUS
    <2>1. CallersOf(b)' = CallersOf(b)
        BY <1>2, <1>6
    <2> QED BY <1>7, <1>8, <2>1 DEF Inside
<1>10. Outside(r) = Inside(a)'
    <2>1. Cardinality(CallersOf(a)') = Cardinality(CallersOf(a)) - 1
        <3>1. IsFiniteSet(CallersOf(a)) /\ t \in CallersOf(a)
            BY <1>2, <1>6, HeldCounts
        <3>2. Cardinality(CallersOf(a) \ {t}) = Cardinality(CallersOf(a)) - 1
            BY <3>1, FS_RemoveElement
        <3> QED BY <1>6, <3>2
    <2>2. Cardinality(CallersOf(a)) \in Nat /\ Cardinality(WaitersOf(a)) \in Nat
        BY HeldCounts
    <2>3. Cardinality(WaitersOf(a)') = Cardinality(WaitersOf(a))
        BY <1>8
    <2>4. One(a \in tracker') = One(a \in tracker) /\ One(a \in tracker) \in Int
        BY <1>7 DEF One
    <2>5. Outside(arr[a]) = Inside(a)
        BY DEF SpecInv, InvOn
    <2> QED BY <1>5, <2>1, <2>2, <2>3, <2>4, <2>5 DEF Inside
<1>11. \A u \in Threads : CallOK(u, next)'
    <2>1. CallOK(t, next)'
        BY <1>6 DEF CallOK
    <2>4. arr \in [Arrays -> Records]
        BY DEF SpecInv
    <2>5. \A b \in Arrays : next[b] = IF b = a THEN r ELSE arr[b]
        BY <1>3, <1>5, <2>4, SetFacts
    <2>2. \A b \in Arrays : Calm(arr[b], next[b])
        BY <1>5, <2>4, <2>5, CalmSelf
    <2>3. \A u \in Threads \ {t} : CallOK(u, next)'
        BY <1>6, <2>2, CalmCall
    <2> QED BY <2>1, <2>3
<1>12. /\ \A u \in Threads : pc[u] \in {"track", "error"} => pc'[u] = pc[u] /\ on'[u] = on[u]
       /\ \A u \in Threads : pc'[u] = "track" => pc[u] = "track"
    BY <1>1, <1>6
<1> QED BY <1>1, <1>3, <1>4, <1>5, <1>6, <1>8, <1>9, <1>10, <1>11, <1>12, HolderStep

(* A bind begins on an array whose fd it looked up. *)
LEMMA BindStartKeeps ==
    ASSUME SpecInv, OneBinder, NEW t \in Threads, NEW a \in Arrays, NEW s \in FdLists[a], BindStart(t, a, s)
    PROVE  SpecInv'
<1>1. /\ pc[t] = "idle" /\ UNCHANGED <<device, tracker, fsig>> /\ UNCHANGED waiter
      /\ \A o \in Threads : pc[o] \notin {"idle", "track"} => on[o] # a
      /\ arr[a].st = "live" /\ Len(s) = Len(arr[a].kids)
      /\ on' = [on EXCEPT ![t] = a] /\ fds' = [fds EXCEPT ![t] = s]
    BY DEF BindStart, Live
<1>2. PICK l \in Labels : l \in {"put", "sanitize"} /\ pc' = [pc EXCEPT ![t] = l]
    BY DEF BindStart, Labels
<1>3. PICK q, r, next : q = Seen(arr[a]) /\ r = Get(q) /\ next = Set(a, r)
    OBVIOUS
<1>4. Settle(next, 0)
    BY <1>3 DEF BindStart
<1>5. /\ arr[a] \in Records /\ Sound(arr[a], fsig) /\ Outside(arr[a]) = Inside(a)
    BY DEF SpecInv, InvOn
<1>6. q \in Records /\ Sound(q, fsig) /\ Calm(arr[a], q) /\ Outside(q) = Outside(arr[a])
    BY <1>1, <1>3, <1>5, SeenChange
<1>7. r \in Records /\ Sound(r, fsig) /\ Calm(q, r) /\ Outside(r) = Outside(q) + 1
    <2>1. q.st = "live"
        BY <1>1, <1>6 DEF Calm
    <2> QED BY <1>3, <1>6, <2>1, RefChanges
<1>8. Calm(arr[a], r)
    BY <1>6, <1>7 DEF Calm
<1>9. s \in Seq(Fences \cup {BadFd})
    BY ArraysAssumption
<1>10. /\ pc' \in [Threads -> Labels] /\ on' \in [Threads -> Arrays \cup {NoArray}]
       /\ fds' \in [Threads -> Seq(Fences \cup {BadFd})]
       /\ ApartPart'
       /\ CallersOf(a)' = CallersOf(a) \cup {t} /\ t \notin CallersOf(a)
       /\ \A b \in Arrays \ {a} : CallersOf(b)' = CallersOf(b)
       /\ pc'[t] = l /\ on'[t] = a /\ fds'[t] = s
       /\ \A u \in Threads \ {t} : pc'[u] = pc[u] /\ on'[u] = on[u] /\ fds'[u] = fds[u]
    <2>1. l # "idle" /\ l # "track"
        BY <1>2
    <2> QED BY <1>1, <1>2, <1>9, <2>1, EnterFrame
<1>11. UNCHANGED <<avail, opens, tracker, fsig>>
    BY <1>1 DEF device
<1>12. RestOK' /\ WaitPart' /\ \A b \in Arrays : WaitersOf(b)' = WaitersOf(b)
    BY <1>1, <1>10, <1>11, WaitersSame DEF SpecInv, RestOK
<1>13. \A b \in Arrays \ {a} : Inside(b)' = Inside(b)
    BY <1>10, <1>11, <1>12 DEF Inside
<1>14. Outside(r) = Inside(a)'
    <2>1. Cardinality(CallersOf(a)') = Cardinality(CallersOf(a)) + 1
        <3>1. IsFiniteSet(CallersOf(a))
            BY HeldCounts
        <3>2. Cardinality(CallersOf(a) \cup {t}) = Cardinality(CallersOf(a)) + 1
            BY <1>10, <3>1, FS_AddElement
        <3> QED BY <1>10, <3>2
    <2>2. Cardinality(CallersOf(a)) \in Nat /\ Cardinality(WaitersOf(a)) \in Nat
        BY HeldCounts
    <2>3. Cardinality(WaitersOf(a)') = Cardinality(WaitersOf(a))
        BY <1>12
    <2>4. One(a \in tracker') = One(a \in tracker) /\ One(a \in tracker) \in Int
        BY <1>11 DEF One
    <2> QED BY <1>5, <1>6, <1>7, <2>1, <2>2, <2>3, <2>4 DEF Inside
<1>15. \A u \in Threads : CallOK(u, next)'
    <2>5. arr \in [Arrays -> Records]
        BY DEF SpecInv
    <2>6. \A b \in Arrays : next[b] = IF b = a THEN r ELSE arr[b]
        BY <1>3, <1>7, <2>5, SetFacts
    <2>1. next[a] = r /\ \A b \in Arrays : Calm(arr[b], next[b])
        BY <1>8, <2>5, <2>6, CalmSelf
    <2>2. CallOn(t, r)'
        <3>1. Len(s) = Len(r.kids)
            BY <1>1, <1>8 DEF Calm
        <3> QED BY <1>2, <1>10, <3>1 DEF CallOn
    <2>3. CallOK(t, next)'
        BY <1>2, <1>10, <2>1, <2>2, ArraysAssumption DEF CallOK
    <2>4. \A u \in Threads \ {t} : CallOK(u, next)'
        BY <1>10, <2>1, CalmCall
    <2> QED BY <2>3, <2>4
<1>16. /\ \A u \in Threads : pc[u] \in {"track", "error"} => pc'[u] = pc[u] /\ on'[u] = on[u]
       /\ \A u \in Threads : pc'[u] = "track" => pc[u] = "track"
    BY <1>1, <1>2, <1>10
<1> QED BY <1>1, <1>3, <1>4, <1>7, <1>8, <1>10, <1>12, <1>13, <1>14, <1>15, <1>16, HolderStep

(* A kernel thread begins to wait for a bind, and ends. *)
LEMMA WaitBindKeeps ==
    ASSUME SpecInv, NEW w \in Waiters, NEW a \in Arrays, WaitBind(w, a)
    PROVE  SpecInv'
<1>1. /\ wpc[w] = "idle" /\ UNCHANGED <<device, tracker, fsig>> /\ UNCHANGED caller
      /\ arr[a].st = "live" /\ wpc' = [wpc EXCEPT ![w] = "sleep"] /\ won' = [won EXCEPT ![w] = a]
    BY DEF WaitBind, Live
<1>2. PICK r, next : r = Get(arr[a]) /\ next = Set(a, r)
    OBVIOUS
<1>3. Settle(next, 0)
    BY <1>2 DEF WaitBind
<1>4. /\ arr[a] \in Records /\ Sound(arr[a], fsig) /\ Outside(arr[a]) = Inside(a)
      /\ wpc \in [Waiters -> {"idle", "sleep"}] /\ won \in [Waiters -> Arrays \cup {NoArray}]
      /\ WaitPart /\ arr \in [Arrays -> Records]
    BY DEF SpecInv, InvOn, RestOK
<1>5. r \in Records /\ Sound(r, fsig) /\ Calm(arr[a], r) /\ Outside(r) = Outside(arr[a]) + 1
    BY <1>1, <1>2, <1>4, RefChanges
<1>6. UNCHANGED <<avail, opens, tracker, fsig, pc, on, fds>>
    BY <1>1 DEF device, caller
<1>7. /\ ApartPart' /\ RestOK' /\ \A b \in Arrays : CallersOf(b)' = CallersOf(b)
    BY <1>1, <1>4, <1>6, CallersSame DEF SpecInv, RestOK
<1>8. WaitPart'
    BY <1>1, <1>4, ArraysAssumption DEF WaitPart
<1>9. WaitersOf(a)' = WaitersOf(a) \cup {w} /\ w \notin WaitersOf(a)
    BY <1>1, <1>4 DEF WaitersOf
<1>10. \A b \in Arrays \ {a} : WaitersOf(b)' = WaitersOf(b)
    BY <1>1, <1>4 DEF WaitersOf
<1>11. \A b \in Arrays \ {a} : Inside(b)' = Inside(b)
    BY <1>6, <1>7, <1>10 DEF Inside
<1>12. Outside(r) = Inside(a)'
    <2>1. Cardinality(WaitersOf(a)') = Cardinality(WaitersOf(a)) + 1
        <3>1. IsFiniteSet(WaitersOf(a))
            BY HeldCounts
        <3>2. Cardinality(WaitersOf(a) \cup {w}) = Cardinality(WaitersOf(a)) + 1
            BY <1>9, <3>1, FS_AddElement
        <3> QED BY <1>9, <3>2
    <2>2. Cardinality(CallersOf(a)) \in Nat /\ Cardinality(WaitersOf(a)) \in Nat
        BY HeldCounts
    <2>3. Cardinality(CallersOf(a)') = Cardinality(CallersOf(a))
        BY <1>7
    <2>4. One(a \in tracker') = One(a \in tracker) /\ One(a \in tracker) \in Int
        BY <1>6 DEF One
    <2> QED BY <1>4, <1>5, <2>1, <2>2, <2>3, <2>4 DEF Inside
<1>13. \A u \in Threads : CallOK(u, next)'
    <2>1. \A b \in Arrays : next[b] = IF b = a THEN r ELSE arr[b]
        BY <1>2, <1>4, <1>5, SetFacts
    <2>2. \A b \in Arrays : Calm(arr[b], next[b])
        BY <1>4, <1>5, <2>1, CalmSelf
    <2> QED BY <1>6, <2>2, CalmCall
<1> QED BY <1>1, <1>2, <1>3, <1>5, <1>6, <1>7, <1>8, <1>11, <1>12, <1>13, HolderStep

(* A wait ends, woken or timed out, and drops its reference. *)
LEMMA WaitReturnKeeps ==
    ASSUME SpecInv, NEW w \in Waiters, wpc[w] = "sleep", WaitReturn(w)
    PROVE  SpecInv'
<1>1. /\ UNCHANGED <<device, tracker, fsig>> /\ UNCHANGED caller
      /\ wpc' = [wpc EXCEPT ![w] = "idle"] /\ won' = [won EXCEPT ![w] = NoArray]
    BY DEF WaitReturn
<1>2. won[w] \in Arrays /\ Live(won[w])
    BY HeldBy
<1>3. PICK a \in Arrays : a = won[w]
    BY <1>2
<1>4. PICK r, next : r = Put(arr[a]) /\ next = Set(a, r)
    OBVIOUS
<1>5. Settle(next, 0)
    BY <1>3, <1>4 DEF WaitReturn
<1>6. /\ arr[a] \in Records /\ Sound(arr[a], fsig) /\ Outside(arr[a]) = Inside(a)
      /\ wpc \in [Waiters -> {"idle", "sleep"}] /\ won \in [Waiters -> Arrays \cup {NoArray}]
      /\ WaitPart /\ arr \in [Arrays -> Records]
    BY DEF SpecInv, InvOn, RestOK
<1>7. r \in Records /\ Sound(r, fsig) /\ Calm(arr[a], r) /\ Outside(r) = Outside(arr[a]) - 1
    BY <1>2, <1>3, <1>4, <1>6, RefChanges DEF Live
<1>8. UNCHANGED <<avail, opens, tracker, fsig, pc, on, fds>>
    BY <1>1 DEF device, caller
<1>9. /\ ApartPart' /\ RestOK' /\ \A b \in Arrays : CallersOf(b)' = CallersOf(b)
    BY <1>1, <1>6, <1>8, CallersSame DEF SpecInv, RestOK
<1>10. WaitPart'
    BY <1>1, <1>6 DEF WaitPart
<1>11. WaitersOf(a)' = WaitersOf(a) \ {w} /\ w \in WaitersOf(a)
    BY <1>1, <1>3, <1>6 DEF WaitersOf
<1>12. \A b \in Arrays \ {a} : WaitersOf(b)' = WaitersOf(b)
    BY <1>1, <1>3, <1>6 DEF WaitersOf
<1>13. \A b \in Arrays \ {a} : Inside(b)' = Inside(b)
    BY <1>8, <1>9, <1>12 DEF Inside
<1>14. Outside(r) = Inside(a)'
    <2>1. Cardinality(WaitersOf(a)') = Cardinality(WaitersOf(a)) - 1
        <3>1. IsFiniteSet(WaitersOf(a))
            BY HeldCounts
        <3>2. Cardinality(WaitersOf(a) \ {w}) = Cardinality(WaitersOf(a)) - 1
            BY <1>11, <3>1, FS_RemoveElement
        <3> QED BY <1>11, <3>2
    <2>2. Cardinality(CallersOf(a)) \in Nat /\ Cardinality(WaitersOf(a)) \in Nat
        BY HeldCounts
    <2>3. Cardinality(CallersOf(a)') = Cardinality(CallersOf(a))
        BY <1>9
    <2>4. One(a \in tracker') = One(a \in tracker) /\ One(a \in tracker) \in Int
        BY <1>8 DEF One
    <2> QED BY <1>6, <1>7, <2>1, <2>2, <2>3, <2>4 DEF Inside
<1>15. \A u \in Threads : CallOK(u, next)'
    <2>1. \A b \in Arrays : next[b] = IF b = a THEN r ELSE arr[b]
        BY <1>4, <1>6, <1>7, SetFacts
    <2>2. \A b \in Arrays : Calm(arr[b], next[b])
        BY <1>6, <1>7, <2>1, CalmSelf
    <2> QED BY <1>8, <2>2, CalmCall
<1> QED BY <1>1, <1>4, <1>5, <1>7, <1>8, <1>9, <1>10, <1>13, <1>14, <1>15, HolderStep

(* Another driver's fence is signaled: every array counts it off. *)
LEMMA SignalFenceKeeps ==
    ASSUME SpecInv, NEW f \in Fences, SignalFence(f)
    PROVE  SpecInv'
<1>1. /\ f \notin fsig /\ fsig' = fsig \cup {f} /\ UNCHANGED <<device, tracker>>
      /\ UNCHANGED caller /\ UNCHANGED waiter
    BY DEF SignalFence
<1>2. PICK next : next = [a \in Arrays |-> Counted(arr[a], f)]
    OBVIOUS
<1>3. Settle(next, 0)
    BY <1>2 DEF SignalFence
<1>4. UNCHANGED <<avail, opens, tracker, pc, on, fds>>
    BY <1>1 DEF device, caller
<1>5. \A a \in Arrays : arr[a] \in Records /\ Sound(arr[a], fsig) /\ Outside(arr[a]) = Inside(a)
    BY DEF SpecInv, InvOn
<1>6. \A a \in Arrays : next[a] = Counted(arr[a], f)
    BY <1>2
<1>7. \A a \in Arrays :
        /\ next[a] \in Records /\ Sound(next[a], fsig \cup {f}) /\ Calm(arr[a], next[a])
        /\ Outside(next[a]) = Outside(arr[a])
    BY <1>1, <1>5, <1>6, CountedChange
<1>8. next \in [Arrays -> Records]
    BY <1>2, <1>6, <1>7
<1>9. \A a \in Arrays : Calm(arr[a], next[a]) /\ Sound(next[a], fsig')
    BY <1>1, <1>7
<1>10. \A a \in Arrays : Outside(next[a]) = Inside(a)'
    <2>1. \A a \in Arrays : Inside(a)' = Inside(a)
        BY <1>1, <1>4, CallersSame, WaitersSame DEF Inside
    <2> QED BY <1>5, <1>7, <2>1
<1>11. \A u \in Threads : CallOK(u, next)'
    BY <1>4, <1>9, CalmCall
<1>12. RestOK' /\ ApartPart' /\ WaitPart'
    BY <1>1, <1>4, CallersSame, WaitersSame DEF SpecInv, RestOK
<1> QED BY <1>3, <1>4, <1>8, <1>9, <1>10, <1>11, <1>12, CalmStep----------------------------------------------------------------------------

(* The ioctl that made an array hands its reference to the tracker. *)
LEMMA TrackKeeps ==
    ASSUME SpecInv, NEW t \in Threads, Track(t)
    PROVE  SpecInv'
<1>1. /\ pc[t] = "track" /\ Return(t) /\ tracker' = tracker \cup {on[t]}
      /\ UNCHANGED <<avail, opens, arr, dummyRef, fsig>> /\ UNCHANGED waiter
    BY DEF Track, device
<1>2. PICK a \in Arrays : a = on[t]
    BY <1>1, BindFacts
<1>3. PICK next : next = arr
    OBVIOUS
<1>4. next \in [Arrays -> Records]
    BY <1>3 DEF SpecInv
<1>5. Settle(next, 0)
    BY <1>1, <1>3, <1>4, SettleNothing
<1>6. /\ pc' \in [Threads -> Labels] /\ on' \in [Threads -> Arrays \cup {NoArray}]
      /\ fds' \in [Threads -> Seq(Fences \cup {BadFd})]
      /\ ApartPart'
      /\ \A b \in Arrays : CallersOf(b)' = CallersOf(b) \ {t}
      /\ \A b \in Arrays : t \in CallersOf(b) <=> b = on[t]
      /\ pc'[t] = "idle" /\ on'[t] = NoArray
      /\ \A u \in Threads \ {t} : pc'[u] = pc[u] /\ on'[u] = on[u] /\ fds'[u] = fds[u]
    BY <1>1, ReturnFrame
<1>7. RestOK' /\ WaitPart' /\ \A b \in Arrays : WaitersOf(b)' = WaitersOf(b)
    BY <1>1, <1>2, <1>6, WaitersSame DEF SpecInv, RestOK
<1>8. a \notin tracker /\ ~arr[a].forced
    <2>1. CallOn(t, arr[a])
        BY <1>1, <1>2, BindFacts
    <2> QED BY <1>1, <1>2, <2>1 DEF SpecInv, InvOn, TrackIn, CallOn
<1>9. \A b \in Arrays : Outside(next[b]) = Inside(b)'
    <2> SUFFICES ASSUME NEW b \in Arrays PROVE Inside(b)' = Inside(b)
        BY <1>3 DEF SpecInv, InvOn
    <2>1. CASE b = a
        <3>1. Cardinality(CallersOf(b)') = Cardinality(CallersOf(b)) - 1
            <4>1. IsFiniteSet(CallersOf(b)) /\ t \in CallersOf(b)
                BY <1>2, <1>6, <2>1, HeldCounts
            <4>2. Cardinality(CallersOf(b) \ {t}) = Cardinality(CallersOf(b)) - 1
                BY <4>1, FS_RemoveElement
            <4> QED BY <1>6, <4>2
        <3>2. Cardinality(CallersOf(b)) \in Nat /\ Cardinality(WaitersOf(b)) \in Nat
            BY HeldCounts
        <3>3. Cardinality(WaitersOf(b)') = Cardinality(WaitersOf(b))
            BY <1>7
        <3>4. One(b \in tracker') = 1 /\ One(b \in tracker) = 0
            BY <1>1, <1>2, <1>8, <2>1 DEF One
        <3> QED BY <3>1, <3>2, <3>3, <3>4 DEF Inside
    <2>2. CASE b # a
        <3>3. t \notin CallersOf(b) /\ CallersOf(b)' = CallersOf(b) \ {t}
            BY <1>2, <1>6, <2>2
        <3>1. CallersOf(b)' = CallersOf(b)
            BY <3>3
        <3>2. One(b \in tracker') = One(b \in tracker)
            BY <1>1, <1>2, <2>2 DEF One
        <3> QED BY <1>7, <3>1, <3>2 DEF Inside
    <2> QED BY <2>1, <2>2
<1>10. \A u \in Threads : CallOK(u, next)'
    <2>1. CallOK(t, next)'
        BY <1>6 DEF CallOK
    <2>2. \A b \in Arrays : Calm(arr[b], next[b])
        BY <1>3, <1>4, CalmSelf
    <2>3. \A u \in Threads \ {t} : CallOK(u, next)'
        BY <1>6, <2>2, CalmCall
    <2> QED BY <2>1, <2>3
<1>11. TrackIn(next)'
    <2>1. TrackIn(arr) /\ ApartPart
        BY DEF SpecInv, InvOn
    <2>2. \A u \in Threads : pc'[u] = "track" => on'[u] \notin tracker'
        BY <1>1, <1>2, <1>6, <2>1 DEF TrackIn, ApartPart
    <2>3. \A b \in tracker' : ~next[b].forced
        BY <1>1, <1>2, <1>3, <1>8, <2>1 DEF TrackIn
    <2> QED BY <2>2, <2>3 DEF TrackIn
<1>12. BoundIn(next)'
    <2>1. BoundIn(arr)
        BY DEF SpecInv, InvOn
    <2>2. \A u \in Threads : pc[u] = "error" => pc'[u] = "error" /\ on'[u] = on[u]
        BY <1>1, <1>6
    <2> SUFFICES ASSUME NEW b \in Arrays, next[b].st = "live", next[b].bound
                 PROVE  \/ NoDummy(next[b]) \/ next[b].err
                        \/ \E u \in Threads : pc'[u] = "error" /\ on'[u] = b
        BY DEF BoundIn
    <2>3. \/ NoDummy(next[b]) \/ next[b].err
          \/ \E u \in Threads : pc[u] = "error" /\ on[u] = b
        BY <1>3, <2>1 DEF BoundIn
    <2> QED BY <2>2, <2>3
<1>13. LeavesIn(next)'
    <2>1. LeavesIn(arr)
        BY DEF SpecInv, InvOn
    <2> QED BY <1>1, <1>2, <1>3, <1>6, <2>1 DEF LeavesIn
<1>14. \A b \in Arrays : Sound(next[b], fsig')
    BY <1>1, <1>3 DEF SpecInv, InvOn
<1>15. InvOn(next)'
    BY <1>6, <1>7, <1>9, <1>10, <1>11, <1>12, <1>13, <1>14 DEF InvOn
<1>16. Cardinality(Places(next)) = Cardinality(Places(arr)) - 0
    BY <1>3, PlacesFinite
<1> QED BY <1>4, <1>5, <1>7, <1>15, <1>16, SettleStep

(* A new array takes n places for the dummy. *)
LEMMA NewPlaces ==
    ASSUME NEW a \in Arrays, arr[a].st # "live", NEW n \in 1..MaxFences, NEW r, r.st = "live",
           r.kids = [i \in 1..n |-> Dummy],
           \A b \in Arrays : Set(a, r)[b] = IF b = a THEN r ELSE arr[b]
    PROVE  Cardinality(Places(Set(a, r))) = Cardinality(Places(arr)) + n
<1> DEFINE P == Places(arr)
           Q == {a} \X (1..n)
<1>1. \A b \in Arrays : Set(a, r)[b] = IF b = a THEN r ELSE arr[b]
    OBVIOUS
<1>2. n \in Nat /\ MaxFences \in Nat
    BY BoundsAssumption
<1>3. Len(r.kids) = n /\ \A i \in 1..n : r.kids[i] = Dummy
    BY <1>2
<1>4. Places(Set(a, r)) = P \cup Q
    BY <1>1, <1>2, <1>3 DEF Places
<1>5. P \cap Q = {}
    BY DEF Places
<1>6. IsFiniteSet(Q) /\ Cardinality(Q) = n
    <2>1. IsFiniteSet(1..n) /\ Cardinality(1..n) = n
        BY <1>2, FS_Interval
    <2>2. IsFiniteSet({a}) /\ Cardinality({a}) = 1
        BY FS_Singleton
    <2>3. IsFiniteSet(Q) /\ Cardinality(Q) = Cardinality({a}) * Cardinality(1..n)
        BY <2>1, <2>2, FS_Product
    <2> QED BY <1>2, <2>1, <2>2, <2>3
<1>7. IsFiniteSet(P) /\ Cardinality(P) \in Nat
    BY PlacesFinite
<1> HIDE DEF P, Q
<1>8. Cardinality(P \cup Q) = Cardinality(P) + Cardinality(Q) - Cardinality(P \cap Q)
    BY <1>6, <1>7, FS_Union
<1>9. Cardinality(P \cap Q) = 0
    BY <1>5, FS_EmptySet
<1> QED BY <1>2, <1>4, <1>6, <1>7, <1>8, <1>9 DEF P

(* spec_sync_create_array makes an array that nobody knew. *)
LEMMA CreateArrayKeeps ==
    ASSUME SpecInv, NEW t \in Threads, NEW a \in Arrays, NEW n \in 1..MaxFences,
           NEW any \in BOOLEAN, CreateArray(t, a, n, any)
    PROVE  SpecInv'
<1>1. /\ pc[t] = "idle" /\ arr[a].st = "new" /\ pc' = [pc EXCEPT ![t] = "track"]
      /\ on' = [on EXCEPT ![t] = a] /\ UNCHANGED <<avail, opens, tracker, fsig, fds>>
      /\ UNCHANGED waiter
    BY DEF CreateArray, device
<1>2. PICK r, next : r = NewArray(n, any) /\ next = Set(a, r)
    OBVIOUS
<1>3. PICK m \in Int : m = -n
    OBVIOUS
<1>4. Settle(next, m)
    BY <1>2, <1>3 DEF CreateArray
<1>5. /\ r \in Records /\ Sound(r, fsig) /\ Outside(r) = 1
      /\ r.st = "live" /\ ~r.forced /\ ~r.bound /\ r.kids = [i \in 1..n |-> Dummy]
    BY <1>2, NewChange
<1>6. arr \in [Arrays -> Records]
    BY DEF SpecInv
<1>7. /\ next \in [Arrays -> Records]
      /\ \A b \in Arrays : next[b] = IF b = a THEN r ELSE arr[b]
    BY <1>2, <1>5, <1>6, SetFacts
<1>8. a \notin tracker /\ CallersOf(a) = {} /\ WaitersOf(a) = {}
    <2>1. Inside(a) = 0
        BY <1>1, HeldLive DEF Live
    <2> QED BY <2>1, InsideNat DEF InsideFacts
<1>9. /\ pc' \in [Threads -> Labels] /\ on' \in [Threads -> Arrays \cup {NoArray}]
      /\ fds' \in [Threads -> Seq(Fences \cup {BadFd})]
      /\ ApartPart'
      /\ CallersOf(a)' = CallersOf(a) \cup {t} /\ t \notin CallersOf(a)
      /\ \A b \in Arrays \ {a} : CallersOf(b)' = CallersOf(b)
      /\ pc'[t] = "track" /\ on'[t] = a
      /\ \A u \in Threads \ {t} : pc'[u] = pc[u] /\ on'[u] = on[u] /\ fds'[u] = fds[u]
    <2>1. PICK s \in Seq(Fences \cup {BadFd}), l \in Labels : s = fds[t] /\ l = "track"
        BY DEF SpecInv, RestOK, Labels
    <2>2. fds' = [fds EXCEPT ![t] = s]
        BY <1>1, <2>1 DEF SpecInv, RestOK
    <2>3. /\ pc' = [pc EXCEPT ![t] = l] /\ l # "idle"
          /\ l # "track" => \A o \in Threads : pc[o] \notin {"idle", "track"} => on[o] # a
          /\ l = "track" => CallersOf(a) = {}
          /\ pc[t] = "idle" /\ on' = [on EXCEPT ![t] = a]
        BY <1>1, <1>8, <2>1
    <2>4. /\ pc' \in [Threads -> Labels] /\ on' \in [Threads -> Arrays \cup {NoArray}]
          /\ fds' \in [Threads -> Seq(Fences \cup {BadFd})]
          /\ ApartPart'
          /\ CallersOf(a)' = CallersOf(a) \cup {t} /\ t \notin CallersOf(a)
          /\ \A b \in Arrays \ {a} : CallersOf(b)' = CallersOf(b)
          /\ pc'[t] = l /\ on'[t] = a /\ fds'[t] = s
          /\ \A u \in Threads \ {t} : pc'[u] = pc[u] /\ on'[u] = on[u] /\ fds'[u] = fds[u]
        BY <2>2, <2>3, EnterFrame
    <2> QED BY <2>1, <2>4
<1>10. RestOK' /\ WaitPart' /\ \A b \in Arrays : WaitersOf(b)' = WaitersOf(b)
    BY <1>1, <1>9, WaitersSame DEF SpecInv, RestOK
<1>11. \A b \in Arrays : Outside(next[b]) = Inside(b)'
    <2> SUFFICES ASSUME NEW b \in Arrays PROVE Outside(next[b]) = Inside(b)'
        OBVIOUS
    <2>1. CASE b = a
        <3>1. CallersOf(b)' = {t} /\ WaitersOf(b)' = {}
            BY <1>8, <1>9, <1>10, <2>1
        <3>2. Cardinality(CallersOf(b)') = 1 /\ Cardinality(WaitersOf(b)') = 0
            BY <3>1, FS_Singleton, FS_EmptySet
        <3>3. One(b \in tracker') = 0
            BY <1>1, <1>8, <2>1 DEF One
        <3> QED BY <1>5, <1>7, <2>1, <3>2, <3>3 DEF Inside
    <2>2. CASE b # a
        <3>1. Inside(b)' = Inside(b)
            BY <1>1, <1>9, <1>10, <2>2 DEF Inside
        <3> QED BY <1>7, <2>2, <3>1 DEF SpecInv, InvOn
    <2> QED BY <2>1, <2>2
<1>12. \A u \in Threads \ {t} : pc[u] # "idle" => on[u] \in Arrays \ {a}
    BY <1>8, HeldBy DEF CallersOf
<1>13. \A u \in Threads : CallOK(u, next)'
    <2>1. CallOK(t, next)'
        <3>1. CallOn(t, r)'
            BY <1>5, <1>9 DEF CallOn
        <3> QED BY <1>7, <1>9, <3>1, ArraysAssumption DEF CallOK
    <2>2. ASSUME NEW u \in Threads, u # t PROVE CallOK(u, next)'
        <3>1. CallOK(u, arr)
            BY DEF SpecInv, InvOn
        <3>2. CASE pc[u] = "idle"
            BY <1>9, <2>2, <3>1, <3>2 DEF CallOK
        <3>3. CASE pc[u] # "idle"
            <4>1. PICK b \in Arrays \ {a} : b = on[u]
                BY <1>12, <2>2, <3>3
            <4>2. PICK q : q = arr[b]
                OBVIOUS
            <4>3. CallOn(u, q) /\ next[b] = q
                BY <1>7, <3>1, <3>3, <4>1, <4>2 DEF CallOK
            <4>4. CallOn(u, q)'
                BY <1>9, <2>2, <4>3 DEF CallOn
            <4> QED BY <1>9, <2>2, <3>1, <3>3, <4>1, <4>3, <4>4 DEF CallOK
        <3> QED BY <3>2, <3>3
    <2> QED BY <2>1, <2>2
<1>14. TrackIn(next)'
    <2>1. TrackIn(arr) /\ tracker \subseteq Arrays
        BY DEF SpecInv, InvOn, RestOK
    <2> QED BY <1>1, <1>7, <1>8, <1>9, <2>1 DEF TrackIn
<1>15. BoundIn(next)'
    <2>1. BoundIn(arr)
        BY DEF SpecInv, InvOn
    <2> SUFFICES ASSUME NEW b \in Arrays, next[b].st = "live", next[b].bound
                 PROVE  \/ NoDummy(next[b]) \/ next[b].err
                        \/ \E u \in Threads : pc'[u] = "error" /\ on'[u] = b
        BY DEF BoundIn
    <2>2. b # a /\ next[b] = arr[b]
        BY <1>5, <1>7
    <2> QED BY <1>1, <1>9, <2>1, <2>2 DEF BoundIn
<1>16. LeavesIn(next)'
    <2>1. LeavesIn(arr)
        BY DEF SpecInv, InvOn
    <2> QED BY <1>1, <1>7, <1>9, <2>1 DEF LeavesIn
<1>17. \A b \in Arrays : Sound(next[b], fsig')
    BY <1>1, <1>5, <1>7 DEF SpecInv, InvOn
<1>18. InvOn(next)'
    BY <1>9, <1>10, <1>11, <1>13, <1>14, <1>15, <1>16, <1>17 DEF InvOn
<1>19. Cardinality(Places(next)) = Cardinality(Places(arr)) - m
    <2>1. Cardinality(Places(next)) = Cardinality(Places(arr)) + n
        BY <1>1, <1>2, <1>5, <1>6, <1>7, NewPlaces
    <2> QED BY <1>3, <2>1, PlacesFinite
<1> QED BY <1>4, <1>7, <1>10, <1>18, <1>19, SettleStep
----------------------------------------------------------------------------

(* The invariant holds when the driver is registered. *)
LEMMA InitInv == Init => SpecInv
<1> SUFFICES ASSUME Init PROVE SpecInv
    OBVIOUS
<1>1. /\ avail = 0 /\ opens = 0 /\ tracker = {} /\ dummyRef = 1 /\ fsig = {}
      /\ arr = [a \in Arrays |-> NoFences]
      /\ pc = [t \in Threads |-> "idle"] /\ on = [t \in Threads |-> NoArray]
      /\ fds = [t \in Threads |-> << >>]
      /\ wpc = [w \in Waiters |-> "idle"] /\ won = [w \in Waiters |-> NoArray]
    BY DEF Init
<1>2. RestOK
    <2>1. << >> \in Seq(Fences \cup {BadFd})
        BY EmptySeq
    <2>2. fds \in [Threads -> Seq(Fences \cup {BadFd})]
        BY <1>1, <2>1
    <2>3. avail \in 0..MaxDevices /\ opens \in 0..MaxOpens
        BY <1>1, BoundsAssumption
    <2> QED BY <1>1, <2>2, <2>3 DEF RestOK, Labels
<1>3. arr \in [Arrays -> Records]
    BY <1>1, BlankTypes
<1>4. \A a \in Arrays : arr[a] = NoFences
    BY <1>1
<1>5. /\ NoFences.st = "new" /\ NoFences.kids = << >> /\ NoFences.cbs = {} /\ NoFences.pending = 0
      /\ NoFences.refs = 0 /\ NoFences.irq = FALSE /\ NoFences.fd = FALSE
    BY DEF NoFences
<1>6. \A a \in Arrays : Sound(arr[a], fsig)
    BY <1>4, <1>5 DEF Sound
<1>7. \A a \in Arrays : Outside(arr[a]) = Inside(a)
    <2> SUFFICES ASSUME NEW a \in Arrays PROVE Outside(arr[a]) = Inside(a)
        OBVIOUS
    <2>1. CallersOf(a) = {} /\ WaitersOf(a) = {}
        BY <1>1 DEF CallersOf, WaitersOf
    <2>2. /\ Cardinality(CallersOf(a)) = 0 /\ Cardinality(WaitersOf(a)) = 0
          /\ Cardinality(NoFences.cbs) = 0
        BY <1>5, <2>1, FS_EmptySet
    <2>3. Inside(a) = 0
        BY <1>1, <2>2 DEF Inside, One
    <2>4. Outside(NoFences) = 0
        BY <1>5, <2>2 DEF Outside, One
    <2> QED BY <1>4, <2>3, <2>4
<1>8. (\A t \in Threads : CallOK(t, arr)) /\ ApartPart /\ WaitPart /\ TrackIn(arr)
    BY <1>1 DEF CallOK, ApartPart, Binding, WaitPart, TrackIn
<1>9. BoundIn(arr) /\ LeavesIn(arr)
    BY <1>4, <1>5 DEF BoundIn, LeavesIn
<1>10. \A a \in Arrays : ~Live(a)
    BY <1>4, <1>5 DEF Live
<1>11. DummyRefs
    <2>1. Places(arr) = {}
        BY <1>10 DEF Places, Live
    <2>2. Cardinality(Places(arr)) = 0
        BY <2>1, FS_EmptySet
    <2> QED BY <1>1, <2>2 DEF DummyRefs
<1>12. InvOn(arr)
    BY <1>6, <1>7, <1>8, <1>9 DEF InvOn
<1> QED BY <1>1, <1>2, <1>3, <1>10, <1>11, <1>12 DEF SpecInv

(* Every step keeps it. *)
LEMMA NextInv == SpecInv /\ OneBinder /\ [Next]_vars => SpecInv'
<1> SUFFICES ASSUME SpecInv, OneBinder, [Next]_vars PROVE SpecInv'
    OBVIOUS
<1>1. CASE Open
    BY <1>1, OpenKeeps
<1>2. CASE Release
    BY <1>2, ReleaseKeeps
<1>3. ASSUME NEW t \in Threads, Call(t) PROVE SpecInv'
    <2>1. ASSUME NEW a \in Arrays, NEW s \in Shapes[a], CreateArray(t, a, s[1], s[2])
          PROVE  SpecInv'
        <3>1. s \in Int \X BOOLEAN
            BY ArraysAssumption
        <3>2. s[1] \in 1..MaxFences /\ s[2] \in BOOLEAN
            BY <2>1, <3>1 DEF CreateArray
        <3> QED BY <2>1, <3>2, CreateArrayKeeps
    <2>2. ASSUME NEW a \in Arrays, NEW s \in FdLists[a], BindStart(t, a, s)
          PROVE  SpecInv'
        BY <2>2, BindStartKeeps
    <2> QED BY <1>3, <2>1, <2>2 DEF Call
<1>4. ASSUME NEW t \in Threads, Step(t) PROVE SpecInv'
    <2>1. CASE Track(t)
        BY <2>1, TrackKeeps
    <2>2. CASE Sanitize(t)
        BY <2>2, SanitizeKeeps
    <2>3. CASE CheckChildren(t)
        BY <2>3, CheckChildrenKeeps
    <2>4. CASE Replace(t)
        BY <2>4, ReplaceKeeps
    <2>5. CASE Enable(t)
        BY <2>5, EnableKeeps
    <2>6. CASE SetError(t)
        BY <2>6, SetErrorKeeps
    <2>7. CASE SignalArray(t)
        BY <2>7, SignalArrayKeeps
    <2>8. CASE Clear(t)
        BY <2>8, ClearKeeps
    <2>9. CASE SetBound(t)
        BY <2>9, SetBoundKeeps
    <2>10. CASE PutArray(t)
        BY <2>10, PutArrayKeeps
    <2> QED BY <1>4, <2>1, <2>2, <2>3, <2>4, <2>5, <2>6, <2>7, <2>8, <2>9, <2>10 DEF Step
<1>5. ASSUME NEW a \in Arrays, CloseFd(a) \/ PollFd(a) \/ IrqWork(a) PROVE SpecInv'
    BY <1>5, CloseFdKeeps, PollFdKeeps, IrqWorkKeeps
<1>6. ASSUME NEW w \in Waiters, WaiterStep(w) PROVE SpecInv'
    <2>1. ASSUME NEW a \in Arrays, WaitBind(w, a) PROVE SpecInv'
        BY <2>1, WaitBindKeeps
    <2>2. CASE Woken(w)
        BY <2>2, WaitReturnKeeps DEF Woken
    <2>3. CASE TimedOut(w)
        BY <2>3, WaitReturnKeeps DEF TimedOut
    <2> QED BY <1>6, <2>1, <2>2, <2>3 DEF WaiterStep
<1>7. ASSUME NEW f \in Fences, SignalFence(f) PROVE SpecInv'
    BY <1>7, SignalFenceKeeps
<1>8. CASE UNCHANGED vars
    <2>1. /\ UNCHANGED <<avail, opens>> /\ UNCHANGED <<tracker, arr, dummyRef, fsig>>
          /\ UNCHANGED caller /\ UNCHANGED waiter
        BY <1>8 DEF vars, caller, waiter
    <2>2. avail' \in 0..MaxDevices /\ opens' \in 0..MaxOpens
        BY <2>1 DEF SpecInv, RestOK
    <2> QED BY <2>1, <2>2, QuietStep
<1> QED BY <1>1, <1>2, <1>3, <1>4, <1>5, <1>6, <1>7, <1>8 DEF Next

(* So it always holds, if one thread at a time binds an array. *)
LEMMA AlwaysSpecInv == ASSUME OneBinder PROVE Spec => []SpecInv
BY InitInv, NextInv, PTL DEF Spec
----------------------------------------------------------------------------
(* The count of references that spec_sync's code keeps on an array is the  *)
(* number of those who hold it.                                            *)
LEMMA HoldersOf ==
    ASSUME SpecInv, NEW a \in Arrays
    PROVE  arr[a].refs = Holders(a) /\ arr[a].refs \in Nat
<1>1. arr[a] \in Records /\ Outside(arr[a]) = Inside(a)
    BY DEF SpecInv, InvOn
<1>2. Cardinality(arr[a].cbs) \in Nat
    BY <1>1, CbsCount
<1>3. Cardinality(CallersOf(a)) \in Nat /\ Cardinality(WaitersOf(a)) \in Nat
    BY HeldCounts
<1>4. One(a \in tracker) \in Nat /\ One(arr[a].fd) \in Nat /\ One(arr[a].irq) \in Nat
    BY DEF One
<1>5. arr[a].refs \in Int
    BY <1>1 DEF Records
<1>6. arr[a].refs = One(a \in tracker) + One(arr[a].fd) + One(arr[a].irq)
                    + Cardinality(arr[a].cbs) + Cardinality(CallersOf(a))
                    + Cardinality(WaitersOf(a))
    BY <1>1, <1>2, <1>3, <1>4, <1>5 DEF Outside, Inside
<1>7. Holders(a) = One(a \in tracker) + One(arr[a].fd) + One(arr[a].irq)
                   + Cardinality(arr[a].cbs) + Cardinality(CallersOf(a))
                   + Cardinality(WaitersOf(a))
    BY DEF Holders, CallersOf, WaitersOf
<1> QED BY <1>2, <1>3, <1>4, <1>6, <1>7

(* Every variable keeps its type, and no array's reference count falls     *)
(* below zero: spec_sync.c puts no reference it did not take.              *)
THEOREM ArraysTypeCorrect == ASSUME OneBinder PROVE Spec => []TypeOK
<1>1. SpecInv => TypeOK
    <2> SUFFICES ASSUME SpecInv PROVE TypeOK
        OBVIOUS
    <2>1. ASSUME NEW a \in Arrays
          PROVE  /\ arr[a].st \in {"new", "live", "freed"}
                 /\ arr[a].kids \in UNION {[1..n -> Fences \cup {Dummy}] : n \in 0..MaxFences}
                 /\ arr[a].pending \in Int /\ arr[a].refs \in Nat
                 /\ arr[a].cbs \subseteq 1..Len(arr[a].kids)
        <3>1. arr[a] \in Records /\ Sound(arr[a], fsig)
            BY <2>1 DEF SpecInv, InvOn
        <3>2. /\ arr[a].st \in {"new", "live", "freed"} /\ arr[a].pending \in Int
              /\ arr[a].kids \in Seq(Fences \cup {Dummy})
            BY <3>1 DEF Records
        <3>3. arr[a].refs \in Nat
            BY <2>1, HoldersOf
        <3>4. Len(arr[a].kids) \in 0..MaxFences /\ arr[a].cbs \subseteq 1..Len(arr[a].kids)
            <4>1. CASE arr[a].st = "live"
                BY <3>1, <4>1, BoundsAssumption DEF Sound
            <4>2. CASE arr[a].st # "live"
                BY <3>1, <4>2, BoundsAssumption DEF Sound
            <4> QED BY <4>1, <4>2
        <3>5. arr[a].kids \in [1..Len(arr[a].kids) -> Fences \cup {Dummy}]
            BY <3>2
        <3>6. arr[a].kids \in UNION {[1..n -> Fences \cup {Dummy}] : n \in 0..MaxFences}
            BY <3>4, <3>5
        <3> QED BY <3>2, <3>3, <3>4, <3>6
    <2>2. dummyRef \in Int
        BY DEF SpecInv
    <2> QED BY <2>1, <2>2 DEF TypeOK, SpecInv, RestOK, Labels
<1> QED BY <1>1, AlwaysSpecInv, PTL

(* An array's reference count is always the number of its holders: the     *)
(* tracker, the fd, the deferred signal, the callbacks on its fences, the  *)
(* binds and the waits in progress.  So dma_fence_array_release runs when  *)
(* and only when the last one lets go, whatever the interleaving.          *)
THEOREM ReferencesBalance == ASSUME OneBinder PROVE Spec => []RefsBalanced
<1>1. SpecInv => RefsBalanced
    BY HoldersOf DEF RefsBalanced
<1> QED BY <1>1, AlwaysSpecInv, PTL

(* An array signals after one of its fences if user space asked for any,   *)
(* after all of them if not, unless its bind failed or the device was      *)
(* released.                                                               *)
THEOREM SignalsAsAsked == ASSUME OneBinder PROVE Spec => []SignalsSound
<1>1. SpecInv => SignalsSound
    <2> SUFFICES ASSUME SpecInv, NEW a \in Arrays,
                        Live(a), arr[a].sig, ~arr[a].forced, ~arr[a].err
                 PROVE  LET done == {i \in 1..Len(arr[a].kids) : arr[a].kids[i] \in fsig}
                        IN  IF arr[a].any THEN done # {} ELSE done = 1..Len(arr[a].kids)
        BY DEF SignalsSound
    <2>1. Sound(arr[a], fsig)
        BY DEF SpecInv, InvOn
    <2>2. IF arr[a].any THEN OneDone(arr[a], fsig) ELSE AllDone(arr[a], fsig)
        BY <2>1 DEF Sound, Counts, Live
    <2> QED BY <2>2 DEF OneDone, AllDone
<1> QED BY <1>1, AlwaysSpecInv, PTL

(* Who is woken by a bind finds the real fences in the array or its error, *)
(* except in the window of the bind that failed.                           *)
THEOREM BoundIsComplete == ASSUME OneBinder PROVE Spec => []BoundComplete
<1>1. SpecInv => BoundComplete
    <2> SUFFICES ASSUME SpecInv, NEW a \in Arrays, Live(a), arr[a].bound
                 PROVE  \/ Dummies(arr[a]) = 0
                        \/ arr[a].err
                        \/ \E t \in Threads : pc[t] = "error" /\ on[t] = a
        BY DEF BoundComplete
    <2>1. arr[a] \in Records /\ BoundIn(arr)
        BY DEF SpecInv, InvOn
    <2>2. NoDummy(arr[a]) => Dummies(arr[a]) = 0
        BY <2>1, DummyCounts
    <2> QED BY <2>1, <2>2 DEF BoundIn, Live
<1> QED BY <1>1, AlwaysSpecInv, PTL

(* An array that waits for one fence is signaled when it leaves the        *)
(* tracker, also if the last release of the device threw it out.           *)
THEOREM LeavingSignals == ASSUME OneBinder PROVE Spec => []LeavesSignaled
<1>1. SpecInv => LeavesSignaled
    BY DEF SpecInv, InvOn, LeavesIn, LeavesSignaled, Live
<1> QED BY <1>1, AlwaysSpecInv, PTL
----------------------------------------------------------------------------
(* The references to the dummy, for any number of threads that bind the    *)
(* same array at once: no step puts fewer than it takes places away.       *)
HasFences(r) == {"st", "kids"} \subseteq DOMAIN r /\ r.kids \in Seq(Fences \cup {Dummy})
SameFences(r, q) == HasFences(q) /\ q.st = r.st /\ q.kids = r.kids
FdsOK == fds \in [Threads -> Seq(Fences \cup {BadFd})]
LeakInv ==
    /\ arr = [a \in Arrays |-> arr[a]] /\ \A a \in Arrays : HasFences(arr[a])
    /\ FdsOK /\ dummyRef \in Int /\ DummyNotLeaked

(* What the steps do to a record besides replacing fences.                 *)
LEMMA FencesKept ==
    ASSUME NEW r, HasFences(r)
    PROVE  /\ SameFences(r, r)
           /\ SameFences(r, Put(r)) /\ SameFences(r, Get(Seen(r)))
           /\ SameFences(r, Get(r)) /\ SameFences(r, EnableSignaling(r))
           /\ SameFences(r, [Put(r) EXCEPT !.fd = FALSE])
           /\ SameFences(r, [r EXCEPT !.err = TRUE])
           /\ SameFences(r, [r EXCEPT !.sig = TRUE])
           /\ SameFences(r, [r EXCEPT !.bound = TRUE])
           /\ SameFences(r, Put([r EXCEPT !.irq = FALSE, !.sig = TRUE]))
           /\ \A force : SameFences(r, Cleared(r, force))
           /\ \A f : SameFences(r, Counted(r, f))
<1>1. /\ SameFences(r, r) /\ SameFences(r, Put(r)) /\ SameFences(r, Get(Seen(r)))
      /\ SameFences(r, Get(r)) /\ SameFences(r, [Put(r) EXCEPT !.fd = FALSE])
    BY DEF HasFences, SameFences, Put, Get, Seen
<1>2. SameFences(r, EnableSignaling(r))
    BY DEF HasFences, SameFences, EnableSignaling
<1>3. /\ SameFences(r, [r EXCEPT !.err = TRUE]) /\ SameFences(r, [r EXCEPT !.sig = TRUE])
      /\ SameFences(r, [r EXCEPT !.bound = TRUE])
      /\ SameFences(r, Put([r EXCEPT !.irq = FALSE, !.sig = TRUE]))
    BY DEF HasFences, SameFences, Put
<1>4. ASSUME NEW force PROVE SameFences(r, Cleared(r, force))
    BY DEF HasFences, SameFences, Cleared, Seen, Put
<1>5. ASSUME NEW f PROVE SameFences(r, Counted(r, f))
    BY DEF HasFences, SameFences, Counted
<1> QED BY <1>1, <1>2, <1>3, <1>4, <1>5

(* A step that takes away at most the places whose dummies it puts.        *)
LEMMA LeakSettle ==
    ASSUME LeakInv, NEW next, \A a \in Arrays : HasFences(next[a]), NEW n \in Int,
           Settle(next, n), FdsOK',
           Cardinality(Places(next)) >= Cardinality(Places(arr)) - n
    PROVE  LeakInv'
<1> DEFINE gone == {a \in Arrays : next[a].st = "live" /\ next[a].refs = 0}
           left == {p \in gone \X (1..MaxFences) : p \in Places(next)}
<1>1. /\ arr' = [a \in Arrays |-> IF a \in gone THEN Freed ELSE next[a]]
      /\ dummyRef' = dummyRef - n - Cardinality(left)
    BY DEF Settle
<1>2. Freed.st = "freed" /\ HasFences(Freed)
    <2>1. << >> \in Seq(Fences \cup {Dummy})
        BY EmptySeq
    <2> QED BY <2>1 DEF Freed, NoFences, HasFences
<1> HIDE DEF gone
<1>3. \A a \in Arrays : arr'[a] = IF a \in gone THEN Freed ELSE next[a]
    BY <1>1
<1>4. Places(arr)' = Places(next) \ left
    BY <1>2, <1>3 DEF Places
<1>5. /\ IsFiniteSet(Places(next)) /\ Cardinality(Places(next)) \in Nat
      /\ Cardinality(Places(arr)) \in Nat
    BY PlacesFinite
<1>6. left \in SUBSET Places(next) /\ Places(next) \cap left = left
    OBVIOUS
<1> HIDE DEF left
<1>7. Cardinality(left) \in Nat
    BY <1>5, <1>6, FS_Subset, FS_CardinalityType
<1>8. Cardinality(Places(next) \ left) = Cardinality(Places(next)) - Cardinality(left)
    <2>1. Cardinality(Places(next) \ left)
              = Cardinality(Places(next)) - Cardinality(Places(next) \cap left)
        BY <1>5, FS_Difference
    <2> QED BY <1>6, <2>1
<1>9. dummyRef' \in Int /\ DummyNotLeaked'
    <2>1. dummyRef \in Int /\ dummyRef <= 1 + Cardinality(Places(arr))
        BY DEF LeakInv, DummyNotLeaked
    <2>2. Cardinality(Places(arr)') = Cardinality(Places(next)) - Cardinality(left)
        BY <1>4, <1>8
    <2> QED BY <1>1, <1>5, <1>7, <2>1, <2>2 DEF DummyNotLeaked
<1>10. (arr = [a \in Arrays |-> arr[a]])' /\ \A a \in Arrays : HasFences(arr'[a])
    BY <1>1, <1>2, <1>3
<1> QED BY <1>9, <1>10 DEF LeakInv

(* A step that replaces no fence.                                          *)
LEMMA LeakSame ==
    ASSUME LeakInv, NEW next, \A a \in Arrays : SameFences(arr[a], next[a]),
           Settle(next, 0), FdsOK'
    PROVE  LeakInv'
<1>1. \A a \in Arrays :
          HasFences(next[a]) /\ next[a].st = arr[a].st /\ next[a].kids = arr[a].kids
    BY DEF SameFences
<1>2. Places(next) = Places(arr)
    BY <1>1, SamePlaces
<1>3. Cardinality(Places(next)) >= Cardinality(Places(arr)) - 0
    BY <1>2, PlacesFinite
<1> QED BY <1>1, <1>3, LeakSettle

(* The same on one array.                                                  *)
LEMMA LeakSet ==
    ASSUME LeakInv, NEW a, NEW r, a \in Arrays => SameFences(arr[a], r),
           Settle(Set(a, r), 0), FdsOK'
    PROVE  LeakInv'
<1>1. PICK next : next = Set(a, r)
    OBVIOUS
<1>2. \A b \in Arrays : next[b] = IF b = a THEN r ELSE arr[b]
    BY <1>1 DEF Set, LeakInv
<1>3. \A b \in Arrays : SameFences(arr[b], next[b])
    BY <1>2, FencesKept DEF LeakInv
<1> QED BY <1>1, <1>3, LeakSame

(* A step of a bind that sets a flag of the array.                         *)
LEMMA LeakFlag ==
    ASSUME LeakInv, NEW a, NEW r, a \in Arrays => SameFences(arr[a], r),
           arr' = Set(a, r), UNCHANGED dummyRef, FdsOK'
    PROVE  LeakInv'
<1>1. \A b \in Arrays : arr'[b] = IF b = a THEN r ELSE arr[b]
    BY DEF Set, LeakInv
<1>2. \A b \in Arrays : SameFences(arr[b], arr'[b])
    BY <1>1, FencesKept DEF LeakInv
<1>3. Places(arr)' = Places(arr)
    BY <1>2 DEF SameFences, Places
<1>4. DummyNotLeaked'
    BY <1>3 DEF LeakInv, DummyNotLeaked
<1>5. (arr = [b \in Arrays |-> arr[b]])'
    BY DEF Set, LeakInv
<1> QED BY <1>2, <1>4, <1>5 DEF LeakInv, SameFences

(* Replacing the first n fences of an array takes at most n places.        *)
LEMMA LeakPlaces ==
    ASSUME LeakInv, NEW a \in Arrays, NEW n \in Nat, NEW q,
           q.st = arr[a].st, Len(q.kids) = Len(arr[a].kids),
           \A i \in 1..Len(q.kids) : i > n => q.kids[i] = arr[a].kids[i]
    PROVE  Cardinality(Places(Set(a, q))) >= Cardinality(Places(arr)) - n
<1> DEFINE P == Places(arr)
           Q == {a} \X (1..n)
           R == Places(Set(a, q))
<1>1. \A b \in Arrays : Set(a, q)[b] = IF b = a THEN q ELSE arr[b]
    BY DEF Set, LeakInv
<1>2. P \ Q \in SUBSET R
    <2> SUFFICES ASSUME NEW p \in P, p \notin Q PROVE p \in R
        OBVIOUS
    <2>1. /\ p \in Arrays \X (1..MaxFences) /\ arr[p[1]].st = "live"
          /\ p[2] <= Len(arr[p[1]].kids) /\ arr[p[1]].kids[p[2]] = Dummy
        BY DEF Places
    <2>2. p[1] = a => p[2] > n /\ p[2] \in 1..Len(q.kids)
        <3>1. MaxFences \in Nat /\ Len(q.kids) \in Nat
            BY BoundsAssumption DEF LeakInv, HasFences
        <3> QED BY <2>1, <3>1
    <2> QED BY <1>1, <2>1, <2>2 DEF Places
<1>3. IsFiniteSet(P) /\ Cardinality(P) \in Nat /\ IsFiniteSet(R) /\ Cardinality(R) \in Nat
    BY PlacesFinite
<1>4. IsFiniteSet(Q) /\ Cardinality(Q) = n
    <2>1. IsFiniteSet(1..n) /\ Cardinality(1..n) = n
        <3>1. n \in Nat
            OBVIOUS
        <3> QED BY ONLY <3>1, FS_Interval
    <2>2. IsFiniteSet({a}) /\ Cardinality({a}) = 1
        BY FS_Singleton
    <2>3. IsFiniteSet(Q) /\ Cardinality(Q) = Cardinality({a}) * Cardinality(1..n)
        BY <2>1, <2>2, FS_Product
    <2> QED BY <2>1, <2>2, <2>3
<1> HIDE DEF P, Q, R
<1>5. Cardinality(P \ Q) = Cardinality(P) - Cardinality(P \cap Q)
    BY <1>3, FS_Difference
<1>6. Cardinality(P \cap Q) \in Nat /\ Cardinality(P \cap Q) <= n
    <2>1. P \cap Q \in SUBSET Q
        OBVIOUS
    <2> QED BY <1>4, <2>1, FS_Subset, FS_CardinalityType
<1>7. Cardinality(P \ Q) <= Cardinality(R)
    BY <1>2, <1>3, FS_Subset
<1>8. Cardinality(R) >= Cardinality(P) - n
    BY <1>3, <1>5, <1>6, <1>7
<1> QED BY <1>8 DEF P, R

(* A bind puts a dummy per fence it replaced, whether it then fails or     *)
(* not, and whether another bind replaced them before or not.              *)
LEMMA LeakReplace == ASSUME LeakInv, NEW t \in Threads, Replace(t) PROVE LeakInv'
<1>1. PICK a, r, s, n :
          a = on[t] /\ r = arr[a] /\ s = fds[t] /\ n = Replaced(t)
    OBVIOUS
<1>2. /\ s \in Seq(Fences \cup {BadFd}) /\ n \in 0..Len(s) /\ n \in Nat
      /\ \A i \in 1..n : s[i] \in Fences
    BY <1>1, ReplacedFacts DEF LeakInv, FdsOK
<1>3. PICK kids : kids = [i \in 1..Len(r.kids) |-> IF i <= n THEN s[i] ELSE r.kids[i]]
    OBVIOUS
<1>4. PICK q : /\ \/ q = Rearmed([r EXCEPT !.kids = kids])
                  \/ q = [r EXCEPT !.kids = kids, !.bound = TRUE]
               /\ Settle(Set(a, q), n)
    BY <1>1, <1>3 DEF Replace, DummiesPut
<1>5. FdsOK'
    BY DEF Replace, Goto, LeakInv, FdsOK
<1>6. CASE a \in Arrays
    <2>1. HasFences(r) /\ Len(r.kids) \in Nat
        BY <1>1, <1>6 DEF LeakInv, HasFences
    <2>2. kids \in Seq(Fences \cup {Dummy}) /\ Len(kids) = Len(r.kids)
        <3>1. \A i \in 1..Len(r.kids) : r.kids[i] \in Fences \cup {Dummy}
            BY <2>1 DEF HasFences
        <3>2. \A i \in 1..Len(r.kids) :
                  (IF i <= n THEN s[i] ELSE r.kids[i]) \in Fences \cup {Dummy}
            BY <1>2, <2>1, <3>1
        <3>3. kids \in [1..Len(r.kids) -> Fences \cup {Dummy}]
            BY <1>3, <3>2
        <3> QED BY <2>1, <3>3
    <2>3. q.st = r.st /\ q.kids = kids /\ HasFences(q)
        BY <1>4, <2>1, <2>2 DEF HasFences, Rearmed
    <2>4. \A i \in 1..Len(q.kids) : i > n => q.kids[i] = arr[a].kids[i]
        BY <1>1, <1>2, <1>3, <2>1, <2>2, <2>3
    <2>5. Cardinality(Places(Set(a, q))) >= Cardinality(Places(arr)) - n
        BY <1>1, <1>2, <1>6, <2>2, <2>3, <2>4, LeakPlaces
    <2>6. \A b \in Arrays : HasFences(Set(a, q)[b])
        BY <2>3 DEF Set, LeakInv
    <2> QED BY <1>2, <1>4, <1>5, <2>5, <2>6, LeakSettle
<1>7. CASE a \notin Arrays
    <2>1. Set(a, q) = arr
        BY <1>7 DEF Set, LeakInv
    <2>2. Cardinality(Places(Set(a, q))) >= Cardinality(Places(arr)) - n
        BY <1>2, <2>1, PlacesFinite
    <2>3. \A b \in Arrays : HasFences(Set(a, q)[b])
        BY <2>1 DEF LeakInv
    <2> QED BY <1>2, <1>4, <1>5, <2>2, <2>3, LeakSettle
<1> QED BY <1>6, <1>7

(* A new array takes a reference for each of its places.                   *)
LEMMA LeakCreate ==
    ASSUME LeakInv, NEW t \in Threads, NEW a \in Arrays, NEW n, NEW any, CreateArray(t, a, n, any)
    PROVE  LeakInv'
<1>1. n \in 1..MaxFences /\ arr[a].st # "live" /\ FdsOK'
    BY DEF CreateArray, LeakInv, FdsOK
<1>2. PICK r, m : r = NewArray(n, any) /\ m = -n
    OBVIOUS
<1>3. Settle(Set(a, r), m)
    BY <1>2 DEF CreateArray
<1>4. n \in Nat /\ m \in Int
    BY <1>1, <1>2, BoundsAssumption
<1>5. r.st = "live" /\ r.kids = [i \in 1..n |-> Dummy] /\ HasFences(r)
    <2>1. [i \in 1..n |-> Dummy] \in Seq(Fences \cup {Dummy})
        BY <1>4
    <2> QED BY <1>2, <2>1 DEF NewArray, NoFences, HasFences
<1>6. \A b \in Arrays : Set(a, r)[b] = IF b = a THEN r ELSE arr[b]
    BY DEF Set, LeakInv
<1>7. Cardinality(Places(Set(a, r))) = Cardinality(Places(arr)) + n
    BY <1>1, <1>5, <1>6, NewPlaces
<1>8. Cardinality(Places(Set(a, r))) >= Cardinality(Places(arr)) - m
    BY <1>2, <1>4, <1>7, PlacesFinite
<1>9. \A b \in Arrays : HasFences(Set(a, r)[b])
    BY <1>5, <1>6 DEF LeakInv
<1> QED BY <1>1, <1>3, <1>4, <1>8, <1>9, LeakSettle

(* Every step keeps the dummy's references to its places.                  *)
LEMMA LeakNext == LeakInv /\ [Next]_vars => LeakInv'
<1> SUFFICES ASSUME LeakInv, [Next]_vars PROVE LeakInv'
    OBVIOUS
<1>1. ASSUME UNCHANGED <<arr, dummyRef, fds>> PROVE LeakInv'
    BY <1>1 DEF LeakInv, FdsOK, DummyNotLeaked, Places
<1>2. \A a \in Arrays : HasFences(arr[a])
    BY DEF LeakInv
<1>3. ASSUME NEW t \in Threads, Return(t) PROVE FdsOK'
    <2>1. << >> \in Seq(Fences \cup {BadFd})
        BY EmptySeq
    <2> QED BY <1>3, <2>1 DEF Return, LeakInv, FdsOK
<1>4. ASSUME UNCHANGED fds PROVE FdsOK'
    BY <1>4 DEF LeakInv, FdsOK
<1>5. ASSUME NEW force, ClearTracker(force), UNCHANGED fds PROVE LeakInv'
    <2>1. PICK next :
              /\ next = [a \in Arrays |->
                            IF a \in tracker THEN Cleared(arr[a], force) ELSE arr[a]]
              /\ Settle(next, 0)
        BY <1>5 DEF ClearTracker
    <2>2. \A a \in Arrays : SameFences(arr[a], next[a])
        BY <1>2, <2>1, FencesKept
    <2> QED BY <1>4, <1>5, <2>1, <2>2, LeakSame
<1>6. CASE Open
    BY <1>1, <1>6 DEF Open, caller
<1>7. CASE Release
    BY <1>1, <1>5, <1>7 DEF Release, caller
<1>8. ASSUME NEW t \in Threads, Call(t) PROVE LeakInv'
    <2>1. ASSUME NEW a \in Arrays, NEW s \in FdLists[a], BindStart(t, a, s) PROVE LeakInv'
        <3>1. s \in Seq(Fences \cup {BadFd})
            BY ArraysAssumption
        <3>2. FdsOK' /\ Settle(Set(a, Get(Seen(arr[a]))), 0)
            BY <2>1, <3>1 DEF BindStart, LeakInv, FdsOK
        <3> QED BY <1>2, <3>2, FencesKept, LeakSet
    <2> QED BY <1>8, <2>1, LeakCreate DEF Call
<1>9. ASSUME NEW t \in Threads, Step(t) PROVE LeakInv'
    <2>1. CASE Track(t) \/ Sanitize(t) \/ CheckChildren(t)
        <3>1. UNCHANGED <<arr, dummyRef>> /\ FdsOK'
            BY <1>3, <1>4, <2>1 DEF Track, Sanitize, CheckChildren, Goto
        <3> QED BY <3>1 DEF LeakInv, DummyNotLeaked, Places
    <2>2. CASE Enable(t)
        <3>1. Settle(Set(on[t], EnableSignaling(arr[on[t]])), 0) /\ FdsOK'
            BY <1>4, <2>2 DEF Enable, Goto
        <3>2. on[t] \in Arrays => SameFences(arr[on[t]], EnableSignaling(arr[on[t]]))
            BY <1>2, FencesKept
        <3> QED BY <3>1, <3>2, LeakSet
    <2>3. CASE SetError(t) \/ SignalArray(t) \/ SetBound(t)
        <3>1. PICK r : /\ arr' = Set(on[t], r) /\ UNCHANGED dummyRef /\ FdsOK'
                       /\ \/ r = [arr[on[t]] EXCEPT !.err = TRUE]
                          \/ r = [arr[on[t]] EXCEPT !.sig = TRUE]
                          \/ r = [arr[on[t]] EXCEPT !.bound = TRUE]
            BY <1>4, <2>3 DEF SetError, SignalArray, SetBound, Goto, Set
        <3>2. on[t] \in Arrays => SameFences(arr[on[t]], r)
            BY <1>2, <3>1, FencesKept
        <3> QED BY <3>1, <3>2, LeakFlag
    <2>4. CASE Clear(t)
        BY <1>5, <2>4 DEF Clear, Goto
    <2>5. CASE PutArray(t)
        <3>1. Settle(Set(on[t], Put(arr[on[t]])), 0) /\ FdsOK'
            BY <1>3, <2>5 DEF PutArray
        <3>2. on[t] \in Arrays => SameFences(arr[on[t]], Put(arr[on[t]]))
            BY <1>2, FencesKept
        <3> QED BY <3>1, <3>2, LeakSet
    <2>6. CASE Replace(t)
        BY <2>6, LeakReplace
    <2> QED BY <1>9, <2>1, <2>2, <2>3, <2>4, <2>5, <2>6 DEF Step
<1>10. ASSUME NEW a \in Arrays, CloseFd(a) \/ PollFd(a) \/ IrqWork(a) PROVE LeakInv'
    <2>1. PICK r : /\ Settle(Set(a, r), 0) /\ FdsOK'
                   /\ \/ r = [Put(arr[a]) EXCEPT !.fd = FALSE]
                      \/ r = EnableSignaling(arr[a])
                      \/ r = Put([arr[a] EXCEPT !.irq = FALSE, !.sig = TRUE])
        BY <1>4, <1>10 DEF CloseFd, PollFd, IrqWork, caller
    <2>2. SameFences(arr[a], r)
        BY <1>2, <2>1, FencesKept
    <2> QED BY <2>1, <2>2, LeakSet
<1>11. ASSUME NEW w \in Waiters, WaiterStep(w) PROVE LeakInv'
    <2>1. PICK a, r : /\ Settle(Set(a, r), 0) /\ FdsOK'
                      /\ r = Get(arr[a]) \/ r = Put(arr[a])
        BY <1>4, <1>11 DEF WaiterStep, WaitBind, Woken, TimedOut, WaitReturn, caller
    <2>2. a \in Arrays => SameFences(arr[a], r)
        BY <1>2, <2>1, FencesKept
    <2> QED BY <2>1, <2>2, LeakSet
<1>12. ASSUME NEW f \in Fences, SignalFence(f) PROVE LeakInv'
    <2>1. PICK next : next = [a \in Arrays |-> Counted(arr[a], f)] /\ Settle(next, 0)
        BY <1>12 DEF SignalFence
    <2>2. \A a \in Arrays : SameFences(arr[a], next[a])
        BY <1>2, <2>1, FencesKept
    <2>3. FdsOK'
        BY <1>4, <1>12 DEF SignalFence, caller
    <2> QED BY <2>1, <2>2, <2>3, LeakSame
<1>13. CASE UNCHANGED vars
    BY <1>1, <1>13 DEF vars, caller
<1> QED BY <1>6, <1>7, <1>8, <1>9, <1>10, <1>11, <1>12, <1>13 DEF Next

(* No reference to the dummy fence outlives its place in a live array, in  *)
(* any use of the device, threads that bind the same array at once         *)
(* included: spec_sync_bind_array puts the dummies it replaced also when   *)
(* it fails half way, and a release puts those of a bind that never came.  *)
THEOREM DummyIsNotLeaked == Spec => []DummyNotLeaked
<1>1. Init => LeakInv
    <2> SUFFICES ASSUME Init PROVE LeakInv
        OBVIOUS
    <2>1. HasFences(NoFences)
        <3>1. << >> \in Seq(Fences \cup {Dummy})
            BY EmptySeq
        <3> QED BY <3>1 DEF NoFences, HasFences
    <2>2. arr = [a \in Arrays |-> NoFences] /\ dummyRef = 1
        BY DEF Init
    <2>3. FdsOK
        <3>1. << >> \in Seq(Fences \cup {BadFd})
            BY EmptySeq
        <3> QED BY <3>1 DEF Init, FdsOK
    <2>4. DummyNotLeaked
        BY <2>2, PlacesFinite DEF DummyNotLeaked
    <2> QED BY <2>1, <2>2, <2>3, <2>4 DEF LeakInv
<1>2. LeakInv => DummyNotLeaked
    BY DEF LeakInv
<1> QED BY <1>1, <1>2, LeakNext, PTL DEF Spec
============================================================================
