----------------------- MODULE CamSyncProtocolProofs -----------------------
(***************************************************************************)
(* What callers that keep the protocol get from the camera sync driver,    *)
(* for every number of rows, threads and callbacks: a group completes when *)
(* the last of its children is signaled and not before, its verdict tells  *)
(* whether one of them failed and never changes again, and nothing that    *)
(* was registered is left behind on it.                                    *)
(*                                                                         *)
(* The protocol is the one stated at MayDestroy, with merges whose         *)
(* allocations succeed and a device node that stays open.  Each of the     *)
(* three is needed: TLC finds the counts or the verdicts violated when one *)
(* of them is dropped.                                                     *)
(***************************************************************************)
EXTENDS CamSyncLinkProofs, FiniteSetTheorems

ProtocolKept == Disciplined /\ "nomem" \notin Ops /\ "close" \notin Ops

----------------------------------------------------------------------------
(* Child c has not reached its parent p yet. *)
Awaits(p, c) ==
    \/ p \in parents[c]
    \/ \E t \in Threads : pc[t] = "parents" /\ p \in todo[t] /\ obj[t] = c

(* No thread takes the paths that only a broken protocol or a close opens; *)
(* the objects of a merge and of a wait exist all the while.               *)
Unreached == {"unlink", "dparent", "destroy", "close", "closed"}
Merging == {"check", "find", "claim", "group", "child"}
Orderly(t) ==
    /\ pc[t] \notin Unreached
    /\ args[t] # {} => pc[t] \in Merging
    /\ \A c \in args[t] : Live(c) /\ type[c] = "INDV"
    /\ pc[t] = "wait" => Live(obj[t])
    /\ pc[t] = "child" => /\ ~signaled[obj[t]]
                          /\ children[obj[t]] \subseteq args[t] \ todo[t]
ThreadsKept == eventq /\ closer = NoThread /\ \A t \in Threads : Orderly(t)

(* Links lead from unsignaled objects to live groups that list them. *)
LinksKept ==
    \A c \in Objs : \A p \in parents[c] :
        /\ state[c] = "ACTIVE" /\ type[c] = "INDV"
        /\ Live(p) /\ type[p] = "GROUP" /\ c \in children[p]

(* So do the private lists of the parents loops of cam_sync_signal, and a  *)
(* child reaches a group only once: over its link or from one list.        *)
LoopKept(t) ==
    \A p \in todo[t] :
        /\ Live(p) /\ type[p] = "GROUP" /\ obj[t] \in children[p]
        /\ p \notin parents[obj[t]]
        /\ sts[t] \in BadStates => p \in bad
LoopsKept ==
    /\ \A t \in Threads : pc[t] = "parents" => LoopKept(t)
    /\ \A t, u \in Threads :
          pc[t] = "parents" /\ pc[u] = "parents" /\ obj[t] = obj[u] /\ t # u
              => todo[t] \cap todo[u] = {}

(* A completed row has its final state, waits for nobody and has nothing   *)
(* registered; an individual object counts no children.                    *)
RowKept(o) ==
    /\ Live(o) /\ signaled[o] => /\ state[o] \in Signaled
                                 /\ \A c \in Objs : ~Awaits(o, c)
                                 /\ callbacks[o] = {} /\ payloads[o] = {}
    /\ type[o] = "INDV" => remaining[o] = 0 /\ o \notin bad
RowsKept == \A o \in Objs : RowKept(o)

(* A group with a failed member has a bad state, or will get it from a     *)
(* parents loop that still has it on its list.                             *)
VerdictKept ==
    \A p \in Objs : Live(p) /\ type[p] = "GROUP" =>
        /\ state[p] \in BadStates => p \in bad
        /\ p \in bad => \/ state[p] \in BadStates
                        \/ \E t \in Threads : /\ pc[t] = "parents" /\ p \in todo[t]
                                              /\ sts[t] \in BadStates

(* remaining counts the children on their way. *)
CountKept ==
    \A p \in Objs : Live(p) /\ type[p] = "GROUP" =>
        remaining[p] = Cardinality({c \in Objs : Awaits(p, c)})

ProtoInv == ThreadsKept /\ LinksKept /\ LoopsKept /\ RowsKept /\ VerdictKept /\ CountKept

rows == <<state, type, remaining, parents, children, signaled, bad, callbacks, payloads,
          eventq, closer>>

(* No step of thread t changes a local variable of another thread. *)
Apart(t) == Aside(t) /\ \A u \in Threads \ {t} : sts'[u] = sts[u]

(* Nothing exists and nobody runs when the driver is loaded. *)
LEMMA ProtoInit == Init => ProtoInv
BY DEF Init, ProtoInv, ThreadsKept, Orderly, Unreached, LinksKept, LoopsKept, RowsKept, RowKept,
       VerdictKept, CountKept, Live

(* What a live group waits for is a set of rows, no more than there are. *)
LEMMA AwaitedFinite ==
    ASSUME NEW S \in SUBSET Objs
    PROVE  IsFiniteSet(S) /\ Cardinality(S) \in 0..N
<1>1. IsFiniteSet(Objs) /\ Cardinality(Objs) = N
    BY NAssumption, FS_Interval DEF Objs
<1>2. IsFiniteSet(S) /\ Cardinality(S) <= N
    BY <1>1, FS_Subset
<1> QED BY <1>2, NAssumption, FS_CardinalityType

(* Threads that are not in a parents loop, before and after the step, hold *)
(* no pending child.                                                       *)
LEMMA AwaitsFrame ==
    ASSUME NEW t \in Threads, Aside(t), UNCHANGED parents,
           pc[t] # "parents", pc'[t] # "parents"
    PROVE  \A p, c \in Objs : Awaits(p, c)' <=> Awaits(p, c)
<1> SUFFICES ASSUME NEW p \in Objs, NEW c \in Objs PROVE Awaits(p, c)' <=> Awaits(p, c)
    OBVIOUS
<1>1. ASSUME NEW u \in Threads
      PROVE  (pc[u] = "parents" /\ p \in todo[u] /\ obj[u] = c)'
                 <=> (pc[u] = "parents" /\ p \in todo[u] /\ obj[u] = c)
    BY DEF Aside, Alone
<1> QED BY <1>1 DEF Awaits

(* A step outside the parents loop that changes no row and keeps the       *)
(* order of its own thread.                                                *)
LEMMA ProtoQuiet ==
    ASSUME TypeOK, ProtoInv, NEW t \in Threads, Apart(t), UNCHANGED rows,
           pc[t] # "parents", pc'[t] # "parents", Orderly(t)'
    PROVE  ProtoInv'
<1>a. \A p, c \in Objs : Awaits(p, c)' <=> Awaits(p, c)
    BY AwaitsFrame DEF Apart, rows
<1>u. \A u \in Threads : pc'[u] = "parents" =>
         u # t /\ pc[u] = "parents" /\ obj'[u] = obj[u] /\ todo'[u] = todo[u] /\ sts'[u] = sts[u]
    BY DEF Apart, Aside, Alone
<1>1. ThreadsKept'
    <2>1. ASSUME NEW u \in Threads, u # t PROVE Orderly(u)'
        BY <2>1 DEF ProtoInv, ThreadsKept, Orderly, Apart, Aside, Alone, rows, Live
    <2> QED BY <2>1 DEF ProtoInv, ThreadsKept, rows
<1>2. LinksKept'
    BY DEF ProtoInv, LinksKept, rows, Live
<1>3. LoopsKept'
    BY <1>u DEF ProtoInv, LoopsKept, LoopKept, rows, Live
<1>4. RowsKept'
    BY <1>a DEF ProtoInv, RowsKept, RowKept, rows, Live
<1>5. VerdictKept'
    BY DEF ProtoInv, VerdictKept, rows, Live, Apart, Aside, Alone
<1>6. CountKept'
    <2> SUFFICES ASSUME NEW p \in Objs, Live(p)', type'[p] = "GROUP"
                 PROVE  remaining'[p] = Cardinality({c \in Objs : Awaits(p, c)'})
        BY DEF CountKept
    <2>1. {c \in Objs : Awaits(p, c)'} = {c \in Objs : Awaits(p, c)}
        BY <1>a
    <2> QED BY <2>1 DEF ProtoInv, CountKept, rows, Live
<1> QED BY <1>1, <1>2, <1>3, <1>4, <1>5, <1>6 DEF ProtoInv
(* A return ends whatever the thread was in. *)
LEMMA ReturnOrderly ==
    ASSUME TypeOK, ProtoInv, NEW t \in Threads, Return(t)
    PROVE  Apart(t) /\ Orderly(t)' /\ pc'[t] = "idle"
<1>1. pc'[t] = "idle" /\ args'[t] = {} /\ Apart(t)
    BY ThreadsAssumption DEF TypeOK, ThreadTypeOK, ProtoInv, ThreadsKept, Return, Goto,
       Apart, Aside, Alone
<1> QED BY <1>1 DEF Orderly, Unreached

(* A row that is invalid is zeroed: nobody waits for it, nothing links to  *)
(* it and no parents loop has it on its list.                              *)
LEMMA ProtoReset ==
    ASSUME TypeOK, OwnInv, ProtoInv, NEW t \in Threads, NEW o \in Objs, ~Live(o), Apart(t),
           NEW st \in {"INVALID", "ACTIVE"}, NEW ty \in {"INDV", "GROUP"}, ZeroRow(o, st, ty),
           UNCHANGED <<eventq, closer>>,
           pc[t] # "parents", pc'[t] # "parents", Orderly(t)'
    PROVE  ProtoInv'
<1>f. /\ DOMAIN state = Objs /\ DOMAIN type = Objs /\ DOMAIN remaining = Objs
      /\ DOMAIN parents = Objs /\ DOMAIN children = Objs /\ DOMAIN signaled = Objs
      /\ DOMAIN callbacks = Objs /\ DOMAIN payloads = Objs
      /\ parents \in [Objs -> SUBSET Objs]
      /\ \A u \in Threads : obj[u] \in Objs /\ args[u] \subseteq Objs /\ todo[u] \subseteq Objs
    BY DEF TypeOK, TableTypeOK, NodeTypeOK, ThreadTypeOK
<1>z. /\ \A r \in Objs \ {o} :
            /\ state'[r] = state[r] /\ type'[r] = type[r] /\ remaining'[r] = remaining[r]
            /\ parents'[r] = parents[r] /\ children'[r] = children[r]
            /\ signaled'[r] = signaled[r] /\ callbacks'[r] = callbacks[r]
            /\ payloads'[r] = payloads[r] /\ (r \in bad' <=> r \in bad)
      /\ state'[o] = st /\ type'[o] = ty /\ remaining'[o] = 0 /\ parents'[o] = {} /\ children'[o] = {}
      /\ signaled'[o] = FALSE /\ o \notin bad'
    BY <1>f DEF ZeroRow, EmptyLists
<1>l. parents[o] = {} /\ \A c \in Objs : o \notin parents[c]
    BY DEF ProtoInv, LinksKept, Live
<1>p. parents' = parents
    BY <1>f, <1>l DEF ZeroRow
<1>u. \A u \in Threads : pc'[u] = "parents" =>
         u # t /\ pc[u] = "parents" /\ obj'[u] = obj[u] /\ todo'[u] = todo[u] /\ sts'[u] = sts[u]
    BY DEF Apart, Aside, Alone
<1>n. \A u \in Threads : pc[u] = "parents" => o \notin todo[u]
    BY DEF ProtoInv, LoopsKept, LoopKept
<1>a. \A p, c \in Objs : Awaits(p, c)' <=> Awaits(p, c)
    BY <1>p, AwaitsFrame DEF Apart
<1>o. \A c \in Objs : ~Awaits(o, c)
    BY <1>l, <1>n DEF Awaits
<1>1. ThreadsKept'
    <2>1. ASSUME NEW u \in Threads, u # t PROVE Orderly(u)'
        <3>1. /\ pc'[u] = pc[u] /\ obj'[u] = obj[u] /\ args'[u] = args[u] /\ todo'[u] = todo[u]
              /\ Orderly(u)
            BY <2>1 DEF ProtoInv, ThreadsKept, Apart, Aside, Alone
        <3>2. \A c \in args[u] : c \in Objs \ {o}
            BY <1>f, <3>1 DEF Orderly
        <3>3. pc[u] \in {"wait", "child"} => obj[u] \in Objs \ {o}
            BY <1>f, <3>1 DEF Orderly, OwnInv, Owner, Owning
        <3> QED BY <1>z, <3>1, <3>2, <3>3 DEF Orderly, Live
    <2> QED BY <2>1 DEF ProtoInv, ThreadsKept
<1>2. LinksKept'
    <2> SUFFICES ASSUME NEW c \in Objs, NEW p \in parents'[c]
                 PROVE  /\ state'[c] = "ACTIVE" /\ type'[c] = "INDV"
                        /\ Live(p)' /\ type'[p] = "GROUP" /\ c \in children'[p]
        BY DEF LinksKept
    <2>1. p \in parents[c] /\ c # o /\ p \in Objs \ {o}
        BY <1>f, <1>l, <1>p
    <2> QED BY <1>z, <2>1 DEF ProtoInv, LinksKept, Live
<1>3. LoopsKept'
    <2>1. ASSUME NEW u \in Threads, pc'[u] = "parents" PROVE LoopKept(u)'
        <3>1. /\ pc[u] = "parents" /\ obj'[u] = obj[u] /\ todo'[u] = todo[u]
              /\ sts'[u] = sts[u] /\ LoopKept(u)
            BY <1>u, <2>1 DEF ProtoInv, LoopsKept
        <3>2. \A p \in todo[u] : p \in Objs \ {o}
            BY <1>f, <1>n, <3>1
        <3> QED BY <1>p, <1>z, <3>1, <3>2 DEF LoopKept, Live
    <2> QED BY <1>u, <2>1 DEF ProtoInv, LoopsKept
<1>4. RowsKept'
    <2>1. ASSUME NEW r \in Objs, r # o PROVE RowKept(r)'
        BY <1>a, <1>z, <2>1 DEF ProtoInv, RowsKept, RowKept, Live
    <2>2. RowKept(o)'
        BY <1>z DEF RowKept
    <2> QED BY <2>1, <2>2 DEF RowsKept
<1>5. VerdictKept'
    <2> SUFFICES ASSUME NEW p \in Objs, Live(p)', type'[p] = "GROUP"
                 PROVE  /\ state'[p] \in BadStates => p \in bad'
                        /\ p \in bad' => \/ state'[p] \in BadStates
                                         \/ \E u \in Threads : /\ pc'[u] = "parents" /\ p \in todo'[u]
                                                               /\ sts'[u] \in BadStates
        BY DEF VerdictKept
    <2>1. CASE p = o
        BY <1>z, <2>1 DEF BadStates
    <2>2. CASE p # o
        BY <1>z, <2>2 DEF ProtoInv, VerdictKept, Live, Apart, Aside, Alone
    <2> QED BY <2>1, <2>2
<1>6. CountKept'
    <2> SUFFICES ASSUME NEW p \in Objs, Live(p)', type'[p] = "GROUP"
                 PROVE  remaining'[p] = Cardinality({c \in Objs : Awaits(p, c)'})
        BY DEF CountKept
    <2>1. {c \in Objs : Awaits(p, c)'} = {c \in Objs : Awaits(p, c)}
        BY <1>a
    <2>2. CASE p = o
        <3>1. {c \in Objs : Awaits(p, c)} = {}
            BY <1>o, <2>2
        <3> QED BY <1>z, <2>1, <2>2, <3>1, FS_EmptySet
    <2>3. CASE p # o
        BY <1>z, <2>1, <2>3 DEF ProtoInv, CountKept, Live
    <2> QED BY <2>2, <2>3
<1> QED BY <1>1, <1>2, <1>3, <1>4, <1>5, <1>6 DEF ProtoInv
(* Row types that the steps below use. *)
LEMMA Shapes ==
    ASSUME TypeOK
    PROVE  /\ state \in [Objs -> States] /\ type \in [Objs -> {"INDV", "GROUP"}]
           /\ remaining \in [Objs -> 0..(U32 - 1)] /\ parents \in [Objs -> SUBSET Objs]
           /\ children \in [Objs -> SUBSET Objs] /\ signaled \in [Objs -> BOOLEAN]
           /\ callbacks \in [Objs -> SUBSET Cbs] /\ payloads \in [Objs -> SUBSET Payloads]
           /\ pc \in [Threads -> Pcs] /\ obj \in [Threads -> Objs] /\ sts \in [Threads -> Signaled]
           /\ todo \in [Threads -> SUBSET Objs] /\ args \in [Threads -> SUBSET Objs]
BY DEF TypeOK, TableTypeOK, NodeTypeOK, ThreadTypeOK

(* A merge never fails: its objects stay valid individual objects.  One    *)
(* that is ACTIVE is linked, and the count grows with what it counts.      *)
LEMMA ProtoMergeChild ==
    ASSUME ProtocolKept, TypeOK, OwnInv, LinkInv, ProtoInv,
           NEW t \in Threads, NEW c \in Objs, MergeChild(t, c)
    PROVE  ProtoInv'
<1> DEFINE g == obj[t]
<1>f. /\ state \in [Objs -> States] /\ type \in [Objs -> {"INDV", "GROUP"}]
      /\ remaining \in [Objs -> 0..(U32 - 1)] /\ parents \in [Objs -> SUBSET Objs]
      /\ children \in [Objs -> SUBSET Objs] /\ todo \in [Threads -> SUBSET Objs]
      /\ obj \in [Threads -> Objs]
    BY Shapes
<1>1. /\ pc[t] = "child" /\ c \in todo[t] /\ Orderly(t)
      /\ UNCHANGED <<type, signaled, callbacks, payloads, eventq, closer, obj, sts, args>>
    BY DEF MergeChild, cbVars, payVars, devVars, ProtoInv, ThreadsKept
<1>2. /\ g \in Objs /\ Live(g) /\ type[g] = "GROUP" /\ ~signaled[g]
      /\ c \in args[t] /\ Live(c) /\ type[c] = "INDV" /\ c \notin children[g]
      /\ g \notin parents[c]
    BY <1>f, <1>1 DEF OwnInv, Owner, Owning, Orderly, LinkInv, MergeVisited
<1>3. \A u \in Threads : pc[u] = "child" /\ obj[u] = g => u = t
    BY <1>1 DEF OwnInv, RowOwnership, Owner, Owning
<1>4. /\ pc' = pc /\ todo' = [todo EXCEPT ![t] = @ \ {c}]
      /\ \/ /\ UNCHANGED <<remaining, parents, children>>
            /\ \/ UNCHANGED <<state, bad>>
               \/ /\ state[c] \in BadStates /\ state' = [state EXCEPT ![g] = state[c]]
                  /\ bad' = bad \cup {g}
         \/ /\ state[c] = "ACTIVE" /\ UNCHANGED <<state, bad>>
            /\ remaining' = [remaining EXCEPT ![g] = (@ + 1) % U32]
            /\ children' = [children EXCEPT ![g] = @ \cup {c}]
            /\ parents' = [parents EXCEPT ![c] = @ \cup {g}]
    BY <1>2 DEF MergeChild, linkVars, ProtocolKept, Live
<1>5. Apart(t) /\ todo'[t] = todo[t] \ {c}
    BY <1>f, <1>1, <1>4 DEF Apart, Aside, Alone
<1>6. /\ \A r \in Objs : (Live(r)' <=> Live(r)) /\ (r # g => state'[r] = state[r])
      /\ \A r \in Objs : r # g => /\ remaining'[r] = remaining[r] /\ children'[r] = children[r]
                                  /\ (r \in bad' <=> r \in bad)
      /\ \A r \in Objs : r # c => parents'[r] = parents[r]
      /\ children[g] \subseteq children'[g] /\ children'[g] \subseteq children[g] \cup {c}
      /\ parents'[c] = parents[c] \/ (state[c] = "ACTIVE" /\ parents'[c] = parents[c] \cup {g}
                                      /\ c \in children'[g] /\ UNCHANGED <<state, bad>>)
      /\ bad \subseteq bad'
    BY <1>f, <1>2, <1>4 DEF Live, BadStates
<1>7. \A u \in Threads : pc[u] = "parents" =>
         u # t /\ pc'[u] = "parents" /\ obj'[u] = obj[u] /\ todo'[u] = todo[u] /\ LoopKept(u)
    BY <1>1, <1>4, <1>5 DEF Apart, Aside, Alone, ProtoInv, LoopsKept
<1>8. ~\E u \in Threads : pc[u] = "parents" /\ g \in todo[u] /\ obj[u] = c
    BY <1>2, <1>7 DEF LoopKept
<1>9. ~Awaits(g, c)
    BY <1>2, <1>8 DEF Awaits
<1>10. \A p, r \in Objs : p # g \/ r # c => (Awaits(p, r)' <=> Awaits(p, r))
    <2> SUFFICES ASSUME NEW p \in Objs, NEW r \in Objs, p # g \/ r # c
                 PROVE  Awaits(p, r)' <=> Awaits(p, r)
        OBVIOUS
    <2>1. p \in parents'[r] <=> p \in parents[r]
        BY <1>6
    <2>2. \A u \in Threads : (pc[u] = "parents" /\ p \in todo[u] /\ obj[u] = r)'
                               <=> (pc[u] = "parents" /\ p \in todo[u] /\ obj[u] = r)
        BY <1>4, <1>7
    <2> QED BY <2>1, <2>2 DEF Awaits
<1>11. ThreadsKept'
    <2>1. ASSUME NEW u \in Threads, u # t PROVE Orderly(u)'
        <3>1. /\ pc'[u] = pc[u] /\ obj'[u] = obj[u] /\ args'[u] = args[u] /\ todo'[u] = todo[u]
              /\ Orderly(u) /\ obj[u] \in Objs /\ args[u] \in SUBSET Objs
            BY <1>5, <2>1, Shapes DEF ProtoInv, ThreadsKept, Apart, Aside, Alone
        <3>2. pc[u] = "child" => obj[u] # g
            BY <1>3, <2>1
        <3> QED BY <1>1, <1>6, <3>1, <3>2 DEF Orderly
    <2>2. Orderly(t)'
        <3>1. args[t] \in SUBSET Objs
            BY Shapes
        <3> QED BY <1>1, <1>2, <1>4, <1>5, <1>6, <3>1 DEF Orderly
    <2> QED BY <1>1, <2>1, <2>2 DEF ProtoInv, ThreadsKept
<1>12. LinksKept'
    <2> SUFFICES ASSUME NEW r \in Objs, NEW p \in parents'[r]
                 PROVE  /\ state'[r] = "ACTIVE" /\ type'[r] = "INDV"
                        /\ Live(p)' /\ type'[p] = "GROUP" /\ r \in children'[p]
        BY DEF LinksKept
    <2>1. CASE p \in parents[r]
        <3>1. /\ state[r] = "ACTIVE" /\ type[r] = "INDV" /\ r # g /\ p \in Objs
              /\ Live(p) /\ type[p] = "GROUP" /\ r \in children[p]
            BY <1>2, <1>f, <2>1 DEF ProtoInv, LinksKept
        <3> QED BY <1>1, <1>6, <3>1
    <2>2. CASE p \notin parents[r]
        BY <1>1, <1>2, <1>6, <2>2
    <2> QED BY <2>1, <2>2
<1>13. LoopsKept'
    <2>1. ASSUME NEW u \in Threads, pc'[u] = "parents" PROVE LoopKept(u)'
        <3>1. /\ pc[u] = "parents" /\ obj'[u] = obj[u] /\ todo'[u] = todo[u]
              /\ sts'[u] = sts[u] /\ LoopKept(u) /\ obj[u] \in Objs /\ todo[u] \in SUBSET Objs
            BY <1>1, <1>4, <1>7, <2>1, <1>f
        <3> QED BY <1>1, <1>6, <1>8, <3>1 DEF LoopKept
    <2> QED BY <1>1, <1>4, <1>7, <2>1 DEF ProtoInv, LoopsKept
<1>14. RowsKept'
    <2>1. ASSUME NEW r \in Objs, r # g PROVE RowKept(r)'
        <3>1. RowKept(r)
            BY DEF ProtoInv, RowsKept
        <3> QED BY <1>1, <1>6, <1>10, <2>1, <3>1 DEF RowKept
    <2>2. ASSUME NEW r \in Objs, r = g PROVE RowKept(r)'
        BY <1>1, <1>2, <2>2 DEF RowKept
    <2> QED BY <2>1, <2>2 DEF RowsKept
<1>15. VerdictKept'
    <2> SUFFICES ASSUME NEW p \in Objs, Live(p)', type'[p] = "GROUP"
                 PROVE  /\ state'[p] \in BadStates => p \in bad'
                        /\ p \in bad' => \/ state'[p] \in BadStates
                                         \/ \E u \in Threads : /\ pc'[u] = "parents" /\ p \in todo'[u]
                                                               /\ sts'[u] \in BadStates
        BY DEF VerdictKept
    <2>1. \A u \in Threads : pc[u] = "parents" /\ p \in todo[u] /\ sts[u] \in BadStates =>
                                 pc'[u] = "parents" /\ p \in todo'[u] /\ sts'[u] \in BadStates
        BY <1>1, <1>7
    <2>2. CASE UNCHANGED <<state, bad>>
        BY <1>1, <2>1, <2>2 DEF ProtoInv, VerdictKept, Live
    <2>3. CASE /\ state[c] \in BadStates /\ state' = [state EXCEPT ![g] = state[c]]
               /\ bad' = bad \cup {g}
        <3>1. CASE p = g
            BY <1>f, <2>3, <3>1
        <3>2. CASE p # g
            BY <1>1, <1>f, <2>1, <2>3, <3>2 DEF ProtoInv, VerdictKept, Live
        <3> QED BY <3>1, <3>2
    <2> QED BY <1>4, <2>2, <2>3
<1>16. CountKept'
    <2> SUFFICES ASSUME NEW p \in Objs, Live(p)', type'[p] = "GROUP"
                 PROVE  remaining'[p] = Cardinality({r \in Objs : Awaits(p, r)'})
        BY DEF CountKept
    <2> DEFINE A == {r \in Objs : Awaits(p, r)}
    <2>0. remaining[p] = Cardinality(A) /\ IsFiniteSet(A) /\ Cardinality(A) \in 0..N
        <3>1. Live(p) /\ type[p] = "GROUP"
            BY <1>1, <1>6
        <3> QED BY <3>1, AwaitedFinite DEF ProtoInv, CountKept
    <2>1. CASE p = g /\ parents' = [parents EXCEPT ![c] = @ \cup {g}]
                     /\ remaining' = [remaining EXCEPT ![g] = (@ + 1) % U32]
        <3>1. Awaits(p, c)'
            BY <1>f, <2>1 DEF Awaits
        <3>2. {r \in Objs : Awaits(p, r)'} = A \cup {c} /\ c \notin A
            BY <1>9, <1>10, <2>1, <3>1
        <3>3. Cardinality(A \cup {c}) = Cardinality(A) + 1
            BY <2>0, <3>2, FS_AddElement
        <3>4. A \cup {c} \in SUBSET Objs
            OBVIOUS
        <3>5. Cardinality(A) + 1 \in 0..N
            BY <3>3, <3>4, AwaitedFinite
        <3>6. (Cardinality(A) + 1) % U32 = Cardinality(A) + 1
            BY <3>5, NAssumption, U32Assumption
        <3> QED BY <1>f, <2>0, <2>1, <3>2, <3>3, <3>6
    <2>2. CASE p # g
        <3>1. {r \in Objs : Awaits(p, r)'} = A
            BY <1>10, <2>2
        <3> QED BY <1>6, <2>0, <2>2, <3>1
    <2>3. CASE UNCHANGED <<remaining, parents, children>>
        <3>1. \A r \in Objs : Awaits(p, r)' <=> Awaits(p, r)
            BY <1>1, <1>4, <1>5, <2>3, AwaitsFrame DEF Apart
        <3>2. {r \in Objs : Awaits(p, r)'} = A
            BY <3>1
        <3> QED BY <2>0, <2>3, <3>2
    <2> QED BY <1>4, <2>1, <2>2, <2>3
<1> QED BY <1>11, <1>12, <1>13, <1>14, <1>15, <1>16 DEF ProtoInv
(* The end of a merge: a group that waits for nobody is complete, and has  *)
(* nothing registered, for its row was locked from the start.              *)
LEMMA ProtoMergeDone ==
    ASSUME TypeOK, OwnInv, CallbackInv, LinkInv, ProtoInv, NEW t \in Threads, MergeDone(t)
    PROVE  ProtoInv'
<1> DEFINE g == obj[t]
<1>f. /\ state \in [Objs -> States] /\ signaled \in [Objs -> BOOLEAN] /\ obj \in [Threads -> Objs]
      /\ args \in [Threads -> SUBSET Objs] /\ parents \in [Objs -> SUBSET Objs]
      /\ todo \in [Threads -> SUBSET Objs]
    BY Shapes
<1>1. /\ pc[t] = "child" /\ Return(t) /\ g \in Objs
      /\ UNCHANGED <<type, remaining, parents, children, bad, callbacks, payloads, eventq, closer>>
    BY <1>f DEF MergeDone, linkVars, cbVars, payVars, devVars
<1>2. Live(g) /\ type[g] = "GROUP"
    BY <1>1 DEF OwnInv, Owner, Owning, LinkInv, MergeVisited
<1>3. Apart(t) /\ Orderly(t)' /\ pc'[t] = "idle"
    BY <1>1, ReturnOrderly
<1>4. CASE remaining[g] # 0
    BY <1>1, <1>3, <1>4, ProtoQuiet DEF MergeDone, AllSignaled, rows
<1>5. CASE remaining[g] = 0
    <2>1. /\ state' = [state EXCEPT ![g] = MergedState(g)]
          /\ signaled' = [signaled EXCEPT ![g] = TRUE]
        BY <1>5 DEF MergeDone, AllSignaled
    <2>2. MergedState(g) \in Signaled /\ \A r \in Objs : Live(r)' <=> Live(r)
        BY <1>1, <1>2, <1>f, <2>1 DEF MergedState, Signaled, BadStates, Live
    <2>a. \A p, c \in Objs : Awaits(p, c)' <=> Awaits(p, c)
        BY <1>1, <1>3, AwaitsFrame DEF Apart
    <2>3. \A c \in Objs : ~Awaits(g, c)
        <3> DEFINE A == {c \in Objs : Awaits(g, c)}
        <3>1. Cardinality(A) = 0 /\ IsFiniteSet(A)
            BY <1>1, <1>2, <1>5, AwaitedFinite DEF ProtoInv, CountKept
        <3>2. A = {}
            BY <3>1, FS_EmptySet
        <3> QED BY <3>2
    <2>4. callbacks[g] = {} /\ payloads[g] = {}
        BY <1>1 DEF CallbackInv, LinkInv, BlankUnpaid, Blank, Building
    <2>u. \A u \in Threads : pc'[u] = "parents" =>
             u # t /\ pc[u] = "parents" /\ obj'[u] = obj[u] /\ todo'[u] = todo[u] /\ sts'[u] = sts[u]
        BY <1>3 DEF Apart, Aside, Alone
    <2>5. ThreadsKept'
        <3>1. ASSUME NEW u \in Threads, u # t PROVE Orderly(u)'
            <4>1. /\ pc'[u] = pc[u] /\ obj'[u] = obj[u] /\ args'[u] = args[u]
                  /\ todo'[u] = todo[u] /\ Orderly(u) /\ obj[u] \in Objs /\ args[u] \in SUBSET Objs
                BY <1>3, <1>f, <3>1 DEF ProtoInv, ThreadsKept, Apart, Aside, Alone
            <4>2. pc[u] = "child" => obj[u] # g
                BY <1>1, <3>1 DEF OwnInv, RowOwnership, Owner, Owning
            <4> QED BY <1>1, <1>f, <2>1, <2>2, <4>1, <4>2 DEF Orderly
        <3> QED BY <1>1, <1>3, <3>1 DEF ProtoInv, ThreadsKept
    <2>6. LinksKept'
        <3> SUFFICES ASSUME NEW r \in Objs, NEW p \in parents'[r]
                     PROVE  /\ state'[r] = "ACTIVE" /\ type'[r] = "INDV"
                            /\ Live(p)' /\ type'[p] = "GROUP" /\ r \in children'[p]
            BY DEF LinksKept
        <3>1. /\ state[r] = "ACTIVE" /\ type[r] = "INDV" /\ r # g /\ p \in Objs
              /\ Live(p) /\ type[p] = "GROUP" /\ r \in children[p]
            BY <1>1, <1>2, <1>f DEF ProtoInv, LinksKept
        <3> QED BY <1>1, <1>f, <2>1, <2>2, <3>1
    <2>7. LoopsKept'
        <3>1. ASSUME NEW u \in Threads, pc'[u] = "parents" PROVE LoopKept(u)'
            <4>1. /\ pc[u] = "parents" /\ obj'[u] = obj[u] /\ todo'[u] = todo[u]
                  /\ sts'[u] = sts[u] /\ LoopKept(u) /\ todo[u] \in SUBSET Objs
                BY <1>f, <2>u, <3>1 DEF ProtoInv, LoopsKept
            <4> QED BY <1>1, <2>2, <4>1 DEF LoopKept
        <3> QED BY <2>u, <3>1 DEF ProtoInv, LoopsKept
    <2>8. RowsKept'
        <3>1. ASSUME NEW r \in Objs, r # g PROVE RowKept(r)'
            BY <1>1, <1>f, <2>1, <2>a, <3>1 DEF ProtoInv, RowsKept, RowKept, Live
        <3>2. ASSUME NEW r \in Objs, r = g PROVE RowKept(r)'
            BY <1>1, <1>2, <1>f, <2>1, <2>2, <2>3, <2>4, <2>a, <3>2 DEF RowKept
        <3> QED BY <3>1, <3>2 DEF RowsKept
    <2>9. VerdictKept'
        <3> SUFFICES ASSUME NEW p \in Objs, Live(p)', type'[p] = "GROUP"
                     PROVE  /\ state'[p] \in BadStates => p \in bad'
                            /\ p \in bad' => \/ state'[p] \in BadStates
                                             \/ \E u \in Threads : /\ pc'[u] = "parents"
                                                                   /\ p \in todo'[u]
                                                                   /\ sts'[u] \in BadStates
            BY DEF VerdictKept
        <3>1. \A u \in Threads : pc[u] = "parents" /\ p \in todo[u] /\ sts[u] \in BadStates =>
                                     pc'[u] = "parents" /\ p \in todo'[u] /\ sts'[u] \in BadStates
            BY <1>1, <1>3 DEF Apart, Aside, Alone
        <3>2. Live(p) /\ type[p] = "GROUP" /\ (state'[p] \in BadStates <=> state[p] \in BadStates)
            BY <1>1, <1>f, <2>1, <2>2 DEF MergedState, BadStates
        <3> QED BY <1>1, <3>1, <3>2 DEF ProtoInv, VerdictKept
    <2>10. CountKept'
        <3> SUFFICES ASSUME NEW p \in Objs, Live(p)', type'[p] = "GROUP"
                     PROVE  remaining'[p] = Cardinality({c \in Objs : Awaits(p, c)'})
            BY DEF CountKept
        <3>1. {c \in Objs : Awaits(p, c)'} = {c \in Objs : Awaits(p, c)}
            BY <2>a
        <3> QED BY <1>1, <2>2, <3>1 DEF ProtoInv, CountKept
    <2> QED BY <2>5, <2>6, <2>7, <2>8, <2>9, <2>10 DEF ProtoInv
<1> QED BY <1>4, <1>5

(* Destroying a row: it has completed, so no object links to it, it links  *)
(* to none, no parents loop will reach it and no call in progress uses it. *)
LEMMA ProtoDestroyMark ==
    ASSUME ProtocolKept, TypeOK, OwnInv, ProtoInv, NEW t \in Threads, NEW o \in Objs,
           DestroyMark(t, o)
    PROVE  ProtoInv'
<1>f. /\ state \in [Objs -> States] /\ obj \in [Threads -> Objs]
      /\ args \in [Threads -> SUBSET Objs] /\ parents \in [Objs -> SUBSET Objs]
      /\ todo \in [Threads -> SUBSET Objs] /\ children \in [Objs -> SUBSET Objs]
      /\ pc \in [Threads -> Pcs]
    BY Shapes
<1>1. /\ pc[t] = "idle" /\ signaled[o] /\ \A u \in Threads \ {t} : o \notin Uses(u)
      /\ ~RowLocked(o)
      /\ UNCHANGED <<type, remaining, signaled, bad, callbacks, payloads, eventq, closer>>
    BY DEF DestroyMark, Idle, MayDestroy, ProtocolKept, cbVars, payVars, devVars, ProtoInv,
           ThreadsKept, Orderly, Unreached
<1>2. CASE ~Live(o)
    <2>1. Return(t) /\ UNCHANGED <<state, parents, children>>
        BY <1>2 DEF DestroyMark
    <2> QED BY <1>1, <2>1, ReturnOrderly, ProtoQuiet DEF rows
<1>3. CASE Live(o)
    <2>0. /\ state' = [state EXCEPT ![o] = "INVALID"]
          /\ children' = [children EXCEPT ![o] = {}]
          /\ parents' = [parents EXCEPT ![o] = {}]
          /\ obj' = [obj EXCEPT ![t] = o] /\ sts' = sts
          /\ Teardown(t, children[o], parents[o])
        BY <1>3 DEF DestroyMark
    <2>1. state[o] \in Signaled /\ \A c \in Objs : ~Awaits(o, c)
        BY <1>1, <1>3 DEF ProtoInv, RowsKept, RowKept
    <2>2. parents[o] = {} /\ parents' = parents
        BY <1>f, <2>0, <2>1 DEF ProtoInv, LinksKept, Signaled
    <2>3. /\ Apart(t) /\ pc'[t] \in {"dchild", "dfinal"} /\ args'[t] = {}
        BY <1>f, <2>0, <2>2 DEF Teardown, Goto, Apart, Aside, Alone
    <2>4. Orderly(t)'
        BY <2>3 DEF Orderly, Unreached
    <2>a. \A p, c \in Objs : Awaits(p, c)' <=> Awaits(p, c)
        BY <1>1, <2>2, <2>3, AwaitsFrame DEF Apart
    <2>r. \A r \in Objs : r # o => (Live(r)' <=> Live(r)) /\ state'[r] = state[r]
                                   /\ children'[r] = children[r]
        BY <1>f, <2>0 DEF Live
    <2>n. ~Live(o)'
        BY <1>f, <2>0 DEF Live
    <2>u. \A u \in Threads : pc'[u] = "parents" =>
             u # t /\ pc[u] = "parents" /\ obj'[u] = obj[u] /\ todo'[u] = todo[u] /\ sts'[u] = sts[u]
        BY <2>3 DEF Apart, Aside, Alone
    <2>5. ThreadsKept'
        <3>1. ASSUME NEW u \in Threads, u # t PROVE Orderly(u)'
            <4>1. /\ pc'[u] = pc[u] /\ obj'[u] = obj[u] /\ args'[u] = args[u]
                  /\ todo'[u] = todo[u] /\ Orderly(u) /\ obj[u] \in Objs /\ args[u] \in SUBSET Objs
                BY <1>f, <2>3, <3>1 DEF ProtoInv, ThreadsKept, Apart, Aside, Alone
            <4>2. o \notin args[u] /\ (pc[u] = "wait" => obj[u] # o)
                BY <1>1, <3>1 DEF Uses
            <4>3. pc[u] = "child" => obj[u] # o
                BY <1>1 DEF RowLocked
            <4> QED BY <1>1, <2>r, <4>1, <4>2, <4>3 DEF Orderly
        <3> QED BY <1>1, <2>4, <3>1 DEF ProtoInv, ThreadsKept
    <2>6. LinksKept'
        <3> SUFFICES ASSUME NEW r \in Objs, NEW p \in parents'[r]
                     PROVE  /\ state'[r] = "ACTIVE" /\ type'[r] = "INDV"
                            /\ Live(p)' /\ type'[p] = "GROUP" /\ r \in children'[p]
            BY DEF LinksKept
        <3>1. p \in parents[r] /\ r # o /\ p \in Objs /\ p # o
            BY <1>f, <2>1, <2>2 DEF Awaits
        <3> QED BY <1>1, <2>r, <3>1 DEF ProtoInv, LinksKept
    <2>7. LoopsKept'
        <3>1. ASSUME NEW u \in Threads, pc'[u] = "parents" PROVE LoopKept(u)'
            <4>1. /\ pc[u] = "parents" /\ obj'[u] = obj[u] /\ todo'[u] = todo[u]
                  /\ sts'[u] = sts[u] /\ LoopKept(u) /\ todo[u] \in SUBSET Objs /\ obj[u] \in Objs
                BY <1>f, <2>u, <3>1 DEF ProtoInv, LoopsKept
            <4>2. o \notin todo[u]
                BY <2>1, <4>1 DEF Awaits
            <4> QED BY <1>1, <2>2, <2>r, <4>1, <4>2 DEF LoopKept
        <3> QED BY <2>u, <3>1 DEF ProtoInv, LoopsKept
    <2>8. RowsKept'
        <3>1. ASSUME NEW r \in Objs PROVE RowKept(r)'
            <4>1. RowKept(r)
                BY DEF ProtoInv, RowsKept
            <4> QED BY <1>1, <2>a, <2>r, <2>n, <4>1 DEF RowKept
        <3> QED BY <3>1 DEF RowsKept
    <2>9. VerdictKept'
        <3> SUFFICES ASSUME NEW p \in Objs, Live(p)', type'[p] = "GROUP"
                     PROVE  /\ state'[p] \in BadStates => p \in bad'
                            /\ p \in bad' => \/ state'[p] \in BadStates
                                             \/ \E u \in Threads : /\ pc'[u] = "parents"
                                                                   /\ p \in todo'[u]
                                                                   /\ sts'[u] \in BadStates
            BY DEF VerdictKept
        <3>1. \A u \in Threads : pc[u] = "parents" /\ p \in todo[u] /\ sts[u] \in BadStates =>
                                     pc'[u] = "parents" /\ p \in todo'[u] /\ sts'[u] \in BadStates
            BY <1>1, <2>3 DEF Apart, Aside, Alone
        <3>2. p # o
            BY <2>n
        <3> QED BY <1>1, <2>r, <3>1, <3>2 DEF ProtoInv, VerdictKept
    <2>10. CountKept'
        <3> SUFFICES ASSUME NEW p \in Objs, Live(p)', type'[p] = "GROUP"
                     PROVE  remaining'[p] = Cardinality({c \in Objs : Awaits(p, c)'})
            BY DEF CountKept
        <3>1. {c \in Objs : Awaits(p, c)'} = {c \in Objs : Awaits(p, c)}
            BY <2>a
        <3> QED BY <1>1, <2>r, <2>n, <3>1 DEF ProtoInv, CountKept
    <2> QED BY <2>5, <2>6, <2>7, <2>8, <2>9, <2>10 DEF ProtoInv
<1> QED BY <1>2, <1>3
(* A row is signaled: its links move to the private list of the thread,    *)
(* so that every parent waits for the same children as before.             *)
LEMMA ProtoSignalRow ==
    ASSUME TypeOK, OwnInv, ProtoInv, NEW t \in Threads, NEW o \in Objs, NEW s \in Signaled,
           SignalRow(t, o, s)
    PROVE  ProtoInv'
<1>f. /\ state \in [Objs -> States] /\ obj \in [Threads -> Objs] /\ sts \in [Threads -> Signaled]
      /\ args \in [Threads -> SUBSET Objs] /\ parents \in [Objs -> SUBSET Objs]
      /\ todo \in [Threads -> SUBSET Objs] /\ signaled \in [Objs -> BOOLEAN]
      /\ callbacks \in [Objs -> SUBSET Cbs] /\ payloads \in [Objs -> SUBSET Payloads]
      /\ pc \in [Threads -> Pcs] /\ type \in [Objs -> {"INDV", "GROUP"}]
    BY Shapes
<1>1. /\ pc[t] \in {"idle", "signal"} /\ ~RowLocked(o) /\ args[t] = {}
      /\ UNCHANGED <<type, remaining, children, eventq, closer>> /\ eventq
    BY DEF SignalRow, Idle, devVars, ProtoInv, ThreadsKept, Orderly, Merging
<1>2. CASE Return(t) /\ NoDispatch /\ UNCHANGED <<state, parents, bad>>
    BY <1>1, <1>2, ReturnOrderly, ProtoQuiet DEF NoDispatch, rows
<1>3. ASSUME state[o] = "ACTIVE", type[o] = "INDV", state' = [state EXCEPT ![o] = s],
             DispatchSignaledCb(o, s), parents' = [parents EXCEPT ![o] = {}],
             bad' = IF s \in BadStates THEN bad \cup parents[o] ELSE bad,
             IF parents[o] = {} THEN Return(t)
             ELSE /\ todo' = [todo EXCEPT ![t] = parents[o]]
                  /\ obj' = [obj EXCEPT ![t] = o]
                  /\ sts' = [sts EXCEPT ![t] = s]
                  /\ Goto(t, "parents")
                  /\ UNCHANGED args
      PROVE  ProtoInv'
    <2>1. /\ callbacks' = [callbacks EXCEPT ![o] = {}]
          /\ payloads' = [payloads EXCEPT ![o] = {}]
          /\ signaled' = [signaled EXCEPT ![o] = TRUE]
        BY <1>1, <1>3 DEF DispatchSignaledCb
    <2>2. /\ Apart(t) /\ Orderly(t)'
          /\ \/ parents[o] = {} /\ pc'[t] = "idle"
             \/ /\ parents[o] # {} /\ pc'[t] = "parents" /\ todo'[t] = parents[o]
                /\ obj'[t] = o /\ sts'[t] = s
        <3>1. CASE parents[o] = {}
            BY <1>3, <3>1, ReturnOrderly
        <3>2. CASE parents[o] # {}
            BY <1>1, <1>3, <1>f, <3>2 DEF Goto, Apart, Aside, Alone, Orderly, Unreached
        <3> QED BY <3>1, <3>2
    <2>u. \A u \in Threads : u # t => /\ pc'[u] = pc[u] /\ obj'[u] = obj[u] /\ todo'[u] = todo[u]
                                      /\ sts'[u] = sts[u] /\ args'[u] = args[u]
        BY <2>2 DEF Apart, Aside, Alone
    <2>r. \A r \in Objs : /\ Live(r)' <=> Live(r)
                          /\ r # o => state'[r] = state[r] /\ parents'[r] = parents[r]
                          /\ parents'[r] \subseteq parents[r]
        BY <1>3, <1>f DEF Live, Signaled
    <2>p. parents'[o] = {} /\ bad \subseteq bad' /\ bad' \subseteq bad \cup parents[o]
        BY <1>3, <1>f
    <2>l. \A p \in parents[o] : p \in Objs /\ Live(p) /\ type[p] = "GROUP" /\ o \in children[p] /\ p # o
        BY <1>3, <1>f DEF ProtoInv, LinksKept
    <2>a. \A p, c \in Objs : Awaits(p, c)' <=> Awaits(p, c)
        <3> SUFFICES ASSUME NEW p \in Objs, NEW c \in Objs PROVE Awaits(p, c)' <=> Awaits(p, c)
            OBVIOUS
        <3>1. ASSUME NEW u \in Threads, u # t
              PROVE  (pc[u] = "parents" /\ p \in todo[u] /\ obj[u] = c)'
                        <=> (pc[u] = "parents" /\ p \in todo[u] /\ obj[u] = c)
            BY <2>u, <3>1
        <3>2. ~(pc[t] = "parents")
            BY <1>1
        <3>3. CASE c = o
            <4>1. (pc[t] = "parents" /\ p \in todo[t] /\ obj[t] = c)' <=> p \in parents[o]
                BY <2>2, <3>3
            <4> QED BY <2>p, <3>1, <3>2, <3>3, <4>1 DEF Awaits
        <3>4. CASE c # o
            <4>1. ~(pc[t] = "parents" /\ p \in todo[t] /\ obj[t] = c)'
                BY <2>2, <3>4
            <4> QED BY <2>r, <3>1, <3>2, <3>4, <4>1 DEF Awaits
        <3> QED BY <3>3, <3>4
    <2>3. ThreadsKept'
        <3>1. ASSUME NEW u \in Threads, u # t PROVE Orderly(u)'
            <4>1. Orderly(u) /\ obj[u] \in Objs /\ args[u] \in SUBSET Objs
                BY <1>f DEF ProtoInv, ThreadsKept
            <4>2. pc[u] = "child" => obj[u] # o
                BY <1>1 DEF RowLocked
            <4> QED BY <1>1, <1>f, <2>1, <2>u, <2>r, <3>1, <4>1, <4>2 DEF Orderly
        <3> QED BY <1>1, <2>2, <3>1 DEF ProtoInv, ThreadsKept
    <2>4. LinksKept'
        <3> SUFFICES ASSUME NEW r \in Objs, NEW p \in parents'[r]
                     PROVE  /\ state'[r] = "ACTIVE" /\ type'[r] = "INDV"
                            /\ Live(p)' /\ type'[p] = "GROUP" /\ r \in children'[p]
            BY DEF LinksKept
        <3>1. p \in parents[r] /\ r # o /\ p \in Objs
            BY <1>f, <2>r, <2>p
        <3> QED BY <1>1, <2>r, <3>1 DEF ProtoInv, LinksKept
    <2>5. LoopsKept'
        <3>1. ASSUME NEW u \in Threads, pc'[u] = "parents" PROVE LoopKept(u)'
            <4>1. CASE u = t
                BY <1>1, <1>3, <2>2, <2>r, <2>p, <2>l, <3>1, <4>1 DEF LoopKept
            <4>2. CASE u # t
                <5>1. /\ pc[u] = "parents" /\ obj'[u] = obj[u] /\ todo'[u] = todo[u]
                      /\ sts'[u] = sts[u] /\ LoopKept(u) /\ todo[u] \in SUBSET Objs /\ obj[u] \in Objs
                    BY <1>f, <2>u, <3>1, <4>2 DEF ProtoInv, LoopsKept
                <5> QED BY <1>1, <2>r, <2>p, <5>1 DEF LoopKept
            <4> QED BY <4>1, <4>2
        <3>2. ASSUME NEW u \in Threads, NEW v \in Threads, pc'[u] = "parents", pc'[v] = "parents",
                     obj'[u] = obj'[v], u # v
              PROVE  todo'[u] \cap todo'[v] = {}
            <4>0. ASSUME NEW w \in Threads, w # t, pc'[w] = "parents", obj'[w] = o
                  PROVE  todo'[w] \cap parents[o] = {}
                <5>1. pc[w] = "parents" /\ obj[w] = o /\ LoopKept(w) /\ todo'[w] = todo[w]
                    BY <2>u, <4>0 DEF ProtoInv, LoopsKept
                <5> QED BY <5>1 DEF LoopKept
            <4>1. CASE u = t
                BY <2>2, <3>2, <4>0, <4>1
            <4>2. CASE v = t
                BY <2>2, <3>2, <4>0, <4>2
            <4>3. CASE u # t /\ v # t
                BY <2>u, <3>2, <4>3 DEF ProtoInv, LoopsKept
            <4> QED BY <4>1, <4>2, <4>3
        <3> QED BY <3>1, <3>2 DEF LoopsKept
    <2>6. RowsKept'
        <3>1. ASSUME NEW r \in Objs, r # o PROVE RowKept(r)'
            <4>1. RowKept(r)
                BY DEF ProtoInv, RowsKept
            <4>2. /\ signaled'[r] = signaled[r] /\ callbacks'[r] = callbacks[r]
                  /\ payloads'[r] = payloads[r]
                BY <1>f, <2>1, <3>1
            <4>3. type[r] = "INDV" => r \notin parents[o]
                BY <2>l
            <4> QED BY <1>1, <2>a, <2>r, <2>p, <3>1, <4>1, <4>2, <4>3 DEF RowKept
        <3>2. RowKept(o)'
            <4>1. RowKept(o)
                BY DEF ProtoInv, RowsKept
            <4>2. \A c \in Objs : ~Awaits(o, c)
                BY <1>3, <1>f DEF Awaits, ProtoInv, LinksKept, LoopsKept, LoopKept
            <4>3. callbacks'[o] = {} /\ payloads'[o] = {} /\ state'[o] = s /\ o \notin parents[o]
                BY <1>3, <1>f, <2>1, <2>l
            <4> QED BY <1>1, <1>3, <2>a, <2>p, <4>1, <4>2, <4>3 DEF RowKept
        <3> QED BY <3>1, <3>2 DEF RowsKept
    <2>7. VerdictKept'
        <3> SUFFICES ASSUME NEW p \in Objs, Live(p)', type'[p] = "GROUP"
                     PROVE  /\ state'[p] \in BadStates => p \in bad'
                            /\ p \in bad' => \/ state'[p] \in BadStates
                                             \/ \E u \in Threads : /\ pc'[u] = "parents"
                                                                   /\ p \in todo'[u]
                                                                   /\ sts'[u] \in BadStates
            BY DEF VerdictKept
        <3>1. p # o /\ Live(p) /\ type[p] = "GROUP" /\ state'[p] = state[p]
            BY <1>1, <1>3, <2>r
        <3>2. \A u \in Threads : pc[u] = "parents" /\ p \in todo[u] /\ sts[u] \in BadStates =>
                                     pc'[u] = "parents" /\ p \in todo'[u] /\ sts'[u] \in BadStates
            BY <1>1, <2>u
        <3>3. CASE p \in bad \/ p \notin bad'
            BY <2>p, <3>1, <3>2, <3>3 DEF ProtoInv, VerdictKept
        <3>4. CASE p \notin bad /\ p \in bad'
            <4>1. p \in parents[o] /\ s \in BadStates
                BY <1>3, <3>4
            <4>2. pc'[t] = "parents" /\ p \in todo'[t] /\ sts'[t] \in BadStates
                BY <2>2, <4>1
            <4> QED BY <3>4, <4>2
        <3> QED BY <3>3, <3>4
    <2>8. CountKept'
        <3> SUFFICES ASSUME NEW p \in Objs, Live(p)', type'[p] = "GROUP"
                     PROVE  remaining'[p] = Cardinality({c \in Objs : Awaits(p, c)'})
            BY DEF CountKept
        <3>1. {c \in Objs : Awaits(p, c)'} = {c \in Objs : Awaits(p, c)}
            BY <2>a
        <3> QED BY <1>1, <2>r, <3>1 DEF ProtoInv, CountKept
    <2> QED BY <2>3, <2>4, <2>5, <2>6, <2>7, <2>8 DEF ProtoInv
<1> QED BY <1>2, <1>3 DEF SignalRow

(* One turn of the parents loop: the parent waits for one child less, and  *)
(* its count says so; with the last one it completes.                      *)
LEMMA ProtoSignalParent ==
    ASSUME TypeOK, OwnInv, ProtoInv, NEW t \in Threads, NEW p \in Objs, SignalParent(t, p)
    PROVE  ProtoInv'
<1>f. /\ state \in [Objs -> States] /\ obj \in [Threads -> Objs] /\ sts \in [Threads -> Signaled]
      /\ args \in [Threads -> SUBSET Objs] /\ parents \in [Objs -> SUBSET Objs]
      /\ todo \in [Threads -> SUBSET Objs] /\ signaled \in [Objs -> BOOLEAN]
      /\ callbacks \in [Objs -> SUBSET Cbs] /\ payloads \in [Objs -> SUBSET Payloads]
      /\ pc \in [Threads -> Pcs] /\ type \in [Objs -> {"INDV", "GROUP"}]
      /\ remaining \in [Objs -> 0..(U32 - 1)]
    BY Shapes
<1>x. PICK x \in Objs : x = obj[t]
    BY <1>f
<1>1. /\ pc[t] = "parents" /\ p \in todo[t] /\ ~RowLocked(p) /\ LoopKept(t) /\ args[t] = {}
      /\ UNCHANGED <<type, parents, children, bad, eventq, closer>> /\ eventq /\ x = obj[t]
      /\ remaining' = [remaining EXCEPT ![p] = LeftAfter(p)]
    BY <1>x DEF SignalParent, devVars, ProtoInv, ThreadsKept, Orderly, Merging, LoopsKept
<1>2. /\ Live(p) /\ type[p] = "GROUP" /\ x \in children[p] /\ p \notin parents[x]
      /\ sts[t] \in BadStates => p \in bad
    BY <1>1 DEF LoopKept
<1>3. /\ state' = [state EXCEPT ![p] = UpdateParentState(p, sts[t])]
      /\ IF AllSignaled(LeftAfter(p)) THEN DispatchSignaledCb(p, UpdateParentState(p, sts[t]))
         ELSE NoDispatch
    BY <1>2 DEF SignalParent
<1>4. /\ Apart(t) /\ Orderly(t)'
      /\ \/ todo[t] = {p} /\ pc'[t] = "idle"
         \/ /\ todo[t] # {p} /\ pc'[t] = "parents" /\ obj'[t] = x /\ todo'[t] = todo[t] \ {p}
            /\ sts'[t] = sts[t]
    <2>1. CASE todo[t] = {p}
        BY <2>1, ReturnOrderly DEF SignalParent
    <2>2. CASE todo[t] # {p}
        <3>1. todo' = [todo EXCEPT ![t] = @ \ {p}] /\ UNCHANGED <<pc, obj, sts, args>>
            BY <2>2 DEF SignalParent
        <3> QED BY <1>1, <1>f, <2>2, <3>1 DEF Apart, Aside, Alone, Orderly, Unreached
    <2> QED BY <2>1, <2>2
<1>u. \A u \in Threads : u # t => /\ pc'[u] = pc[u] /\ obj'[u] = obj[u] /\ todo'[u] = todo[u]
                                  /\ sts'[u] = sts[u] /\ args'[u] = args[u]
    BY <1>4 DEF Apart, Aside, Alone
<1>s. /\ state'[p] = IF state[p] \in BadStates THEN state[p] ELSE sts[t]
      /\ state'[p] \in Signaled
      /\ \A r \in Objs : (Live(r)' <=> Live(r)) /\ (r # p => state'[r] = state[r])
      /\ \A r \in Objs : r # p => remaining'[r] = remaining[r]
    BY <1>1, <1>2, <1>3, <1>f DEF UpdateParentState, Live, Signaled, BadStates
<1>5. ASSUME NEW u \in Threads, u # t, pc[u] = "parents", obj[u] = x PROVE p \notin todo[u]
    BY <1>1, <1>5 DEF ProtoInv, LoopsKept
<1>6. Awaits(p, x)
    BY <1>1 DEF Awaits
<1>7. ~Awaits(p, x)'
    BY <1>1, <1>2, <1>4, <1>5, <1>u DEF Awaits
<1>8. \A q, c \in Objs : q # p \/ c # x => (Awaits(q, c)' <=> Awaits(q, c))
    <2> SUFFICES ASSUME NEW q \in Objs, NEW c \in Objs, q # p \/ c # x
                 PROVE  Awaits(q, c)' <=> Awaits(q, c)
        OBVIOUS
    <2>1. ASSUME NEW u \in Threads
          PROVE  (pc[u] = "parents" /\ q \in todo[u] /\ obj[u] = c)'
                    <=> (pc[u] = "parents" /\ q \in todo[u] /\ obj[u] = c)
        <3>1. CASE u = t
            BY <1>1, <1>4, <3>1
        <3>2. CASE u # t
            BY <1>u, <3>2
        <3> QED BY <3>1, <3>2
    <2> QED BY <1>1, <2>1 DEF Awaits
<1>9. /\ LeftAfter(p) = remaining[p] - 1 /\ remaining[p] \in 1..N
      /\ remaining[p] - 1 = Cardinality({c \in Objs : Awaits(p, c)'})
    <2> DEFINE A == {c \in Objs : Awaits(p, c)}
    <2>1. remaining[p] = Cardinality(A) /\ IsFiniteSet(A) /\ Cardinality(A) \in 0..N
        BY <1>2, AwaitedFinite DEF ProtoInv, CountKept
    <2>2. x \in A /\ {c \in Objs : Awaits(p, c)'} = A \ {x}
        BY <1>6, <1>7, <1>8
    <2>3. Cardinality(A \ {x}) = Cardinality(A) - 1 /\ Cardinality(A) # 0
        BY <2>1, <2>2, FS_RemoveElement, FS_EmptySet
    <2>4. (remaining[p] - 1) % U32 = remaining[p] - 1
        BY <2>1, <2>3, NAssumption, U32Assumption
    <2>5. Cardinality({c \in Objs : Awaits(p, c)'}) = Cardinality(A \ {x})
        BY <2>2
    <2> HIDE DEF A
    <2>6. remaining[p] - 1 = Cardinality(A \ {x}) /\ remaining[p] \in 1..N
        BY <2>1, <2>3, NAssumption
    <2>7. LeftAfter(p) = remaining[p] - 1
        BY <2>4 DEF LeftAfter
    <2> QED BY <2>5, <2>6, <2>7
<1>10. ~signaled[p]
    BY <1>2, <1>6 DEF ProtoInv, RowsKept, RowKept
<1>11. IF remaining[p] = 1
       THEN /\ callbacks' = [callbacks EXCEPT ![p] = {}]
            /\ payloads' = [payloads EXCEPT ![p] = {}]
            /\ signaled' = [signaled EXCEPT ![p] = TRUE]
            /\ \A c \in Objs : ~Awaits(p, c)'
       ELSE UNCHANGED <<callbacks, payloads, signaled>>
    <2>1. CASE remaining[p] = 1
        <3> DEFINE B == {c \in Objs : Awaits(p, c)'}
        <3>1. B \in SUBSET Objs /\ Cardinality(B) = 0
            BY <1>9, <2>1
        <3>2. B = {}
            BY <3>1, AwaitedFinite, FS_EmptySet
        <3> QED BY <1>1, <1>3, <1>9, <2>1, <3>2 DEF AllSignaled, DispatchSignaledCb
    <2>2. CASE remaining[p] # 1
        BY <1>3, <1>9, <2>2 DEF AllSignaled, NoDispatch
    <2> QED BY <2>1, <2>2
<1>12. \A r \in Objs : r # p => /\ signaled'[r] = signaled[r] /\ callbacks'[r] = callbacks[r]
                                /\ payloads'[r] = payloads[r]
    BY <1>11, <1>f
<1>13. ThreadsKept'
    <2>1. ASSUME NEW u \in Threads, u # t PROVE Orderly(u)'
        <3>1. Orderly(u) /\ obj[u] \in Objs /\ args[u] \in SUBSET Objs
            BY <1>f DEF ProtoInv, ThreadsKept
        <3>2. pc[u] = "child" => obj[u] # p
            BY <1>1 DEF RowLocked
        <3> QED BY <1>1, <1>s, <1>u, <1>12, <2>1, <3>1, <3>2 DEF Orderly
    <2> QED BY <1>1, <1>4, <2>1 DEF ProtoInv, ThreadsKept
<1>14. LinksKept'
    <2> SUFFICES ASSUME NEW r \in Objs, NEW q \in parents'[r]
                 PROVE  /\ state'[r] = "ACTIVE" /\ type'[r] = "INDV"
                        /\ Live(q)' /\ type'[q] = "GROUP" /\ r \in children'[q]
        BY DEF LinksKept
    <2>1. /\ state[r] = "ACTIVE" /\ type[r] = "INDV" /\ q \in Objs
          /\ Live(q) /\ type[q] = "GROUP" /\ r \in children[q]
        BY <1>1, <1>f DEF ProtoInv, LinksKept
    <2> QED BY <1>1, <1>2, <1>s, <2>1
<1>15. LoopsKept'
    <2>1. ASSUME NEW u \in Threads, pc'[u] = "parents"
          PROVE  /\ pc[u] = "parents" /\ obj'[u] = obj[u] /\ todo'[u] \subseteq todo[u]
                 /\ sts'[u] = sts[u] /\ LoopKept(u) /\ todo[u] \in SUBSET Objs
        <3>1. CASE u = t
            BY <1>1, <1>4, <1>f, <2>1, <3>1
        <3>2. CASE u # t
            BY <1>u, <1>f, <2>1, <3>2 DEF ProtoInv, LoopsKept
        <3> QED BY <3>1, <3>2
    <2>2. ASSUME NEW u \in Threads, pc'[u] = "parents" PROVE LoopKept(u)'
        BY <1>1, <1>s, <2>1, <2>2 DEF LoopKept
    <2>3. ASSUME NEW u \in Threads, NEW v \in Threads, pc'[u] = "parents", pc'[v] = "parents",
                 obj'[u] = obj'[v], u # v
          PROVE  todo'[u] \cap todo'[v] = {}
        <3>1. todo[u] \cap todo[v] = {}
            BY <2>1, <2>3 DEF ProtoInv, LoopsKept
        <3> QED BY <2>1, <2>3, <3>1
    <2> QED BY <2>2, <2>3 DEF LoopsKept
<1>16. RowsKept'
    <2>1. ASSUME NEW r \in Objs, r # p PROVE RowKept(r)'
        <3>1. RowKept(r)
            BY DEF ProtoInv, RowsKept
        <3> QED BY <1>1, <1>8, <1>12, <1>s, <2>1, <3>1 DEF RowKept
    <2>2. RowKept(p)'
        BY <1>1, <1>2, <1>10, <1>11, <1>s, <1>f DEF RowKept
    <2> QED BY <2>1, <2>2 DEF RowsKept
<1>17. VerdictKept'
    <2> SUFFICES ASSUME NEW q \in Objs, Live(q)', type'[q] = "GROUP"
                 PROVE  /\ state'[q] \in BadStates => q \in bad'
                        /\ q \in bad' => \/ state'[q] \in BadStates
                                         \/ \E u \in Threads : /\ pc'[u] = "parents"
                                                               /\ q \in todo'[u]
                                                               /\ sts'[u] \in BadStates
        BY DEF VerdictKept
    <2>1. Live(q) /\ type[q] = "GROUP"
        BY <1>1, <1>s
    <2>2. \A u \in Threads : u # t \/ q # p =>
              (pc[u] = "parents" /\ q \in todo[u] /\ sts[u] \in BadStates =>
                   pc'[u] = "parents" /\ q \in todo'[u] /\ sts'[u] \in BadStates)
        BY <1>1, <1>4, <1>u
    <2>3. CASE q # p
        BY <1>1, <1>s, <2>1, <2>2, <2>3 DEF ProtoInv, VerdictKept
    <2>4. CASE q = p
        <3>1. state'[q] \in BadStates => q \in bad'
            BY <1>1, <1>2, <1>s, <2>1, <2>4 DEF ProtoInv, VerdictKept
        <3>2. CASE sts[t] \in BadStates
            BY <1>s, <2>4, <3>1, <3>2
        <3>3. CASE sts[t] \notin BadStates
            <4>1. \A u \in Threads : pc[u] = "parents" /\ q \in todo[u] /\ sts[u] \in BadStates =>
                                         u # t
                BY <3>3
            <4>2. state[q] \in BadStates => state'[q] \in BadStates
                BY <1>s, <2>4
            <4> QED BY <1>1, <2>1, <2>2, <3>1, <4>1, <4>2 DEF ProtoInv, VerdictKept
        <3> QED BY <3>2, <3>3
    <2> QED BY <2>3, <2>4
<1>18. CountKept'
    <2> SUFFICES ASSUME NEW q \in Objs, Live(q)', type'[q] = "GROUP"
                 PROVE  remaining'[q] = Cardinality({c \in Objs : Awaits(q, c)'})
        BY DEF CountKept
    <2>1. CASE q = p
        BY <1>1, <1>9, <1>f, <2>1
    <2>2. CASE q # p
        <3>1. {c \in Objs : Awaits(q, c)'} = {c \in Objs : Awaits(q, c)}
            BY <1>8, <2>2
        <3> QED BY <1>1, <1>s, <2>2, <3>1 DEF ProtoInv, CountKept
    <2> QED BY <2>1, <2>2
<1> QED BY <1>13, <1>14, <1>15, <1>16, <1>17, <1>18 DEF ProtoInv
(* A step of no thread's that changes at most the registrations on rows,   *)
(* and leaves none on a completed row.                                     *)
LEMMA ProtoRegister ==
    ASSUME ProtoInv,
           UNCHANGED <<state, type, remaining, parents, children, signaled, bad, eventq, closer,
                       pc, obj, sts, todo, args>>,
           \A o \in Objs : Live(o) /\ signaled[o] => callbacks'[o] = {} /\ payloads'[o] = {}
    PROVE  ProtoInv'
<1>a. \A p, c \in Objs : Awaits(p, c)' <=> Awaits(p, c)
    BY DEF Awaits
<1>1. ThreadsKept' /\ LinksKept' /\ VerdictKept'
    BY DEF ProtoInv, ThreadsKept, Orderly, LinksKept, VerdictKept, Live
<1>2. LoopsKept'
    BY DEF ProtoInv, LoopsKept, LoopKept, Live
<1>3. RowsKept'
    BY <1>a DEF ProtoInv, RowsKept, RowKept, Live
<1>4. CountKept'
    <2> SUFFICES ASSUME NEW p \in Objs, Live(p)', type'[p] = "GROUP"
                 PROVE  remaining'[p] = Cardinality({c \in Objs : Awaits(p, c)'})
        BY DEF CountKept
    <2>1. {c \in Objs : Awaits(p, c)'} = {c \in Objs : Awaits(p, c)}
        BY <1>a
    <2> QED BY <2>1 DEF ProtoInv, CountKept, Live
<1> QED BY <1>1, <1>2, <1>3, <1>4 DEF ProtoInv

(* A callback registered on a completed row is due at once. *)
LEMMA CompletedDue ==
    ASSUME TypeOK, ProtoInv, NEW o \in Objs, Live(o), signaled[o]
    PROVE  CallbackDue(o) /\ PayloadDue(o) /\ callbacks[o] = {} /\ payloads[o] = {}
<1>1. /\ state[o] \in Signaled /\ callbacks[o] = {} /\ payloads[o] = {}
      /\ \A c \in Objs : ~Awaits(o, c)
      /\ type[o] = "INDV" => remaining[o] = 0
    BY DEF ProtoInv, RowsKept, RowKept
<1>2. type[o] = "GROUP" => remaining[o] = 0
    <2>1. {c \in Objs : Awaits(o, c)} = {}
        BY <1>1
    <2> QED BY <2>1, FS_EmptySet DEF ProtoInv, CountKept
<1>3. type[o] \in {"INDV", "GROUP"}
    BY Shapes
<1> QED BY <1>1, <1>2, <1>3 DEF CallbackDue, PayloadDue

(* Every step of callers that keep the protocol keeps the invariant. *)
LEMMA ProtoStep ==
    ASSUME ProtocolKept
    PROVE  TypeOK /\ OwnInv /\ CallbackInv /\ LinkInv /\ ProtoInv /\ [Next]_vars => ProtoInv'
<1> SUFFICES ASSUME TypeOK, OwnInv, CallbackInv, LinkInv, ProtoInv, [Next]_vars PROVE ProtoInv'
    OBVIOUS
<1>f. /\ parents \in [Objs -> SUBSET Objs] /\ pc \in [Threads -> Pcs] /\ obj \in [Threads -> Objs]
      /\ sts \in [Threads -> Signaled] /\ todo \in [Threads -> SUBSET Objs]
      /\ args \in [Threads -> SUBSET Objs] /\ callbacks \in [Objs -> SUBSET Cbs]
      /\ payloads \in [Objs -> SUBSET Payloads] /\ signaled \in [Objs -> BOOLEAN]
      /\ children \in [Objs -> SUBSET Objs]
    BY Shapes
<1>t. \A u \in Threads : Orderly(u)
    BY DEF ProtoInv, ThreadsKept
<1>i. "close" \notin Ops
    BY DEF ProtocolKept
<1>1. ASSUME NEW t \in Threads, FindZeroBit(t) PROVE ProtoInv'
    <2>1. UNCHANGED rows /\ pc[t] # "parents"
        BY <1>1 DEF FindZeroBit, Idle, rowBits, linkVars, cbVars, payVars, devVars, locVars, rows
    <2>2. CASE Return(t)
        BY <2>1, <2>2, ReturnOrderly, ProtoQuiet
    <2>3. CASE ~Return(t)
        <3>1. Apart(t) /\ pc'[t] # "parents" /\ Orderly(t)'
            BY <1>1, <1>f, <1>t, <2>3 DEF FindZeroBit, Idle, Goto, locVars, Apart, Aside, Alone, Orderly, Unreached,
               Merging, Live
        <3> QED BY <2>1, <3>1, ProtoQuiet
    <2> QED BY <2>2, <2>3
<1>2. ASSUME NEW t \in Threads, TestAndSetBit(t) PROVE ProtoInv'
    <2>1. UNCHANGED rows /\ pc[t] # "parents"
        BY <1>2 DEF TestAndSetBit, rowBits, linkVars, cbVars, payVars, devVars, locVars, rows
    <2>2. CASE Return(t)
        BY <2>1, <2>2, ReturnOrderly, ProtoQuiet
    <2>3. CASE ~Return(t)
        <3>1. Apart(t) /\ pc'[t] # "parents" /\ Orderly(t)'
            BY <1>2, <1>f, <1>t, <2>3 DEF TestAndSetBit, Goto, locVars, Apart, Aside, Alone, Orderly, Unreached,
               Merging, Live
        <3> QED BY <2>1, <3>1, ProtoQuiet
    <2> QED BY <2>2, <2>3
<1>3. ASSUME NEW t \in Threads, WaitReturn(t) PROVE ProtoInv'
    <2>1. UNCHANGED rows /\ pc[t] # "parents"
        BY <1>3 DEF WaitReturn, rowBits, linkVars, cbVars, payVars, devVars, locVars, rows
    <2>2. CASE Return(t)
        BY <2>1, <2>2, ReturnOrderly, ProtoQuiet
    <2>3. CASE ~Return(t)
        <3>1. Apart(t) /\ pc'[t] # "parents" /\ Orderly(t)'
            BY <1>3, <1>f, <1>t, <2>3 DEF WaitReturn, Goto, locVars, Apart, Aside, Alone, Orderly, Unreached,
               Merging, Live
        <3> QED BY <2>1, <3>1, ProtoQuiet
    <2> QED BY <2>2, <2>3
<1>4. ASSUME NEW t \in Threads, NEW o \in Objs, MergeCheck(t, o) PROVE ProtoInv'
    <2>1. UNCHANGED rows /\ pc[t] # "parents"
        BY <1>4 DEF MergeCheck, rowBits, linkVars, cbVars, payVars, devVars, locVars, rows
    <2>2. CASE Return(t)
        BY <2>1, <2>2, ReturnOrderly, ProtoQuiet
    <2>3. CASE ~Return(t)
        <3>1. Apart(t) /\ pc'[t] # "parents" /\ Orderly(t)'
            BY <1>4, <1>f, <1>t, <2>3 DEF MergeCheck, Goto, locVars, Apart, Aside, Alone, Orderly, Unreached,
               Merging, Live
        <3> QED BY <2>1, <3>1, ProtoQuiet
    <2> QED BY <2>2, <2>3
<1>5. ASSUME NEW t \in Threads, NEW o \in Objs, WaitStart(t, o) PROVE ProtoInv'
    <2>1. UNCHANGED rows /\ pc[t] # "parents"
        BY <1>5 DEF WaitStart, Idle, rowBits, linkVars, cbVars, payVars, devVars, locVars, rows
    <2>2. CASE Return(t)
        BY <2>1, <2>2, ReturnOrderly, ProtoQuiet
    <2>3. CASE ~Return(t)
        <3>1. Apart(t) /\ pc'[t] # "parents" /\ Orderly(t)'
            BY <1>5, <1>f, <1>t, <2>3 DEF WaitStart, Idle, Goto, locVars, Apart, Aside, Alone, Orderly, Unreached,
               Merging, Live
        <3> QED BY <2>1, <3>1, ProtoQuiet
    <2> QED BY <2>2, <2>3
<1>6. ASSUME NEW t \in Threads, NEW S \in SUBSET Objs, MergeStart(t, S) PROVE ProtoInv'
    <2>1. UNCHANGED rows /\ pc[t] # "parents"
        BY <1>6 DEF MergeStart, Idle, rowBits, linkVars, cbVars, payVars, devVars, locVars, rows
    <2>2. CASE Return(t)
        BY <2>1, <2>2, ReturnOrderly, ProtoQuiet
    <2>3. CASE ~Return(t)
        <3>1. Apart(t) /\ pc'[t] # "parents" /\ Orderly(t)'
            BY <1>6, <1>f, <1>t, <2>3 DEF MergeStart, Idle, Goto, locVars, Apart, Aside, Alone, Orderly, Unreached,
               Merging, Live, MayMerge, ProtocolKept
        <3> QED BY <2>1, <3>1, ProtoQuiet
    <2> QED BY <2>2, <2>3
<1>7. ASSUME NEW t \in Threads, NEW o \in Objs, NEW s \in Statuses, HandleSignal(t, o, s)
       PROVE ProtoInv'
    <2>1. UNCHANGED rows /\ pc[t] # "parents"
        BY <1>7 DEF HandleSignal, Idle, rowBits, linkVars, cbVars, payVars, devVars, locVars, rows
    <2>2. CASE Return(t)
        BY <2>1, <2>2, ReturnOrderly, ProtoQuiet
    <2>3. CASE ~Return(t)
        <3>1. Apart(t) /\ pc'[t] # "parents" /\ Orderly(t)'
            BY <1>7, <1>f, <1>t, <2>3 DEF HandleSignal, Idle, Goto, locVars, Apart, Aside, Alone, Orderly, Unreached,
               Merging, Live
        <3> QED BY <2>1, <3>1, ProtoQuiet
    <2> QED BY <2>2, <2>3
<1>8. ASSUME NEW t \in Threads, NEW o \in Objs, GetObjRef(t, o) PROVE ProtoInv'
    BY <1>8, ProtoRegister DEF GetObjRef, linkVars, cbVars, payVars, devVars, locVars, ProtoInv,
       RowsKept, RowKept
<1>9. ASSUME NEW t \in Threads, NEW o \in Objs, PutObjRef(t, o) PROVE ProtoInv'
    BY <1>9, ProtoRegister DEF PutObjRef, linkVars, cbVars, payVars, devVars, locVars, ProtoInv,
       RowsKept, RowKept
<1>10. ASSUME NEW t \in Threads, NEW o \in Objs, NEW cb \in Cbs, RegisterCallback(t, o, cb)
       PROVE ProtoInv'
    <2>1. \A r \in Objs : Live(r) /\ signaled[r] => callbacks'[r] = {} /\ payloads'[r] = {}
        BY <1>10, <1>f, CompletedDue DEF RegisterCallback, payVars
    <2> QED BY <1>10, <2>1, ProtoRegister DEF RegisterCallback, linkVars, devVars, locVars
<1>11. ASSUME NEW t \in Threads, NEW o \in Objs, NEW cb \in Cbs, DeregisterCallback(t, o, cb)
       PROVE ProtoInv'
    <2>1. \A r \in Objs : Live(r) /\ signaled[r] => callbacks'[r] = {} /\ payloads'[r] = {}
        BY <1>11, <1>f, CompletedDue DEF DeregisterCallback, payVars
    <2> QED BY <1>11, <2>1, ProtoRegister DEF DeregisterCallback, linkVars, devVars, locVars
<1>12. ASSUME NEW t \in Threads, NEW o \in Objs, NEW pl \in Payloads, RegisterUserPayload(t, o, pl)
       PROVE ProtoInv'
    <2>1. \A r \in Objs : Live(r) /\ signaled[r] => callbacks'[r] = {} /\ payloads'[r] = {}
        BY <1>12, <1>f, CompletedDue DEF RegisterUserPayload, cbVars
    <2> QED BY <1>12, <2>1, ProtoRegister DEF RegisterUserPayload, linkVars, devVars, locVars
<1>13. ASSUME NEW t \in Threads, NEW o \in Objs, NEW pl \in Payloads, DeregisterUserPayload(t, o, pl)
       PROVE ProtoInv'
    <2>1. \A r \in Objs : Live(r) /\ signaled[r] => callbacks'[r] = {} /\ payloads'[r] = {}
        BY <1>13, <1>f, CompletedDue DEF DeregisterUserPayload, cbVars
    <2> QED BY <1>13, <2>1, ProtoRegister DEF DeregisterUserPayload, linkVars, devVars, locVars
<1>14. ASSUME NEW cb \in Cbs, CbDispatch(cb) PROVE ProtoInv'
    BY <1>14, ProtoRegister DEF CbDispatch, linkVars, payVars, locVars, ProtoInv, RowsKept, RowKept
<1>15. CASE UNCHANGED vars
    BY <1>15, ProtoRegister DEF vars, linkVars, cbVars, payVars, devVars, locVars, ProtoInv, RowsKept,
       RowKept
<1>16. ASSUME NEW t \in Threads, CreateInit(t) PROVE ProtoInv'
    <2>1. /\ pc[t] = "init" /\ ZeroRow(obj[t], "ACTIVE", "INDV") /\ Return(t)
          /\ UNCHANGED <<eventq, closer>>
        BY <1>16 DEF CreateInit, InitRow, devVars
    <2>2. obj[t] \in Objs /\ ~Live(obj[t])
        BY <1>f, <2>1 DEF OwnInv, Owner, Owning
    <2> QED BY <2>1, <2>2, ReturnOrderly, ProtoReset
<1>17. ASSUME NEW t \in Threads, DestroyFinal(t) PROVE ProtoInv'
    <2>1. /\ pc[t] = "dfinal" /\ ZeroRow(obj[t], "INVALID", "INDV") /\ Return(t)
          /\ UNCHANGED <<eventq, closer>>
        BY <1>17 DEF DestroyFinal, devVars
    <2>2. obj[t] \in Objs /\ ~Live(obj[t])
        BY <1>f, <2>1 DEF OwnInv, Owner, Owning
    <2> QED BY <2>1, <2>2, ReturnOrderly, ProtoReset
<1>18. ASSUME NEW t \in Threads, MergeInit(t) PROVE ProtoInv'
    <2>1. /\ pc[t] = "group" /\ ZeroRow(obj[t], "ACTIVE", "GROUP")
          /\ UNCHANGED <<eventq, closer, obj, sts, args>> /\ Goto(t, "child")
          /\ todo' = [todo EXCEPT ![t] = args[t]]
        BY <1>18 DEF MergeInit, InitRow, devVars
    <2>2. obj[t] \in Objs /\ ~Live(obj[t])
        BY <1>f, <2>1 DEF OwnInv, Owner, Owning
    <2>3. Apart(t) /\ pc'[t] = "child"
        BY <1>f, <2>1 DEF Goto, Apart, Aside, Alone
    <2>4. Orderly(t)'
        <3>1. \A c \in args[t] : c \in Objs /\ c # obj[t] /\ Live(c) /\ type[c] = "INDV"
            BY <1>f, <1>t, <2>2 DEF Orderly
        <3>2. \A r \in Objs : r # obj[t] => state'[r] = state[r] /\ type'[r] = type[r]
            BY <2>1, Shapes DEF ZeroRow
        <3>3. signaled'[obj[t]] = FALSE /\ children'[obj[t]] = {}
            BY <1>f, <2>1, <2>2 DEF ZeroRow
        <3> QED BY <2>1, <2>3, <3>1, <3>2, <3>3 DEF Orderly, Unreached, Merging, Live
    <2> QED BY <2>1, <2>2, <2>3, <2>4, ProtoReset
<1>19. ASSUME NEW t \in Threads, NEW o \in Objs, DestroyChild(t, o) PROVE ProtoInv'
    <2>1. /\ pc[t] = "dchild" /\ UNCHANGED <<state, type, remaining, children, signaled, bad>>
          /\ UNCHANGED <<callbacks, payloads, eventq, closer, obj, sts>>
          /\ parents' = Unlink(parents, o, obj[t])
          /\ Teardown(t, todo[t] \ {o}, args[t])
        BY <1>19 DEF DestroyChild, cbVars, payVars, devVars
    <2>2. obj[t] \notin parents[o] /\ args[t] = {}
        <3>1. ~Live(obj[t])
            BY <2>1 DEF OwnInv, Owner, Owning
        <3> QED BY <1>t, <2>1, <3>1 DEF ProtoInv, LinksKept, Orderly, Merging
    <2>3. parents' = parents
        BY <1>f, <2>1, <2>2 DEF Unlink
    <2>4. Apart(t) /\ pc'[t] \in {"dchild", "dfinal"} /\ args'[t] = {}
        BY <1>f, <2>1, <2>2 DEF Teardown, Goto, Apart, Aside, Alone
    <2>5. Orderly(t)'
        BY <2>4 DEF Orderly, Unreached
    <2> QED BY <2>1, <2>3, <2>4, <2>5, ProtoQuiet DEF rows
<1>20. ASSUME NEW t \in Threads, NEW o \in Objs, MergeChild(t, o) PROVE ProtoInv'
    BY <1>20, ProtoMergeChild
<1>21. ASSUME NEW t \in Threads, MergeDone(t) PROVE ProtoInv'
    BY <1>21, ProtoMergeDone
<1>22. ASSUME NEW t \in Threads, NEW o \in Objs, DestroyMark(t, o) PROVE ProtoInv'
    BY <1>22, ProtoDestroyMark
<1>23. ASSUME NEW t \in Threads, NEW o \in Objs, NEW s \in Signaled, SignalRow(t, o, s)
       PROVE ProtoInv'
    BY <1>23, ProtoSignalRow
<1>24. ASSUME NEW t \in Threads, NEW o \in Objs, SignalParent(t, o) PROVE ProtoInv'
    BY <1>24, ProtoSignalParent
<1>25. ASSUME NEW t \in Threads
       PROVE  /\ ~MergeUnlink(t) /\ ~CloseSignal(t) /\ ~CloseFlush(t) /\ ~CloseDestroy(t)
              /\ ~CloseEnd(t) /\ ~Open(t) /\ ~CloseStart(t)
              /\ \A o \in Objs : ~DestroyParent(t, o)
    <2>1. pc[t] \notin Unreached
        BY <1>t DEF Orderly
    <2> QED BY <1>i, <2>1 DEF Unreached, MergeUnlink, CloseSignal, CloseFlush, CloseDestroy, CloseEnd,
               Open, CloseStart, DestroyParent, Idle
<1> QED
    BY <1>1, <1>2, <1>3, <1>4, <1>5, <1>6, <1>7, <1>8, <1>9, <1>10, <1>11, <1>12, <1>13, <1>14,
       <1>15, <1>16, <1>17, <1>18, <1>19, <1>20, <1>21, <1>22, <1>23, <1>24, <1>25
       DEF Next, Step, Call, CallOn, Quiescent
----------------------------------------------------------------------------
(* The pending children of the model are those that some row awaits. *)
LEMMA PendingIs ==
    ASSUME TypeOK, NEW p \in Objs
    PROVE  Pending(p) = {c \in Objs : Awaits(p, c)}
BY Shapes DEF Pending, Awaits

AllInv == TypeOK /\ OwnInv /\ CallbackInv /\ LinkInv /\ ProtoInv

(* The five invariants together hold in every reachable state. *)
LEMMA Always ==
    ASSUME ProtocolKept
    PROVE  Spec => []AllInv
<1>1. Init => AllInv
    BY TypeInit, OwnInit, CbInit, LinkInit, ProtoInit DEF AllInv
<1>2. AllInv /\ [Next]_vars => AllInv'
    BY TypeStep, OwnStep, CbStep, LinkStep, ProtoStep DEF AllInv
<1> QED
    BY <1>1, <1>2, PTL DEF Spec

(* remaining counts exactly the children that have not reached their       *)
(* group, across every interleaving of merges and signals: the unsigned    *)
(* counter never wraps and no decrement is lost.                           *)
THEOREM RemainingExact ==
    ASSUME ProtocolKept
    PROVE  Spec => []RemainingCounts
<1>1. AllInv => RemainingCounts
    BY PendingIs DEF AllInv, ProtoInv, CountKept, RemainingCounts
<1> QED
    BY <1>1, Always, PTL

(* A group is complete only after the last of its children, and then its   *)
(* state says SUCCESS exactly when none of them failed or was cancelled,   *)
(* whichever child came first.                                             *)
THEOREM GroupsComplete ==
    ASSUME ProtocolKept
    PROVE  Spec => []GroupComplete
<1>1. AllInv => GroupComplete
    <2> SUFFICES ASSUME AllInv, NEW p \in Objs, Live(p), type[p] = "GROUP", signaled[p]
                 PROVE  /\ Pending(p) = {}
                        /\ IF p \in bad THEN state[p] \in BadStates ELSE state[p] = "SUCCESS"
        BY DEF GroupComplete
    <2>1. state[p] \in Signaled /\ \A c \in Objs : ~Awaits(p, c)
        BY DEF AllInv, ProtoInv, RowsKept, RowKept
    <2>2. Pending(p) = {}
        BY <2>1, PendingIs DEF AllInv
    <2>3. ~\E t \in Threads : pc[t] = "parents" /\ p \in todo[t]
        <3> SUFFICES ASSUME NEW t \in Threads, pc[t] = "parents", p \in todo[t] PROVE FALSE
            OBVIOUS
        <3>1. obj[t] \in Objs /\ Awaits(p, obj[t])
            BY Shapes DEF AllInv, Awaits
        <3> QED BY <2>1, <3>1
    <2>4. state[p] \in BadStates <=> p \in bad
        BY <2>3 DEF AllInv, ProtoInv, VerdictKept
    <2> QED BY <2>1, <2>2, <2>4 DEF Signaled, BadStates
<1> QED
    BY <1>1, Always, PTL

(* No callback and no payload is forgotten on a completed object: what     *)
(* races its signal is dispatched by it or finds the final state.          *)
THEOREM NothingLeftBehind ==
    ASSUME ProtocolKept
    PROVE  Spec => []NoneLeftBehind
<1>1. AllInv => NoneLeftBehind
    BY DEF AllInv, ProtoInv, RowsKept, RowKept, NoneLeftBehind
<1> QED
    BY <1>1, Always, PTL

(* A wait that saw the completion finds a final state, and answers 0 only  *)
(* for an object that succeeded with all its children.                     *)
THEOREM WaitsTellTruth ==
    ASSUME ProtocolKept
    PROVE  Spec => []WaitVerdict
<1>1. AllInv => WaitVerdict
    <2> SUFFICES ASSUME AllInv, NEW t \in Threads, pc[t] = "wait", signaled[obj[t]]
                 PROVE  /\ state[obj[t]] \in Signaled
                        /\ WaitResult(obj[t]) = "0" => obj[t] \notin bad /\ Pending(obj[t]) = {}
        BY DEF WaitVerdict, WaitResult
    <2> DEFINE o == obj[t]
    <2>1. o \in Objs /\ type[o] \in {"INDV", "GROUP"}
        BY Shapes DEF AllInv
    <2>2. Live(o)
        BY DEF AllInv, ProtoInv, ThreadsKept, Orderly
    <2>3. RowKept(o)
        BY <2>1 DEF AllInv, ProtoInv, RowsKept
    <2>4. state[o] \in Signaled /\ \A c \in Objs : ~Awaits(o, c)
        BY <2>2, <2>3 DEF RowKept
    <2>5. Pending(o) = {}
        BY <2>1, <2>4, PendingIs DEF AllInv
    <2>6. ~\E u \in Threads : pc[u] = "parents" /\ o \in todo[u]
        <3> SUFFICES ASSUME NEW u \in Threads, pc[u] = "parents", o \in todo[u] PROVE FALSE
            OBVIOUS
        <3>1. obj[u] \in Objs /\ Awaits(o, obj[u])
            BY Shapes DEF AllInv, Awaits
        <3> QED BY <2>4, <3>1
    <2>7. o \in bad => state[o] \in BadStates
        BY <2>1, <2>2, <2>3, <2>6 DEF RowKept, AllInv, ProtoInv, VerdictKept
    <2> QED BY <2>4, <2>5, <2>7 DEF WaitResult, BadStates
<1> QED
    BY <1>1, Always, PTL
(* What a step may do to a completed row and to the queue of callbacks. *)
Stable ==
    /\ \A o \in Objs : signaled[o] /\ Live(o) /\ Live(o)' => state'[o] = state[o]
    /\ \A cb \in workq' \ workq : cbSts'[cb] = state'[cbObj'[cb]]

(* Queueing the callbacks of a row tells each of them the row's new state. *)
LEMMA DispatchTells ==
    ASSUME TypeOK, CallbackInv, NEW o \in Objs, NEW s, DispatchSignaledCb(o, s),
           state' = [state EXCEPT ![o] = s]
    PROVE  \A cb \in workq' \ workq : cbSts'[cb] = state'[cbObj'[cb]]
<1> SUFFICES ASSUME NEW cb \in workq' \ workq PROVE cbSts'[cb] = state'[cbObj'[cb]]
    OBVIOUS
<1>1. cb \in callbacks[o] /\ cb \in Cbs
    BY Shapes DEF DispatchSignaledCb
<1>2. cbObj[cb] = o /\ cbObj' = cbObj /\ cbSts'[cb] = s
    BY <1>1 DEF CallbackInv, CallbackOnce, DispatchSignaledCb
<1> QED BY <1>2, Shapes

(* Every step of callers that keep the protocol is such a step. *)
LEMMA StableStep ==
    ASSUME ProtocolKept
    PROVE  AllInv /\ [Next]_vars => [Stable]_vars
<1> SUFFICES ASSUME AllInv, [Next]_vars PROVE Stable
    OBVIOUS
<1>f. /\ state \in [Objs -> States] /\ obj \in [Threads -> Objs]
    BY Shapes DEF AllInv
<1>i. TypeOK /\ OwnInv /\ CallbackInv /\ LinkInv /\ ProtoInv
    BY DEF AllInv
<1>c. \A o \in Objs : Live(o) /\ signaled[o] => state[o] \in Signaled /\ \A c \in Objs : ~Awaits(o, c)
    BY <1>i DEF ProtoInv, RowsKept, RowKept
<1>q. ASSUME state' = state, workq' \subseteq workq PROVE Stable
    BY <1>q DEF Stable
<1>1. ASSUME NEW t \in Threads,
              \/ FindZeroBit(t) \/ TestAndSetBit(t) \/ WaitReturn(t) \/ MergeUnlink(t)
              \/ CloseSignal(t) \/ CloseFlush(t) \/ CloseDestroy(t) \/ CloseEnd(t)
              \/ Open(t) \/ CloseStart(t)
       PROVE Stable
    BY <1>1, <1>q DEF FindZeroBit, TestAndSetBit, WaitReturn, MergeUnlink, CloseSignal, CloseFlush,
       CloseDestroy, CloseEnd, Open, CloseStart, cbVars
<1>2. ASSUME NEW t \in Threads, NEW o \in Objs,
              \/ MergeCheck(t, o) \/ WaitStart(t, o) \/ GetObjRef(t, o) \/ PutObjRef(t, o)
              \/ DestroyChild(t, o) \/ DestroyParent(t, o)
       PROVE Stable
    BY <1>2, <1>q DEF MergeCheck, WaitStart, GetObjRef, PutObjRef, DestroyChild, DestroyParent, cbVars
<1>3. ASSUME NEW t \in Threads, NEW S \in SUBSET Objs, MergeStart(t, S) PROVE Stable
    BY <1>3, <1>q DEF MergeStart, cbVars
<1>4. ASSUME NEW t \in Threads, NEW o \in Objs, NEW s \in Statuses, HandleSignal(t, o, s)
       PROVE Stable
    BY <1>4, <1>q DEF HandleSignal, cbVars
<1>5. ASSUME NEW t \in Threads, NEW o \in Objs, NEW pl \in Payloads,
              RegisterUserPayload(t, o, pl) \/ DeregisterUserPayload(t, o, pl)
       PROVE Stable
    BY <1>5, <1>q DEF RegisterUserPayload, DeregisterUserPayload, cbVars
<1>6. ASSUME NEW t \in Threads, NEW o \in Objs, NEW cb \in Cbs, DeregisterCallback(t, o, cb)
       PROVE Stable
    BY <1>6, <1>q DEF DeregisterCallback
<1>7. ASSUME NEW cb \in Cbs, CbDispatch(cb) PROVE Stable
    BY <1>7, <1>q DEF CbDispatch
<1>8. CASE UNCHANGED vars
    BY <1>8, <1>q DEF vars, cbVars
<1>9. ASSUME NEW t \in Threads, NEW o \in Objs, NEW cb \in Cbs, RegisterCallback(t, o, cb)
       PROVE Stable
    <2>1. /\ state' = state
          /\ \/ workq' \subseteq workq
             \/ /\ workq' = workq \cup {cb} /\ cbObj' = [cbObj EXCEPT ![cb] = o]
                /\ cbSts' = [cbSts EXCEPT ![cb] = state[o]]
        BY <1>9 DEF RegisterCallback
    <2>2. cbObj \in [Cbs -> Objs] /\ cbSts \in [Cbs -> Signaled]
        BY <1>i DEF TypeOK, NodeTypeOK
    <2> QED BY <2>1, <2>2 DEF Stable
<1>10. ASSUME NEW t \in Threads, CreateInit(t) PROVE Stable
    <2>1. /\ pc[t] = "init" /\ workq' = workq
          /\ state' = [state EXCEPT ![obj[t]] = "ACTIVE"]
        BY <1>10 DEF CreateInit, InitRow, ZeroRow
    <2>2. ~Live(obj[t])
        BY <1>i, <2>1 DEF OwnInv, Owner, Owning
    <2> QED BY <1>f, <2>1, <2>2 DEF Stable
<1>11. ASSUME NEW t \in Threads, MergeInit(t) PROVE Stable
    <2>1. /\ pc[t] = "group" /\ workq' = workq
          /\ state' = [state EXCEPT ![obj[t]] = "ACTIVE"]
        BY <1>11 DEF MergeInit, InitRow, ZeroRow
    <2>2. ~Live(obj[t])
        BY <1>i, <2>1 DEF OwnInv, Owner, Owning
    <2> QED BY <1>f, <2>1, <2>2 DEF Stable
<1>12. ASSUME NEW t \in Threads, DestroyFinal(t) PROVE Stable
    <2>1. /\ pc[t] = "dfinal" /\ workq' = workq
          /\ state' = [state EXCEPT ![obj[t]] = "INVALID"]
        BY <1>12 DEF DestroyFinal, InitRow, ZeroRow
    <2>2. ~Live(obj[t])
        BY <1>i, <2>1 DEF OwnInv, Owner, Owning
    <2> QED BY <1>f, <2>1, <2>2 DEF Stable
<1>13. ASSUME NEW t \in Threads, NEW o \in Objs, MergeChild(t, o) PROVE Stable
    <2>1. pc[t] = "child" /\ workq' = workq
        BY <1>13 DEF MergeChild, cbVars
    <2>2. ~signaled[obj[t]]
        BY <1>i, <2>1 DEF ProtoInv, ThreadsKept, Orderly
    <2>3. \A r \in Objs : r # obj[t] => state'[r] = state[r]
        BY <1>13, <1>f DEF MergeChild, MergeFail
    <2> QED BY <2>1, <2>2, <2>3 DEF Stable
<1>14. ASSUME NEW t \in Threads, MergeDone(t) PROVE Stable
    <2>1. pc[t] = "child" /\ workq' = workq
        BY <1>14 DEF MergeDone, cbVars
    <2>2. ~signaled[obj[t]]
        BY <1>i, <2>1 DEF ProtoInv, ThreadsKept, Orderly
    <2>3. \A r \in Objs : r # obj[t] => state'[r] = state[r]
        BY <1>14, <1>f DEF MergeDone, MergeFail
    <2> QED BY <2>1, <2>2, <2>3 DEF Stable
<1>15. ASSUME NEW t \in Threads, NEW o \in Objs, DestroyMark(t, o) PROVE Stable
    <2>1. workq' = workq /\ (state' = state \/ state' = [state EXCEPT ![o] = "INVALID"])
        BY <1>15 DEF DestroyMark, cbVars
    <2> QED BY <1>f, <2>1 DEF Stable, Live
<1>16. ASSUME NEW t \in Threads, NEW o \in Objs, NEW s \in Signaled, SignalRow(t, o, s)
       PROVE Stable
    <2>1. CASE NoDispatch /\ state' = state
        BY <1>q, <2>1 DEF NoDispatch
    <2>2. CASE /\ state[o] = "ACTIVE" /\ state' = [state EXCEPT ![o] = s]
               /\ DispatchSignaledCb(o, s)
        <3>1. ~signaled[o]
            BY <1>c, <2>2 DEF Live, Signaled
        <3>2. \A cb \in workq' \ workq : cbSts'[cb] = state'[cbObj'[cb]]
            BY <1>i, <2>2, DispatchTells
        <3> QED BY <1>f, <2>2, <3>1, <3>2 DEF Stable
    <2> QED BY <1>16, <2>1, <2>2 DEF SignalRow
<1>17. ASSUME NEW t \in Threads, NEW o \in Objs, SignalParent(t, o) PROVE Stable
    <2>1. pc[t] = "parents" /\ o \in todo[t] /\ obj[t] \in Objs
        BY <1>17, <1>f DEF SignalParent
    <2>2. Live(o) /\ Awaits(o, obj[t])
        BY <1>i, <2>1 DEF Awaits, ProtoInv, LoopsKept, LoopKept
    <2>3. ~signaled[o]
        BY <1>c, <2>1, <2>2
    <2>4. /\ state' = [state EXCEPT ![o] = UpdateParentState(o, sts[t])]
          /\ NoDispatch \/ DispatchSignaledCb(o, UpdateParentState(o, sts[t]))
        BY <1>17, <2>2 DEF SignalParent
    <2>5. \A cb \in workq' \ workq : cbSts'[cb] = state'[cbObj'[cb]]
        BY <1>i, <2>4, DispatchTells DEF NoDispatch
    <2> QED BY <1>f, <2>3, <2>4, <2>5 DEF Stable
<1> QED
    BY <1>1, <1>2, <1>3, <1>4, <1>5, <1>6, <1>7, <1>8, <1>9, <1>10, <1>11, <1>12, <1>13, <1>14,
       <1>15, <1>16, <1>17
       DEF Next, Step, Call, CallOn, Quiescent

(* A verdict is final: once an object completed, its state stays until it  *)
(* is destroyed, and every callback that is queued is told that state.     *)
THEOREM VerdictsStable ==
    ASSUME ProtocolKept
    PROVE  Spec => VerdictStable
<1>1. AllInv /\ [Next]_vars => [Stable]_vars
    BY StableStep
<1>2. Spec => [][Stable]_vars
    BY <1>1, Always, PTL DEF Spec
<1> QED
    BY <1>2 DEF Stable, VerdictStable
============================================================================
