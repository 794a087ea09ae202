---------------------------- MODULE BoundedFifo ----------------------------
(***************************************************************************)
(* What a hardware-fence queue promises its two ends: a first-in first-out *)
(* queue of at most Capacity payloads.  Every payload put in is handed to  *)
(* the reader once and in order, unless the whole queue is cleared.        *)
(***************************************************************************)
EXTENDS Naturals, Sequences

CONSTANTS Payload, NoPayload, Capacity

VARIABLES
    q,       \* payloads put in and not yet taken out
    out,     \* the payload taken out last
    cleared  \* parity of the number of clears

Init == q = << >> /\ out = NoPayload /\ cleared = FALSE

Put(v) ==
    /\ Len(q) < Capacity
    /\ q' = Append(q, v)
    /\ UNCHANGED <<out, cleared>>

Get ==
    /\ q # << >>
    /\ out' = Head(q)
    /\ q' = Tail(q)
    /\ UNCHANGED cleared

Clear ==
    /\ q' = << >>
    /\ cleared' = ~cleared
    /\ UNCHANGED out

Next == (\E v \in Payload : Put(v)) \/ Get \/ Clear

Spec == Init /\ [][Next]_<<q, out, cleared>>
=============================================================================
