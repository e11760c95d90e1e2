----------------------------- MODULE PageAlloc -----------------------------
(***************************************************************************)
(* What the physical memory manager promises its callers, without blocks,  *)
(* lists or merging: every page is free or in one piece of memory that     *)
(* was handed out; a request for 2^o pages gets that many free pages, in   *)
(* a row and aligned to their number, whenever there are any.              *)
(***************************************************************************)
EXTENDS Integers

CONSTANTS Page, Orders, Requests
VARIABLES free, handed, failed

avars == <<free, handed, failed>>

Span(i, o) == i..(i + 2^o - 1)
Room(o) == {i \in Page : i % 2^o = 0 /\ Span(i, o) \subseteq free}

Grow ==                                   \* boot hands the memory over
    /\ handed = {}
    /\ \E P \in {Span(i, o) : i \in Page, o \in Orders} :
          free' = free \cup P /\ P \cap free = {} /\ P \subseteq Page
    /\ UNCHANGED <<handed, failed>>

Alloc(o) ==
    /\ ~failed
    /\ \E i \in Room(o) :
          /\ free' = free \ Span(i, o)
          /\ handed' = handed \cup {<<i, o>>}
    /\ UNCHANGED failed

OutOfMemory(o) ==
    /\ Room(o) = {}
    /\ failed' = TRUE
    /\ UNCHANGED <<free, handed>>

Free(b) ==
    /\ ~failed
    /\ handed' = handed \ {b}
    /\ free' = free \cup Span(b[1], b[2])
    /\ UNCHANGED failed

Init == free = {} /\ handed = {} /\ failed = FALSE
Next ==
    \/ Grow
    \/ \E o \in Requests : Alloc(o) \/ OutOfMemory(o)
    \/ \E b \in handed : Free(b)
Spec == Init /\ [][Next]_avars
=============================================================================
