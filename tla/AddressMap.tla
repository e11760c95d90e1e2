----------------------------- MODULE AddressMap -----------------------------
(***************************************************************************)
(* What the two map_range functions promise: a call maps the pages of its  *)
(* range in order, to the frames and with the rights it was given, in the  *)
(* directory it was given, and no other translation changes.               *)
(***************************************************************************)
EXTENDS Integers, Sequences

CONSTANTS Dir,     \* page directories
          VPage,   \* virtual page numbers
          NoMap    \* the translation of a page that is not present

VARIABLES map,     \* map[d][v]: frame and rights, or NoMap
          todo,    \* calls not yet begun
          job      \* what is left of the call in progress
vars == <<map, todo, job>>

Init == /\ map = [d \in Dir |-> [v \in VPage |-> NoMap]]
        /\ job.size = 0

Call == /\ job.size = 0 /\ todo # <<>>
        /\ job' = Head(todo) /\ todo' = Tail(todo)
        /\ UNCHANGED map

MapPages(n) ==
    /\ map' = [map EXCEPT ![job.d] = [v \in VPage |->
                 IF v \in job.vaddr..job.vaddr + n - 1
                 THEN [frame |-> job.paddr + v - job.vaddr, flag |-> job.flag]
                 ELSE @[v]]]
    /\ job' = [job EXCEPT !.paddr = @ + n, !.vaddr = @ + n, !.size = @ - n]
    /\ UNCHANGED todo

Next == Call \/ \E n \in 1..job.size : MapPages(n)

Spec == Init /\ [][Next]_vars
=============================================================================
