---------------------------- MODULE FreeListSpec ----------------------------
(***************************************************************************)
(* The free lists as the allocators think of them: stacks of blocks from   *)
(* which a given block can also be taken out.                              *)
(***************************************************************************)
EXTENDS FreeList

CONSTANTS Node, Heads
VARIABLE lists

Push(h, x) ==
    /\ \A g \in Heads : x \notin Range(lists[g])
    /\ lists' = [lists EXCEPT ![h] = PushNode(@, x)]
Pop(h) == lists[h] # <<>> /\ lists' = [lists EXCEPT ![h] = Tail(@)]
Remove(h, x) ==
    /\ x \in Range(lists[h])
    /\ lists' = [lists EXCEPT ![h] = RemoveNode(@, x)]

Init == lists = [h \in Heads |-> <<>>]
Next == \E h \in Heads : Pop(h) \/ \E x \in Node : Push(h, x) \/ Remove(h, x)
Spec == Init /\ [][Next]_lists
=============================================================================
