------------------------------ MODULE NodeList ------------------------------
(***************************************************************************)
(* mm/node.c with its pointers: the lists on which buddy.c keeps its free  *)
(* blocks and heap.c its free chunks.  The callers push a node that is in  *)
(* no list, pop a list that is not empty, and remove a node that is in the *)
(* list they name.  (insert_node belongs to the heap's list of all chunks, *)
(* see Heap.tla.)                                                          *)
(***************************************************************************)
EXTENDS Integers, Functions

CONSTANTS Node, NULL, Heads

VARIABLES head_ref, next, prev

vars == <<head_ref, next, prev>>

Init ==
    /\ head_ref = [h \in Heads |-> NULL]
    /\ next = [x \in Node |-> NULL] /\ prev = [x \in Node |-> NULL]

\* The nodes of list h, in the order of a walk along next.  N steps reach the
\* end of a list without a cycle.
Walk(h) ==
    LET w[n \in Nat] == IF n = 0 THEN head_ref[h]
                        ELSE IF w[n - 1] = NULL THEN NULL ELSE next[w[n - 1]]
    IN  w
Ends(h, n) == Walk(h)[n] = NULL /\ \A i \in 0..(n - 1) : Walk(h)[i] # NULL
In(h, max) == {Walk(h)[n] : n \in 0..max} \ {NULL}
-----------------------------------------------------------------------------
push_node(h, x) ==
    /\ next' = [next EXCEPT ![x] = head_ref[h]]
    /\ prev' = [n \in Node |-> IF n = x THEN NULL
                               ELSE IF n = head_ref[h] THEN x ELSE prev[n]]
    /\ head_ref' = [head_ref EXCEPT ![h] = x]

\* pop_node: the node that leaves keeps its next.
pop_node(h) ==
    /\ head_ref' = [head_ref EXCEPT ![h] = next[@]]
    /\ prev' = IF next[head_ref[h]] # NULL THEN [prev EXCEPT ![next[head_ref[h]]] = NULL] ELSE prev
    /\ UNCHANGED next

\* Faulty: the successor is not told.
Unlink_oneway(x) ==
    /\ next' = [n \in Node |-> IF n = x THEN NULL ELSE IF n = prev[x] THEN next[x] ELSE next[n]]
    /\ prev' = [prev EXCEPT ![x] = NULL]
    /\ UNCHANGED head_ref

\* remove_node of a node that is not the head.
Unlink(x) ==
    /\ next' = [n \in Node |-> IF n = x THEN NULL ELSE IF n = prev[x] THEN next[x] ELSE next[n]]
    /\ prev' = [n \in Node |-> IF n = x THEN NULL ELSE IF n = next[x] THEN prev[x] ELSE prev[n]]
    /\ UNCHANGED head_ref

remove_node(h, x) == IF x = head_ref[h] THEN pop_node(h) ELSE Unlink(x)
-----------------------------------------------------------------------------
CONSTANT MaxLen     \* bound on walks: the number of nodes

Next ==
    \E h \in Heads :
        \/ head_ref[h] # NULL /\ pop_node(h)
        \/ \E x \in Node :
              \/ (\A g \in Heads : x \notin In(g, MaxLen)) /\ push_node(h, x)
              \/ x \in In(h, MaxLen) /\ remove_node(h, x)

Spec == Init /\ [][Next]_vars

\* The pointers of the lists: walks end, prev undoes next, the head has no
\* predecessor, and the lists have no node in common.
LinksOK ==
    /\ \A h \in Heads :
          /\ \E n \in 0..MaxLen : Ends(h, n)
          /\ head_ref[h] # NULL => prev[head_ref[h]] = NULL
          /\ \A x \in In(h, MaxLen) : next[x] # NULL => prev[next[x]] = x
    /\ \A g, h \in Heads : g # h => In(g, MaxLen) \cap In(h, MaxLen) = {}

AsSeq(h) == LET n == CHOOSE m \in 0..MaxLen : Ends(h, m) IN [i \in 1..n |-> Walk(h)[i - 1]]

Stacks == INSTANCE FreeListSpec WITH lists <- [h \in Heads |-> AsSeq(h)]

\* node.c implements the stacks of FreeListSpec, although pop_node leaves the
\* links of the popped node as they were.
StacksSpec == Stacks!Spec
=============================================================================
