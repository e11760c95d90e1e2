------------------------------ MODULE FreeList ------------------------------
(***************************************************************************)
(* The free lists of mm/node.c as sequences, head first.  Their pointer    *)
(* code is checked against these operators in NodeList.tla.                *)
(***************************************************************************)
EXTENDS Integers, Sequences, Functions

\* push_node: in front of the list.
PushNode(q, x) == <<x>> \o q

\* remove_node: out of the list, wherever x is.  A node that is in no list and
\* has null links is left as it is, and so is the list.
RemoveNode(q, x) ==
    IF \E j \in 1..Len(q) : q[j] = x
      THEN LET j == CHOOSE i \in 1..Len(q) : q[i] = x
           IN  SubSeq(q, 1, j - 1) \o SubSeq(q, j + 1, Len(q))
      ELSE q
=============================================================================
