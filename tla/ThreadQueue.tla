---------------------------- MODULE ThreadQueue ----------------------------
(***************************************************************************)
(* What the list operations of sched/queue.c do, with a list seen as the   *)
(* sequence of its nodes.  list_push_back is Append, list_pop_front is     *)
(* Head and Tail.                                                          *)
(***************************************************************************)
EXTENDS Integers, Sequences, Functions

\* The first n nodes of q have key <= k and the one after them, if any, has not:
\* where the walk of list_sorted_push, and the loop of wake_up_threads, stop.
LeadingDue(q, key, k, n) ==
    /\ n \in 0..Len(q)
    /\ \A i \in 1..n : key[q[i]] <= k
    /\ n < Len(q) => key[q[n + 1]] > k

\* q with x inserted behind its first n nodes.
InsertBehind(q, n, x) == SubSeq(q, 1, n) \o <<x>> \o SubSeq(q, n + 1, Len(q))
=============================================================================
