------------------------------- MODULE DLList -------------------------------
(***************************************************************************)
(* sched/queue.c: the doubly linked lists behind the scheduler's queues,   *)
(* with their pointers.  Two lists share the one Node a thread has.  The   *)
(* callers push a thread only while it is in no list (RunQueueExact and    *)
(* SleepQueueExact of Sched say that they do).                             *)
(***************************************************************************)
EXTENDS Integers, Functions

CONSTANTS Node, NULL, Keys

Lists == {"que", "sleep_que"}

VARIABLES head, tail, size,    \* DLList
          next, prev,          \* Node
          wake_at,             \* Thread
          panicked

vars == <<head, tail, size, next, prev, wake_at, panicked>>

Init ==
    /\ head = [l \in Lists |-> NULL] /\ tail = [l \in Lists |-> NULL]
    /\ size = [l \in Lists |-> 0]
    /\ next = [x \in Node |-> NULL] /\ prev = [x \in Node |-> NULL]
    /\ wake_at \in [Node -> Keys]
    /\ panicked = FALSE

\* The n-th node (from 0) that a walk along next from the head of l meets.
Walk(l) ==
    LET w[n \in Nat] == IF n = 0 THEN head[l]
                        ELSE IF w[n - 1] = NULL THEN NULL ELSE next[w[n - 1]]
    IN  w
-----------------------------------------------------------------------------
\* Faulty: the new node does not point back.
list_push_back_noprev(l, x) ==
    /\ next' = [n \in Node |-> IF n = x THEN NULL
                               ELSE IF n = tail[l] THEN x ELSE next[n]]
    /\ prev' = prev
    /\ head' = IF tail[l] = NULL THEN [head EXCEPT ![l] = x] ELSE head
    /\ tail' = [tail EXCEPT ![l] = x]
    /\ size' = [size EXCEPT ![l] = @ + 1]

list_push_back(l, x) ==
    /\ next' = [n \in Node |-> IF n = x THEN NULL
                               ELSE IF n = tail[l] THEN x ELSE next[n]]
    /\ prev' = [prev EXCEPT ![x] = tail[l]]
    /\ head' = IF tail[l] = NULL THEN [head EXCEPT ![l] = x] ELSE head
    /\ tail' = [tail EXCEPT ![l] = x]
    /\ size' = [size EXCEPT ![l] = @ + 1]

list_push_front(l, x) ==
    /\ prev' = [n \in Node |-> IF n = x THEN NULL
                               ELSE IF n = head[l] THEN x ELSE prev[n]]
    /\ next' = [next EXCEPT ![x] = head[l]]
    /\ tail' = IF head[l] = NULL THEN [tail EXCEPT ![l] = x] ELSE tail
    /\ head' = [head EXCEPT ![l] = x]
    /\ size' = [size EXCEPT ![l] = @ + 1]

\* Faulty: stops at the first thread that is due at the same time.
StopsAt_before(l, k, cur) ==
    \E n \in 0..size[l] :
        /\ Walk(l)[n] = cur
        /\ \A i \in 0..(n - 1) : Walk(l)[i] # NULL /\ wake_at[Walk(l)[i]] < k
        /\ cur # NULL => wake_at[cur] >= k

\* The loop of list_sorted_push leaves the walk at cur.
StopsAt(l, k, cur) ==
    \E n \in 0..size[l] :
        /\ Walk(l)[n] = cur
        /\ \A i \in 0..(n - 1) : Walk(l)[i] # NULL /\ wake_at[Walk(l)[i]] <= k
        /\ cur # NULL => wake_at[cur] > k

list_sorted_push(l, x, k) ==
    \E cur \in Node \cup {NULL} :
        /\ StopsAt(l, k, cur)
        /\ \/ cur = NULL /\ list_push_back(l, x)
           \/ cur # NULL /\ cur = head[l] /\ list_push_front(l, x)
           \/ /\ cur # NULL /\ cur # head[l]
              /\ next' = [next EXCEPT ![x] = cur, ![prev[cur]] = x]
              /\ prev' = [prev EXCEPT ![x] = prev[cur], ![cur] = x]
              /\ size' = [size EXCEPT ![l] = @ + 1]
              /\ UNCHANGED <<head, tail>>

\* Faulty: the tail is not cleared when the last node leaves.
PopTail_kept(l) == tail
PopTail(l) == IF head[l] # tail[l] THEN tail ELSE [tail EXCEPT ![l] = NULL]

\* list_pop_front, and its panic on an empty list.
list_pop_front(l) ==
    \/ /\ head[l] # NULL
       /\ LET node == head[l]
          IN  /\ prev' = IF head[l] # tail[l] THEN [prev EXCEPT ![next[node]] = NULL] ELSE prev
              /\ tail' = PopTail(l)
              /\ head' = [head EXCEPT ![l] = next[node]]
              /\ next' = [next EXCEPT ![node] = NULL]
              /\ size' = [size EXCEPT ![l] = @ - 1]
       /\ UNCHANGED <<wake_at, panicked>>
    \/ /\ head[l] = NULL
       /\ panicked' = TRUE
       /\ UNCHANGED <<head, tail, size, next, prev, wake_at>>
-----------------------------------------------------------------------------
In(l) == {Walk(l)[n] : n \in 0..size[l]} \ {NULL}

\* The callers: _thread_ready and thread_ready; thread_sleep, which sets wake_at
\* first; scheduler and wake_up_threads.
thread_ready(x) ==
    /\ \A l \in Lists : x \notin In(l)
    /\ list_push_back("que", x)
    /\ UNCHANGED <<wake_at, panicked>>

thread_sleep(x, k) ==
    /\ \A l \in Lists : x \notin In(l)
    /\ wake_at' = [wake_at EXCEPT ![x] = k]
    /\ list_sorted_push("sleep_que", x, k)
    /\ UNCHANGED panicked

Halted == panicked /\ UNCHANGED vars

Next ==
    \/ ~panicked /\ \/ \E x \in Node : thread_ready(x) \/ \E k \in Keys : thread_sleep(x, k)
                    \/ \E l \in Lists : list_pop_front(l)
    \/ Halted

Spec == Init /\ [][Next]_vars
-----------------------------------------------------------------------------
\* The pointers of the two lists: prev undoes next, the ends are marked by NULL,
\* tail is where the walk from head ends, size is its length, and no node is in
\* both lists.
LinksOK ==
    /\ \A l \in Lists :
          /\ head[l] = NULL <=> tail[l] = NULL
          /\ head[l] # NULL => prev[head[l]] = NULL /\ next[tail[l]] = NULL
          /\ Walk(l)[size[l]] = NULL
          /\ size[l] > 0 => Walk(l)[size[l] - 1] = tail[l] /\ tail[l] # NULL
          /\ \A x \in In(l) : next[x] # NULL => prev[next[x]] = x
    /\ In("que") \cap In("sleep_que") = {}

AsSeq(l) == [n \in 1..size[l] |-> Walk(l)[n - 1]]

Queues == INSTANCE QueueSpec WITH
            run <- AsSeq("que"), asleep <- AsSeq("sleep_que"), key <- wake_at,
            underflow <- panicked

\* queue.c implements queues: what the walk from head meets changes as the
\* sequences of QueueSpec do, whatever calls came before.
QueuesSpec == Queues!Spec
=============================================================================
