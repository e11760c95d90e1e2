------------------------------- MODULE Buddy -------------------------------
(***************************************************************************)
(* The physical memory manager, mm/buddy/buddy.c: page_map, the free lists *)
(* and the two loops that split and merge blocks.  Pages are named by      *)
(* their index in page_map.  An operation is one action: the callers that  *)
(* the kernel has run it with interrupts off or one at a time.             *)
(***************************************************************************)
EXTENDS FreeList, FiniteSets

CONSTANTS
    MaxOrder,     \* MAX_BUDDY_ORDER
    PageN,        \* page_n: entries of page_map, the end of memory rounded up
    EndPage,      \* whole pages below the end of memory
    Placement,    \* get_placement_addr() when add_pages starts, in pages
    Requests      \* orders that callers ask for

ASSUME BuddyAssumption ==
    /\ MaxOrder \in Nat
    /\ EndPage \in Nat /\ PageN \in {EndPage, EndPage + 1}
    /\ Placement \in 0..EndPage
    /\ Requests \subseteq 0..MaxOrder

VARIABLES
    flags,             \* Page.flags
    order,             \* Page.order
    free_area,         \* the free lists
    free_pages_count,
    used_pages_count,
    start,             \* local variable of add_pages, in pages
    held,              \* blocks the callers own, <<first page, order asked for>>
    panicked           \* kernel_panic("PMM Out of memory")

mapVars   == <<flags, order>>
countVars == <<free_pages_count, used_pages_count>>
vars == <<mapVars, free_area, countVars, start, held, panicked>>

Orders == 0..MaxOrder

\* Entries of page_map that the code can reach: the merge loop also looks at
\* the buddy of a last block, which may lie beyond page_n.  bump_alloc zeroed
\* the pages that page_map is in, so such an entry reads as P_FREE, order 0.
Entries == 0..(PageN + 2^MaxOrder)

\* make_pages
Init ==
    /\ flags = [i \in Entries |-> IF i < PageN THEN "P_KERNEL" ELSE "P_FREE"]
    /\ order = [i \in Entries |-> 0]
    /\ free_area = [k \in Orders |-> <<>>]
    /\ free_pages_count = 0 /\ used_pages_count = 0
    /\ start = Placement
    /\ held = {}
    /\ panicked = FALSE
-----------------------------------------------------------------------------
Fits(i, k) == i % 2^k = 0 /\ i + 2^k <= EndPage

\* Faulty: does not look at the alignment.
CarveOrder_unaligned(i, k) ==
    /\ i + 2^k <= EndPage
    /\ \A j \in (k + 1)..MaxOrder : i + 2^j > EndPage

\* The order add_pages' for loop stops at.
CarveOrder(i, k) == Fits(i, k) /\ \A j \in (k + 1)..MaxOrder : ~Fits(i, j)

\* One turn of add_pages' while loop.  (On a last page that is cut short the
\* loop prints a message and ends: nothing changes.)
add_pages ==
    /\ start < EndPage
    /\ \E k \in Orders :
          /\ CarveOrder(start, k)
          /\ free_pages_count' = free_pages_count + 2^k
          /\ order' = [order EXCEPT ![start] = k]
          /\ flags' = [i \in Entries |-> IF i = start THEN "P_FREE"
                                         ELSE IF i \in (start + 1)..(start + 2^k - 1) THEN "P_TAIL"
                                         ELSE flags[i]]
          /\ free_area' = [free_area EXCEPT ![k] = PushNode(@, start)]
          /\ start' = start + 2^k
    /\ UNCHANGED <<used_pages_count, held, panicked>>

Booted == start >= EndPage
-----------------------------------------------------------------------------
\* buddy_index: idx ^ (1 << k)
buddy_index(i, k) == IF (i \div 2^k) % 2 = 0 THEN i + 2^k ELSE i - 2^k

\* The search loop of buddy_alloc_pages ends at order c.
AllocFrom(o, c) ==
    /\ c \in o..MaxOrder /\ free_area[c] # <<>>
    /\ \A k \in o..(c - 1) : free_area[k] = <<>>

\* The free lists after block top of order c was popped and split down to o.
SplitLists(o, c, top) ==
    [k \in Orders |-> IF k = c THEN Tail(free_area[k])
                      ELSE IF k \in o..(c - 1) THEN PushNode(free_area[k], buddy_index(top, k))
                      ELSE free_area[k]]

\* Pages that a call counts as used.
AllocCount(o, c) == 2^o

\* buddy_alloc_pages(o), returning to its caller.
buddy_alloc_pages(o) ==
    /\ Booted /\ ~panicked
    /\ \E c \in Orders :
          /\ AllocFrom(o, c)
          /\ LET top      == Head(free_area[c])
                 siblings == {<<buddy_index(top, k), k>> : k \in o..(c - 1)}
             IN  /\ free_area' = SplitLists(o, c, top)
                 /\ flags' = [i \in Entries |-> IF i = top THEN "P_USED"
                                                ELSE IF \E s \in siblings : s[1] = i THEN "P_FREE"
                                                ELSE flags[i]]
                 /\ order' = [i \in Entries |-> IF i = top THEN o
                                                ELSE IF \E s \in siblings : s[1] = i
                                                THEN CHOOSE k \in Orders : <<i, k>> \in siblings
                                                ELSE order[i]]
                 /\ held' = held \cup {<<top, o>>}
          /\ used_pages_count' = used_pages_count + AllocCount(o, c)
          /\ free_pages_count' = free_pages_count - AllocCount(o, c)
    /\ UNCHANGED <<start, panicked>>

\* The same call when every list from o on is empty.
alloc_panic(o) ==
    /\ Booted /\ ~panicked
    /\ \A k \in o..MaxOrder : free_area[k] = <<>>
    /\ panicked' = TRUE
    /\ UNCHANGED <<mapVars, free_area, countVars, start, held>>

\* In buddy_free_pages the block that page i is in after merging up to order k
\* starts at TopAt(i, k).
TopAt(i, k) == i - (i % 2^k)

\* Faulty: merges with a buddy that is free only in part; never merges.
Mergeable_anyorder(i, k) ==
    LET b == buddy_index(TopAt(i, k), k) IN flags[b] = "P_FREE" /\ order[b] <= k
Mergeable_never(i, k) == FALSE

\* The test of the merge loop at order k.
Mergeable(i, k) ==
    LET b == buddy_index(TopAt(i, k), k) IN flags[b] = "P_FREE" /\ order[b] = k

\* Faulty: the page freed becomes the head, although its buddy is below it.
MergedTop_self(i, m) == i

\* The head of the merged block: the lower one of the two at every order.
MergedTop(i, m) == TopAt(i, m)

\* buddy_free_pages(i): the loop runs from the block's order o to order m; at
\* each order k the buddy leaves its list, the lower one of the two becomes the
\* head and the other one a tail.
buddy_free_pages(i) ==
    /\ Booted /\ ~panicked
    /\ \E o \in Requests : <<i, o>> \in held /\ held' = held \ {<<i, o>>}
    /\ \E m \in order[i]..MaxOrder :
          /\ \A k \in order[i]..(m - 1) : Mergeable(i, k)
          /\ m < MaxOrder => ~Mergeable(i, m)
          /\ LET top     == MergedTop(i, m)
                 buddies == {<<buddy_index(TopAt(i, k), k), k>> : k \in order[i]..(m - 1)}
                 heads   == {TopAt(i, k) : k \in order[i]..m}
             IN  /\ flags' = [j \in Entries |-> IF j = top THEN "P_FREE"
                                                ELSE IF j \in heads \/ \E b \in buddies : b[1] = j
                                                THEN "P_TAIL" ELSE flags[j]]
                 /\ order' = [j \in Entries |->
                                IF j \in heads
                                  THEN CHOOSE k \in order[i]..m :
                                          TopAt(i, k) = j /\ \A l \in (k + 1)..m : TopAt(i, l) # j
                                  ELSE order[j]]
                 /\ free_area' = [k \in Orders |->
                                    IF k = m THEN PushNode(free_area[k], top)
                                    ELSE IF k \in order[i]..(m - 1)
                                    THEN RemoveNode(free_area[k], buddy_index(TopAt(i, k), k))
                                    ELSE free_area[k]]
    /\ used_pages_count' = used_pages_count - 2^order[i]
    /\ free_pages_count' = free_pages_count + 2^order[i]
    /\ UNCHANGED <<start, panicked>>

Halted == panicked /\ UNCHANGED vars

Next ==
    \/ add_pages
    \/ \E o \in Requests : buddy_alloc_pages(o) \/ alloc_panic(o)
    \/ \E i \in Entries : buddy_free_pages(i)
    \/ Halted

Spec == Init /\ [][Next]_vars
-----------------------------------------------------------------------------
Span(i, k) == i..(i + 2^k - 1)
FreeBlocks == UNION {{<<i, k>> : i \in Range(free_area[k])} : k \in Orders}
Blocks == FreeBlocks \cup held
Covered(B) == UNION {Span(b[1], b[2]) : b \in B}
Memory == Placement..(EndPage - 1)

\* The blocks on the free lists and those of the callers are aligned to their
\* size and cut the memory that add_pages handed over into pieces: no page is
\* in two of them, none is lost, no block is on a list twice, and none reaches
\* into the kernel's pages or beyond the end.  Every pair of free buddies has
\* been merged, up to the largest order.
BlocksPartition ==
    /\ \A k \in Orders : IsInjective(free_area[k])
    /\ \A b \in Blocks : b[1] % 2^b[2] = 0
    /\ \A b, c \in Blocks : b # c => Span(b[1], b[2]) \cap Span(c[1], c[2]) = {}
    /\ Covered(Blocks) = Placement..(start - 1)
    /\ \A b \in FreeBlocks :
          b[2] < MaxOrder => <<buddy_index(b[1], b[2]), b[2]>> \notin FreeBlocks

\* What test_buddy.c's check() demands of page_map: the head of every block has
\* the flag and the order of the list or the caller that has it, its other
\* pages are tails, and no other page is marked free.  free_pages_count and
\* used_pages_count are the pages of the free blocks and of the callers'.
MapAgrees ==
    /\ \A b \in Blocks :
          /\ flags[b[1]] = IF b \in held THEN "P_USED" ELSE "P_FREE"
          /\ order[b[1]] = b[2]
          /\ \A i \in Span(b[1], b[2]) \ {b[1]} : flags[i] = "P_TAIL"
    /\ \A i \in 0..(PageN - 1) : flags[i] = "P_FREE" => <<i, order[i]>> \in FreeBlocks
    /\ free_pages_count = Cardinality(Covered(FreeBlocks))
    /\ used_pages_count = Cardinality(Covered(held))

\* When everything has been given back the lists hold what add_pages put there:
\* the largest aligned blocks of the memory (verify_final_state in test_buddy.c).
Restored ==
    Booted /\ held = {} =>
        FreeBlocks = {<<i, k>> \in Memory \X Orders : Fits(i, k) /\ (k < MaxOrder =>
                         LET j == TopAt(i, k + 1) IN j < Placement \/ ~Fits(j, k + 1))}

\* How the buddy allocator looks to PageAlloc.
Pages == INSTANCE PageAlloc WITH
            Page   <- Entries,
            Orders <- Orders,
            free   <- Covered(FreeBlocks),
            handed <- held,
            failed <- panicked

\* The buddy allocator implements PageAlloc; above all it runs out of memory
\* only when no aligned row of free pages would do.
PagesSpec == Pages!Spec
=============================================================================
