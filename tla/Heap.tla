-------------------------------- MODULE Heap --------------------------------
(***************************************************************************)
(* The kernel heap, mm/heap/heap.c, on top of the physical memory manager. *)
(* A chunk is named by the address of its header, relative to the first    *)
(* page of the pool.  The list of all chunks is a sequence of headers, so  *)
(* that get_total_size is the distance of two neighbours; the buckets are  *)
(* the lists of FreeList.  An operation is one action, and a function of   *)
(* the record heap.                                                        *)
(***************************************************************************)
EXTENDS FreeList, FiniteSets

CONSTANTS
    PageCount,    \* pages the memory manager can give to the heap
    Sizes,        \* sizes that callers ask for
    MaxHeld,      \* bound: chunks that callers hold at a time
    NULL

PAGE_SIZE    == 4096
HEADER_SIZE  == 12
MIN_SIZE     == 8
NUM_SIZES    == 9
ORDER_OFFSET == 3
ALIGN        == 4
BASE_SHIFT   == 12

ASSUME HeapAssumption == PageCount \in Nat \ {0} /\ Sizes \subseteq Nat /\ MaxHeld \in Nat

VARIABLES
    heap,         \* the allocator's variables, a record (see Init)
    pool,         \* pages that are free in the memory manager
    held,         \* callers' chunks, <<header, size asked for>>
    large,        \* callers' page blocks, <<first page, order>>
    refused,      \* sizes for which kmalloc returned NULL
    panicked      \* out of memory

vars == <<heap, pool, held, large, refused, panicked>>
-----------------------------------------------------------------------------
log_two(n) == CHOOSE k \in 0..31 : 2^k <= n /\ n < 2^(k + 1)

\* Faulty: rounds down.
get_alloc_order_down(n) == log_two(n) - ORDER_OFFSET

get_alloc_order(n)  == log_two(n - 1) + 1 - ORDER_OFFSET
get_bucket_index(n) == log_two(n) - ORDER_OFFSET

\* What kmalloc makes of the size asked for.
alloc_size(n) == (((IF n < MIN_SIZE THEN MIN_SIZE ELSE n) + ALIGN - 1) \div ALIGN) * ALIGN

\* Neighbours of chunk c in the list of all chunks, and its size.
Pos(h, c)  == CHOOSE i \in 1..Len(h.all) : h.all[i] = c
Succ(h, c) == h.all[Pos(h, c) + 1]
Pred(h, c) == h.all[Pos(h, c) - 1]
get_chunk_size(h, c) == Succ(h, c) - c - HEADER_SIZE

\* insert_node behind c.
InsertChunk(h, c, n) ==
    [h EXCEPT !.all = SubSeq(@, 1, Pos(h, c)) \o <<n>> \o SubSeq(@, Pos(h, c) + 1, Len(@))]

\* sizeof(Chunk), the size of the two blocks that mark the ends of a page.
CHUNK == HEADER_SIZE + MIN_SIZE
FullSize == PAGE_SIZE - 2 * CHUNK - HEADER_SIZE

\* create_chunk() on page p.
create_chunk(h, p) ==
    LET f == p * PAGE_SIZE
        m == f + CHUNK
        l == f + PAGE_SIZE - CHUNK
    IN  [h EXCEPT !.all = @ \o <<f, m, l>>,
                  !.used = @ \cup {f, l},
                  !.mem_meta = @ + 2 * CHUNK + HEADER_SIZE,
                  !.mem_free = @ + FullSize,
                  !.free_bucket[get_bucket_index(FullSize)] = PushNode(@, m),
                  !.first = IF @ = NULL THEN f ELSE @,
                  !.last = l]

\* Faulty: the rest only has to have room for its header.
WorthSplitting_header(size, n) == size - n >= HEADER_SIZE

\* Whether a chunk is cut when n of its size bytes are asked for.
WorthSplitting(size, n) == size - n >= MIN_SIZE + HEADER_SIZE

\* Faulty: the new header is not counted.
SplitMeta_forgotten == 0
SplitMeta == HEADER_SIZE

\* The rest of kmalloc once bucket i was chosen: pop, split, account.
take(h, i, n) ==
    LET c    == Head(h.free_bucket[i])
        size == get_chunk_size(h, c)
        h1   == [h EXCEPT !.free_bucket[i] = Tail(@), !.used = @ \cup {c}]
        rest == c + n + HEADER_SIZE
        h2   == InsertChunk(h1, c, rest)
        left == get_chunk_size(h2, rest)
    IN  IF WorthSplitting(size, n)
          THEN [h2 EXCEPT !.free_bucket[get_bucket_index(left)] = PushNode(@, rest),
                          !.mem_meta = @ + SplitMeta,
                          !.mem_free = @ - size + left,
                          !.mem_used = @ + get_chunk_size(h2, c)]
          ELSE [h1 EXCEPT !.mem_free = @ - size, !.mem_used = @ + size]

\* The first bucket from order on that is not empty.
Chosen(h, order, i) ==
    /\ i \in order..(NUM_SIZES - 1) /\ h.free_bucket[i] # <<>>
    /\ \A j \in order..(i - 1) : h.free_bucket[j] = <<>>
-----------------------------------------------------------------------------
\* pmm_alloc(o) as PageAlloc promises it, and pmm_free.
Span(p, o) == p..(p + 2^o - 1)
Room(o) == {p \in pool : p % 2^o = 0 /\ Span(p, o) \subseteq pool}

\* kmalloc(n) that returns NULL without looking for memory.
kmalloc_refuse(n) ==
    /\ ~panicked
    /\ \/ n = 0
       \/ n > 0 /\ n < PAGE_SIZE /\ get_alloc_order(alloc_size(n)) >= NUM_SIZES
    /\ refused' = refused \cup {n}
    /\ UNCHANGED <<heap, pool, held, large, panicked>>

\* kmalloc(n) of at least a page.
kmalloc_pages(n) ==
    /\ ~panicked /\ n >= PAGE_SIZE
    /\ LET order == log_two(n - 1) + 1 - BASE_SHIFT
       IN  \/ \E p \in Room(order) :
                /\ pool' = pool \ Span(p, order)
                /\ large' = large \cup {<<p, order>>}
                /\ heap' = [heap EXCEPT !.mem_used = @ + 2^(BASE_SHIFT + order)]
                /\ UNCHANGED panicked
           \/ Room(order) = {} /\ panicked' = TRUE /\ UNCHANGED <<pool, large, heap>>
    /\ UNCHANGED <<held, refused>>

\* kmalloc(n) from the buckets, from a new page if they have nothing.
kmalloc(n) ==
    /\ ~panicked /\ n > 0 /\ n < PAGE_SIZE /\ Cardinality(held) < MaxHeld
    /\ LET size  == alloc_size(n)
           order == get_alloc_order(size)
           Give(h, i) == /\ heap' = take(h, i, size)
                         /\ held' = held \cup {<<Head(h.free_bucket[i]), n>>}
       IN  /\ order < NUM_SIZES
           /\ \/ \E i \in 0..(NUM_SIZES - 1) :
                    Chosen(heap, order, i) /\ Give(heap, i) /\ UNCHANGED <<pool, panicked>>
              \/ /\ \A i \in order..(NUM_SIZES - 1) : heap.free_bucket[i] = <<>>
                 /\ \/ \E p \in pool : LET h == create_chunk(heap, p)
                                       IN  /\ \E i \in 0..(NUM_SIZES - 1) : Chosen(h, order, i) /\ Give(h, i)
                                           /\ pool' = pool \ {p}
                                           /\ UNCHANGED panicked
                    \/ pool = {} /\ panicked' = TRUE /\ UNCHANGED <<heap, pool, held>>
    /\ UNCHANGED <<large, refused>>
-----------------------------------------------------------------------------
\* Chunk x leaves the list of all chunks; the free chunk x leaves its bucket.
DropHeader(h, x) == [h EXCEPT !.all = RemoveNode(@, x), !.used = @ \ {x}]

\* Faulty: the chunk that is swallowed stays in its bucket.
LeaveBucket_not(h, x) == [h EXCEPT !.mem_free = @ - get_chunk_size(h, x)]
LeaveBucket(h, x) ==
    [h EXCEPT !.free_bucket[get_bucket_index(get_chunk_size(h, x))] = RemoveNode(@, x),
              !.mem_free = @ - get_chunk_size(h, x)]

PrevFree(h, c) == Pred(h, c) \notin h.used

\* kfree's two mergers, in its order: with the next chunk, into the previous one.
MergeNext(h, c) ==
    IF Succ(h, c) \in h.used THEN h
    ELSE [DropHeader(LeaveBucket(h, Succ(h, c)), Succ(h, c)) EXCEPT !.mem_meta = @ - HEADER_SIZE]
MergePrev(h, c) ==
    IF PrevFree(h, c)
      THEN [DropHeader(LeaveBucket(h, Pred(h, c)), c) EXCEPT !.mem_meta = @ - HEADER_SIZE]
      ELSE h

\* return_page: the page that starts with header f leaves the heap.
return_page(h, f) ==
    LET m  == Succ(h, f)
        l  == Succ(h, m)
        h1 == DropHeader(DropHeader(h, m), f)
    IN  [DropHeader(h1, l) EXCEPT !.mem_meta = @ - HEADER_SIZE - 2 * CHUNK,
                                  !.last = IF h.last = l THEN Pred(h1, l) ELSE @]

\* Faulty: pages are never given back.
PageUnused_never(h, chunk) == FALSE

\* The test that sends a page back: one chunk fills it, and it is not the first.
PageUnused(h, chunk) == get_chunk_size(h, chunk) = FullSize /\ Pred(h, chunk) # h.first

\* kfree of a chunk.
kfree(c) ==
    /\ ~panicked
    /\ \E n \in Sizes : <<c, n>> \in held /\ held' = held \ {<<c, n>>}
    /\ LET h0    == [heap EXCEPT !.mem_used = @ - get_chunk_size(heap, c)]
           h1    == MergeNext(h0, c)
           h2    == MergePrev(h1, c)
           chunk == IF PrevFree(h1, c) THEN Pred(h1, c) ELSE c
           size  == get_chunk_size(h2, chunk)
       IN  IF PageUnused(h2, chunk)
             THEN /\ heap' = return_page(h2, Pred(h2, chunk))
                  /\ pool' = pool \cup {Pred(h2, chunk) \div PAGE_SIZE}
             ELSE /\ heap' = [h2 EXCEPT !.used = @ \ {chunk},
                                        !.free_bucket[get_bucket_index(size)] = PushNode(@, chunk),
                                        !.mem_free = @ + size]
                  /\ UNCHANGED pool
    /\ UNCHANGED <<large, refused, panicked>>

\* kfree of whole pages.
kfree_pages(b) ==
    /\ ~panicked
    /\ large' = large \ {b}
    /\ pool' = pool \cup Span(b[1], b[2])
    /\ heap' = [heap EXCEPT !.mem_used = @ - 2^(b[2] + BASE_SHIFT)]
    /\ UNCHANGED <<held, refused, panicked>>

Halted == panicked /\ UNCHANGED vars

\* init_kmalloc, on page 0.
Empty == [all |-> <<>>, used |-> {}, free_bucket |-> [i \in 0..(NUM_SIZES - 1) |-> <<>>],
          first |-> NULL, last |-> NULL, mem_free |-> 0, mem_used |-> 0, mem_meta |-> 0]
Init ==
    /\ heap = create_chunk(Empty, 0)
    /\ pool = 1..(PageCount - 1)
    /\ held = {} /\ large = {} /\ refused = {}
    /\ panicked = FALSE

Next ==
    \/ \E n \in Sizes : kmalloc_refuse(n) \/ kmalloc_pages(n) \/ kmalloc(n)
    \/ \E b \in held : kfree(b[1])
    \/ \E b \in large : kfree_pages(b)
    \/ Halted

Spec == Init /\ [][Next]_vars
-----------------------------------------------------------------------------
Ends == {c \in Range(heap.all) : c % PAGE_SIZE \in {0, PAGE_SIZE - CHUNK}}
Chunks == Range(heap.all) \ Ends

\* The chunks of a page lie one behind the other from its first marker to its
\* last one, each with room for a header and a Node, at aligned addresses; the
\* pages follow one another in the list from first to last, each once, and are
\* not in the memory manager's pool or in a caller's hands.  No two neighbours
\* are both free.
ChunksTile ==
    /\ \A c \in Chunks \ heap.used : Succ(heap, c) \in heap.used
    /\ IsInjective(heap.all)
    /\ heap.first = heap.all[1] /\ heap.last = heap.all[Len(heap.all)]
    /\ \A i \in 1..(Len(heap.all) - 1) :
          LET c == heap.all[i]
              d == heap.all[i + 1]
          IN  IF c % PAGE_SIZE = PAGE_SIZE - CHUNK
                THEN d % PAGE_SIZE = 0
                ELSE /\ d \div PAGE_SIZE = c \div PAGE_SIZE
                     /\ d - c >= CHUNK /\ (d - c) % ALIGN = 0
    /\ heap.first % PAGE_SIZE = 0 /\ heap.last % PAGE_SIZE = PAGE_SIZE - CHUNK
    /\ \A c \in Range(heap.all) :
          /\ c \div PAGE_SIZE \notin pool
          /\ \A b \in large : c \div PAGE_SIZE \notin Span(b[1], b[2])

\* Every free chunk is in the bucket of its size, once, and nothing else is.
BucketsExact ==
    \A i \in 0..(NUM_SIZES - 1) :
        /\ IsInjective(heap.free_bucket[i])
        /\ Range(heap.free_bucket[i]) =
              {c \in Chunks \ heap.used : get_bucket_index(get_chunk_size(heap, c)) = i}

\* The used chunks are the callers', each with at least the size asked for.
HeldExact ==
    /\ Chunks \cap heap.used = {b[1] : b \in held}
    /\ \A b \in held : get_chunk_size(heap, b[1]) >= b[2]
    /\ \A b, c \in held : b # c => b[1] # c[1]

\* mem_used, mem_free and mem_meta add up to the pages the heap has taken
\* (check_state in heap_test.c), and each counts what its name says.
Accounting ==
    /\ heap.mem_used + heap.mem_meta + heap.mem_free = (PageCount - Cardinality(pool)) * PAGE_SIZE
    /\ heap.mem_used >= 0 /\ heap.mem_free >= 0
    /\ heap.mem_meta = HEADER_SIZE * Cardinality(Range(heap.all)) + MIN_SIZE * Cardinality(Ends)

\* When everything was freed the heap is as init_kmalloc left it (check_ini in
\* heap_test.c).
HeapRestored == held = {} /\ large = {} => heap = create_chunk(Empty, 0) /\ pool = 1..(PageCount - 1)

\* docs/11_kernel_heap.md:36: requests larger than 2048 bytes are redirected to
\* the page allocator; so kmalloc refuses only the size 0.
LargeRedirected == refused \subseteq {0}
=============================================================================
