-------------------------------- MODULE Boot --------------------------------
(***************************************************************************)
(* kmain: the walk over the tags of the boot loader, the placement address *)
(* and the order of initialisation.  Addresses are physical; PageSize      *)
(* units make a page.  Until paging_init loads the kernel's directory only *)
(* the first EarlyEnd units, 4 MB in the code, are mapped; afterwards all  *)
(* of RAM is.  An access elsewhere faults: the kernel panics once init_idt *)
(* has run, and the machine resets before.                                 *)
(***************************************************************************)
EXTENDS Integers, Sequences, FiniteSets

CONSTANTS PageSize, KernelStart, KernelEnd, EarlyEnd,
          Machines,     \* what a loader may leave: magic, mbi, size, tags; end of RAM
          MaxTables,    \* bound on the tables of map_kernel
          PageMapPages  \* pages of page_map

ASSUME BootAssumption ==
    /\ PageSize \in Nat \ {0}
    /\ {KernelStart, KernelEnd, EarlyEnd, MaxTables, PageMapPages} \subseteq Nat
    /\ \A x \in Machines :
          /\ {x.mbi, x.size, x.ramEnd, Len(x.tags)} \subseteq Nat
          /\ \A i \in 1..Len(x.tags) : x.tags[i].type = "module" =>
                {x.tags[i].start, x.tags[i].end, x.tags[i].pages} \subseteq Nat

NULL == [type |-> "null"]

VARIABLES m,            \* the machine
          pc,           \* the next call of kmain
          adr,          \* the tag current_adr points to
          placement,    \* placement_addr
          memory_map, user_module,
          bumped,       \* addresses that bump_alloc has given out
          free          \* pages that pmm_alloc has left
vars == <<m, pc, adr, placement, memory_map, user_module, bumped, free>>

Halt == {"run", "panic", "reset"}

Init == /\ m \in Machines
        /\ pc = "magic" /\ adr = 1 /\ placement = 0
        /\ memory_map = FALSE /\ user_module = NULL /\ bumped = {} /\ free = 0

MbiEnd == m.mbi + m.size

\* The magic number, and the first read of the header.
magic == /\ pc = "magic"
         /\ IF ~m.magic THEN pc' = "panic" /\ UNCHANGED placement
            ELSE IF MbiEnd > EarlyEnd THEN pc' = "reset" /\ UNCHANGED placement
            ELSE /\ pc' = "tags"
                 /\ placement' = IF MbiEnd > KernelStart THEN MbiEnd ELSE KernelStart
         /\ UNCHANGED <<m, adr, memory_map, user_module, bumped, free>>

\* Faulty: modules do not move the placement address.
AfterModule_ignored(t) == placement

AfterModule(t) == IF t.end > placement THEN t.end ELSE placement

AlignUp(a) == ((a + PageSize - 1) \div PageSize) * PageSize

\* A turn of the loop over the tags; init_bump and init_idt after the last.
tags == /\ pc = "tags"
        /\ IF adr > Len(m.tags) \/ m.tags[adr].type = "end"
           THEN /\ pc' = "paging_init"
                /\ placement' = AlignUp(placement)
                /\ UNCHANGED <<adr, memory_map, user_module>>
           ELSE LET t == m.tags[adr] IN
                /\ adr' = adr + 1 /\ UNCHANGED pc
                /\ memory_map' = (memory_map \/ t.type = "mmap")
                /\ user_module' = IF t.type = "module" THEN t ELSE user_module
                /\ placement' = IF t.type = "module" THEN AfterModule(t) ELSE placement
        /\ UNCHANGED <<m, bumped, free>>

\* bump_alloc clears what it gives out, up to the end of what is mapped.
bump_alloc(pages, end, then) ==
    LET top == placement + pages * PageSize IN
    /\ placement' = top
    /\ bumped' = bumped \cup placement..(IF top > end THEN end ELSE top) - 1
    /\ pc' = IF top > end THEN "panic" ELSE then

\* paging_init: map_bios takes one table, which the kernel's own pages share.
map_bios == /\ pc = "paging_init"
            /\ bump_alloc(1, EarlyEnd, "map_kernel")
            /\ UNCHANGED <<m, adr, memory_map, user_module, free>>

\* map_kernel reads memory_map and takes tables for the rest of RAM.
map_kernel == /\ pc = "map_kernel"
              /\ \/ ~memory_map /\ pc' = "panic" /\ UNCHANGED <<placement, bumped>>
                 \/ memory_map /\ \E n \in 0..MaxTables : bump_alloc(n, EarlyEnd, "pmm_init")
              /\ UNCHANGED <<m, adr, memory_map, user_module, free>>

\* Faulty: the pages of page_map are taken while only the first 4 MB are mapped.
MappedEnd_early == EarlyEnd

MappedEnd == m.ramEnd

\* make_pages takes page_map, add_pages leaves the rest of RAM to pmm_alloc.
pmm_init == /\ pc = "pmm_init"
            /\ bump_alloc(PageMapPages, MappedEnd, "init_kmalloc")
            /\ free' = IF pc' = "panic" THEN 0 ELSE (m.ramEnd - placement') \div PageSize
            /\ UNCHANGED <<m, adr, memory_map, user_module>>

\* n calls of pmm_alloc(0), which panics when no page is left.
pmm_alloc(n, then) ==
    /\ IF n > free THEN free' = 0 /\ pc' = "panic" ELSE free' = free - n /\ pc' = then
    /\ UNCHANGED <<m, adr, placement, memory_map, user_module, bumped>>

\* The first page of the heap; the TCBs made during boot fit into it.
init_kmalloc == pc = "init_kmalloc" /\ pmm_alloc(1, "init_reaper")

\* The stack of the reaper.
init_reaper == pc = "init_reaper" /\ pmm_alloc(1, "create_process")

\* The module is read through user_module.  Its segments and tables take some
\* pages, the directory and the two stacks one each.
create_process == /\ pc = "create_process"
                  /\ \/ user_module = NULL /\ pc' = "panic"
                        /\ UNCHANGED <<m, adr, placement, memory_map, user_module, bumped, free>>
                     \/ user_module # NULL /\ pmm_alloc(3 + user_module.pages, "run")

Halted == pc \in Halt /\ UNCHANGED vars

Next == \/ magic \/ tags \/ map_bios \/ map_kernel \/ pmm_init
        \/ init_kmalloc \/ init_reaper \/ create_process \/ Halted

Spec == Init /\ [][Next]_vars

----------------------------------------------------------------------------
Modules == {i \in 1..Len(m.tags) : m.tags[i].type = "module" /\
                                   \A j \in 1..i : m.tags[j].type # "end"}
InUse == (KernelStart..KernelEnd - 1) \cup (m.mbi..MbiEnd - 1)
         \cup UNION {m.tags[i].start..m.tags[i].end - 1 : i \in Modules}

\* pmm_alloc hands out pages.
Allocating == pc \in {"init_kmalloc", "init_reaper", "create_process", "run"}

\* What the loader left in memory stays: neither the tables and page_map nor the
\* pages left to the allocator overlap the kernel, the tags or a module, of which
\* create_process reads the last one after the allocator has begun to work.
LoadedStays == /\ bumped \cap InUse = {}
               /\ Allocating => (placement..m.ramEnd - 1) \cap InUse = {}

Highest(S) == CHOOSE x \in S : \A y \in S : y <= x

\* Enough memory: the tables of paging_init in the first 4 MB; in RAM page_map as
\* well, a page each for the heap and the reaper, and the process's pages.
Room == LET top == AlignUp(Highest({MbiEnd, KernelStart} \cup {m.tags[i].end : i \in Modules}))
            tables == 1 + MaxTables
            process == 3 + m.tags[Highest(Modules)].pages
        IN  /\ top + tables * PageSize <= EarlyEnd
            /\ top + (tables + PageMapPages + 2 + process) * PageSize <= m.ramEnd

\* kmain comes to its end whenever it can: with a memory map, a module and enough
\* memory for everything that it allocates, it neither panics nor resets.
BootsWithRoom ==
    /\ m.magic /\ MbiEnd <= EarlyEnd /\ Modules # {} /\ Room
    /\ \E i \in 1..Len(m.tags) : m.tags[i].type = "mmap" /\
                                 \A j \in 1..i : m.tags[j].type # "end"
    => pc \notin {"panic", "reset"}
=============================================================================
