------------------------------- MODULE Paging -------------------------------
(***************************************************************************)
(* The page directories and page tables that paging_init and map_range     *)
(* write, and the walk the processor makes through them.  Addresses are    *)
(* counted in pages; a table has Entries of them, and so a large page is   *)
(* Entries pages.  One turn of the loop of early_map_range or map_range is *)
(* one step.                                                               *)
(***************************************************************************)
EXTENDS Integers, Sequences, FiniteSets

CONSTANTS Entries,     \* entries of a table: 1024 in the code
          PdeCount,    \* entries of a directory that are modelled
          KernelPde,   \* the first entry of the kernel's half: 768 in the code
          Bios,        \* where map_bios changes rights: pages 0, 1, ..., 256
          Layouts,     \* memory layouts: roEnd, kernelEnd, ramEnd, acpiEnd
          Dir,         \* page directories
          KernelPd,    \* kernel_page_directory
          NoMap        \* the translation of a page that is not present

ASSUME SizesAssumption == /\ Entries \in Nat \ {0}
                          /\ KernelPde \in 0..PdeCount - 1
                          /\ KernelPd \in Dir

VARIABLES pd,          \* the entries of each directory
          tables,      \* the entries of each frame that serves as a table
          placement,   \* the next page of bump_alloc
          layout,      \* the layout of this machine
          todo,        \* calls not yet begun
          job,         \* paddr, vaddr, size and flag of the call in progress
          loc,         \* its locals pde, pte and page_table
          cr3          \* the directory the processor uses
vars == <<pd, tables, placement, layout, todo, job, loc, cr3>>

P2V(p) == p + KernelPde * Entries
NoEntry == [frame |-> 0, flag |-> {}]
Request(d, p, v, n, f) == [d |-> d, paddr |-> p, vaddr |-> v, size |-> n, flag |-> f]
NoTable == -1

----------------------------------------------------------------------------
(* The walk: the rights to write and to use from Ring 3 must be granted at *)
(* both levels.                                                            *)
Both(e, g) == g.flag \ ({"RW", "US"} \ e.flag)

Translate(dir, tabs, v) ==
    LET e == dir[v \div Entries] IN
    IF "P" \notin e.flag THEN NoMap
    ELSE IF "PS" \in e.flag
    THEN [frame |-> e.frame + (v % Entries), flag |-> e.flag \ {"PS"}]
    ELSE LET g == tabs[e.frame][v % Entries] IN
         IF "P" \notin g.flag THEN NoMap ELSE [frame |-> g.frame, flag |-> Both(e, g)]

VPage == 0..PdeCount * Entries - 1
Walk(d) == [v \in VPage |-> Translate(pd[d], tables, v)]

----------------------------------------------------------------------------
(* The requests of map_bios and map_kernel, in order.                      *)

map_bios ==
    LET Range(i, f) == Request(KernelPd, Bios[i], P2V(Bios[i]), Bios[i + 1] - Bios[i], f)
    IN  << Range(1, {"P"}), Range(2, {"P", "RW"}), Range(3, {"P"}),
           Range(4, {"P", "RW", "NC", "WT"}), Range(5, {"P", "NC"}) >>

\* Faulty: the size of RAM is taken for its end.
map_kernel_short(l) ==
    LET Range(a, b, f) == Request(KernelPd, a, P2V(a), b - a, f)
    IN  << Range(Bios[6], l.roEnd, {"P"}), Range(l.roEnd, l.kernelEnd, {"P", "RW"}),
           Range(l.kernelEnd, l.ramEnd - Bios[6], {"P", "RW"}),
           Range(l.ramEnd, l.acpiEnd, {"P"}) >>

map_kernel(l) ==
    LET Range(a, b, f) == Request(KernelPd, a, P2V(a), b - a, f)
    IN  << Range(Bios[6], l.roEnd, {"P"}), Range(l.roEnd, l.kernelEnd, {"P", "RW"}),
           Range(l.kernelEnd, l.ramEnd, {"P", "RW"}), Range(l.ramEnd, l.acpiEnd, {"P"}) >>

Init == /\ pd = [d \in Dir |-> [i \in 0..PdeCount - 1 |-> NoEntry]]
        /\ tables = [f \in {} |-> NoEntry]
        /\ layout \in Layouts
        /\ placement \in layout.kernelEnd..layout.kernelEnd + 1
        /\ todo = map_bios \o map_kernel(layout)
        /\ job = Request(KernelPd, 0, 0, 0, {})
        /\ loc = [pde |-> 0, pte |-> 0, table |-> NoTable]
        /\ cr3 = "boot"

----------------------------------------------------------------------------
(* early_map_range and map_range: the call, a turn that writes an entry of *)
(* the directory, and a turn that writes an entry of a table.              *)
Call == /\ job.size = 0 /\ todo # <<>>
        /\ job' = Head(todo) /\ todo' = Tail(todo)
        /\ loc' = [pde |-> job'.vaddr \div Entries, pte |-> job'.vaddr % Entries,
                   table |-> NoTable]
        /\ UNCHANGED <<pd, tables, placement, layout, cr3>>

Large == /\ job.vaddr % Entries = 0 /\ job.paddr % Entries = 0
         /\ job.size >= Entries

Advance(n) == [job EXCEPT !.paddr = @ + n, !.vaddr = @ + n, !.size = @ - n]

MapLarge == /\ job.size > 0 /\ Large
            /\ pd' = [pd EXCEPT ![job.d][loc.pde] =
                        [frame |-> job.paddr, flag |-> {"PS"} \cup job.flag]]
            /\ job' = Advance(Entries)
            /\ loc' = [loc EXCEPT !.pde = @ + 1]
            /\ UNCHANGED <<tables, placement, layout, todo, cr3>>

AtTable == loc.pte = 0 \/ loc.table = NoTable
NeedsTable == AtTable /\ "P" \notin pd[job.d][loc.pde].flag

\* Faulty: the directory entry gets the rights of the first page only.
TableEntry_strict(f) == [frame |-> f, flag |-> {"P"} \cup job.flag]

TableEntry(f) == [frame |-> f, flag |-> {"P", "RW"} \cup job.flag]

TableNow(dir) == IF AtTable THEN dir[loc.pde].frame ELSE loc.table

\* f is the page the allocator returns if a table is needed, with contents c.
MapSmall(f, c) ==
    LET dir == IF NeedsTable THEN [pd[job.d] EXCEPT ![loc.pde] = TableEntry(f)]
                             ELSE pd[job.d]
        tabs == IF NeedsTable
                THEN [g \in DOMAIN tables \cup {f} |-> IF g = f THEN c ELSE tables[g]]
                ELSE tables
        next == (loc.pte + 1) % Entries
    IN  /\ job.size > 0 /\ ~Large
        /\ pd' = [pd EXCEPT ![job.d] = dir]
        /\ tables' = [tabs EXCEPT ![TableNow(dir)][loc.pte] =
                         [frame |-> job.paddr, flag |-> job.flag]]
        /\ job' = Advance(1)
        /\ loc' = [pde |-> IF next = 0 THEN loc.pde + 1 ELSE loc.pde,
                   pte |-> next, table |-> TableNow(dir)]

\* A table of early_map_range comes from bump_alloc, which clears it.
ZeroTable == [i \in 0..Entries - 1 |-> NoEntry]
bump_alloc == placement' = placement + 1

MapSmallEarly == /\ MapSmall(placement, ZeroTable)
                 /\ IF NeedsTable THEN bump_alloc ELSE UNCHANGED placement
                 /\ UNCHANGED <<layout, todo, cr3>>

Mapped == job.size = 0 /\ todo = <<>>

\* The end of paging_init.
refresh_cr3 == /\ Mapped /\ cr3 = "boot" /\ cr3' = KernelPd
               /\ UNCHANGED <<pd, tables, placement, layout, todo, job, loc>>

Booted == cr3 = KernelPd /\ UNCHANGED vars

Next == Call \/ MapLarge \/ MapSmallEarly \/ refresh_cr3 \/ Booted

Spec == Init /\ [][Next]_vars

----------------------------------------------------------------------------
\* The walk through the directories and tables is the address map that the
\* calls of map_bios and map_kernel ask for, at every turn of the loop.
AM == INSTANCE AddressMap WITH map <- [d \in Dir |-> Walk(d)]
WalksAsAsked == AM!Spec

\* Once the kernel's directory is loaded, every table can be written through
\* the kernel's half, as map_range does: its frame is mapped there for writing.
TablesReachable == cr3 = KernelPd =>
    \A f \in DOMAIN tables :
        LET t == Translate(pd[KernelPd], tables, P2V(f)) IN
        t # NoMap /\ t.frame = f /\ "RW" \in t.flag

\* The lower half, where null pointers and user pages lie, has no translation in
\* the kernel's directory, and nothing in the upper half is open to Ring 3.
UserHalfEmpty == \A v \in VPage :
    LET t == Translate(pd[KernelPd], tables, v) IN
    IF v < P2V(0) THEN t = NoMap ELSE t = NoMap \/ "US" \notin t.flag
=============================================================================
