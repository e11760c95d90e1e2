------------------------------ MODULE ProcMem ------------------------------
(***************************************************************************)
(* The memory of processes and kernel threads: create_process with the ELF *)
(* loader and map_range, thread_create, and destroy_thread as the reaper   *)
(* calls it.  It runs on the directories that paging_init made.  Which     *)
(* free page pmm_alloc returns does not matter here, so it is the lowest;  *)
(* with none left it panics, and no step follows.                          *)
(***************************************************************************)
EXTENDS Paging, FiniteSetsExt

CONSTANTS Process, Kthread,   \* threads that create_process, thread_create make
          Exits,              \* the threads that end
          Elves,              \* the files given to create_process
          Unit                \* parts of a page that segments tell apart

ASSUME DirAssumption == Dir = Process \cup {KernelPd}

VARIABLES owner,      \* what each allocated frame is used for, and for which thread
          data,       \* the contents of frames that hold parts of segments
          status,     \* "none", "live" or "gone"
          stack,      \* thread->stack
          elf,        \* the file of each process
          load,       \* create_process in progress: stage and locals
          misfreed    \* arguments of pmm_free that are no block of the thread
mvars == <<owner, data, status, stack, elf, load, misfreed>>
allvars == <<vars, mvars>>

Thread == Process \cup Kthread
NoLoad == [stage |-> "idle"]
NoFile == [magic |-> FALSE, segs |-> <<>>]

PInit == /\ Init
         /\ owner = [f \in {} |-> 0] /\ data = [f \in {} |-> 0]
         /\ status = [t \in Thread |-> "none"]
         /\ stack = [t \in Thread |-> 0]
         /\ elf = [t \in Process |-> NoFile]
         /\ load = NoLoad /\ misfreed = {}

\* paging_init; the pages from placement to the end of RAM are then free.
Boot == /\ Call \/ MapLarge \/ MapSmallEarly \/ refresh_cr3
        /\ cr3 = "boot" /\ UNCHANGED mvars

FreePages == (placement..layout.ramEnd - 1) \ DOMAIN owner
pmm_alloc == Min(FreePages)
Own(f, t, use) == [g \in DOMAIN owner \cup {f} |->
                     IF g = f THEN <<t, use>> ELSE owner[g]]

\* pmm_alloc hands out a page as it is: with what its last owner or the firmware
\* left there, which as page table entries may be anything.  Two contents stand
\* for all.
Junk == [i \in 0..Entries - 1 |-> [frame |-> 0, flag |-> {"P", "RW", "US"}]]
LeftInPage == {ZeroTable, Junk}

\* Running with the kernel's directory, nothing left to map.
Ready == cr3 # "boot" /\ Mapped
PageLeft == FreePages # {}
Start(request) == todo' = <<request>> /\ UNCHANGED <<pd, tables, placement, layout, job, loc, cr3>>

----------------------------------------------------------------------------
(* map_range, whose tables come from pmm_alloc with what the page held.    *)
MapSmallLate ==
    /\ load.stage # "idle" /\ job.size > 0 /\ (NeedsTable => PageLeft)
    /\ \E c \in IF NeedsTable THEN LeftInPage ELSE {ZeroTable} : MapSmall(pmm_alloc, c)
    /\ owner' = IF NeedsTable THEN Own(pmm_alloc, job.d, "table") ELSE owner
    /\ UNCHANGED <<placement, layout, todo, cr3, data, status, stack, elf, load, misfreed>>

map_range == \/ MapSmallLate
             \/ cr3 # "boot" /\ Call /\ UNCHANGED mvars

----------------------------------------------------------------------------
(* create_process and the ELF loader.                                      *)

\* Faulty: the copy is of the process created last.
NewDirectory_last(t) ==
    LET made == {p \in Process : status[p] # "none"} IN
    IF made = {} THEN pd[KernelPd] ELSE pd[CHOOSE p \in made : TRUE]

\* Faulty: the directory starts empty.
NewDirectory_empty(t) == [i \in 0..PdeCount - 1 |-> NoEntry]

NewDirectory(t) == pd[KernelPd]

create_process(t, file) ==
    /\ Ready /\ load = NoLoad /\ status[t] = "none" /\ PageLeft
    /\ owner' = Own(pmm_alloc, t, "pd")
    /\ pd' = [pd EXCEPT ![t] = NewDirectory(t)]
    /\ elf' = [elf EXCEPT ![t] = file]
    /\ load' = [stage |-> IF file.magic THEN "elf" ELSE "stack",
                t |-> t, seg |-> 1, i |-> 0, left |-> 0, last |-> 0]
    /\ UNCHANGED <<tables, placement, layout, todo, job, loc, cr3,
                   data, status, stack, misfreed>>

Segs == elf[load.t].segs
Cur == Segs[load.seg]
PageCount(s) == (s.memsz + Unit - 1) \div Unit
Rights(s) == {"P", "US"} \cup (IF s.flags = {"R", "W"} THEN {"RW"} ELSE {})
Left == IF load.i = 0 THEN Cur.filesz ELSE load.left
Copying == IF Left > Unit THEN Unit ELSE Left

\* Faulty: every page gets the first part of the segment.
Contents_first(i) == [u \in 0..Unit - 1 |-> IF u < Copying THEN <<load.seg, u>> ELSE 0]

Contents(i) == [u \in 0..Unit - 1 |->
                  IF u < Copying THEN <<load.seg, i * Unit + u>> ELSE 0]

\* A turn of the loop of load_segment.
load_segment ==
    /\ Ready /\ load.stage = "elf" /\ load.seg <= Len(Segs)
    /\ Cur.type = "LOAD" /\ load.i < PageCount(Cur) /\ PageLeft
    /\ owner' = Own(pmm_alloc, load.t, "segment")
    /\ data' = [g \in DOMAIN data \cup {pmm_alloc} |->
                  IF g = pmm_alloc THEN Contents(load.i) ELSE data[g]]
    /\ load' = [load EXCEPT !.i = @ + 1, !.left = Left - Copying]
    /\ Start(Request(load.t, pmm_alloc, (Cur.vaddr + load.i * Unit) \div Unit, 1, Rights(Cur)))
    /\ UNCHANGED <<status, stack, elf, misfreed>>

\* Faulty: the end of the last segment, not of the highest.
EndsAt_last(s) == s.vaddr + PageCount(s) * Unit

EndsAt(s) == IF s.type # "LOAD" THEN load.last
             ELSE Max({load.last, s.vaddr + PageCount(s) * Unit})

\* load_segment returns; load_elf goes on to the next header.
load_elf ==
    /\ Ready /\ load.stage = "elf"
    /\ IF load.seg > Len(Segs) THEN load' = [load EXCEPT !.stage = "stack"]
       ELSE /\ Cur.type # "LOAD" \/ load.i = PageCount(Cur)
            /\ load' = [load EXCEPT !.seg = @ + 1, !.i = 0, !.last = EndsAt(Cur)]
    /\ UNCHANGED <<vars, owner, data, status, stack, elf, misfreed>>

\* The Ring 3 stack, mapped at the end of the image.
user_stack ==
    /\ Ready /\ load.stage = "stack" /\ PageLeft
    /\ owner' = Own(pmm_alloc, load.t, "ustack")
    /\ load' = [load EXCEPT !.stage = "kernel"]
    /\ Start(Request(load.t, pmm_alloc, load.last \div Unit, 1, {"P", "US", "RW"}))
    /\ UNCHANGED <<data, status, stack, elf, misfreed>>

\* The Ring 0 stack is kmalloc(0x1000): a page, at its virtual address.
setup_kerenl_stack ==
    /\ Ready /\ load.stage = "kernel" /\ PageLeft
    /\ owner' = Own(pmm_alloc, load.t, "kstack")
    /\ stack' = [stack EXCEPT ![load.t] = P2V(pmm_alloc)]
    /\ status' = [status EXCEPT ![load.t] = "live"]
    /\ load' = NoLoad
    /\ UNCHANGED <<vars, data, elf, misfreed>>

----------------------------------------------------------------------------
(* Kernel threads, and the end of a thread.                                *)

thread_create(t) ==
    /\ Ready /\ load = NoLoad /\ status[t] = "none" /\ PageLeft
    /\ owner' = Own(pmm_alloc, t, "kstack")
    /\ stack' = [stack EXCEPT ![t] = pmm_alloc]
    /\ status' = [status EXCEPT ![t] = "live"]
    /\ UNCHANGED <<vars, data, elf, load, misfreed>>

\* pmm_free(thread->stack), then kfree of the TCB.  An address that is no block of
\* the thread reaches page_map outside of its bounds; it is recorded, and what the
\* access does there is not modelled.
destroy_thread(t) ==
    /\ Ready /\ load = NoLoad /\ status[t] = "live"
    /\ status' = [status EXCEPT ![t] = "gone"]
    /\ IF stack[t] \in DOMAIN owner /\ owner[stack[t]] = <<t, "kstack">>
       THEN /\ owner' = [g \in DOMAIN owner \ {stack[t]} |-> owner[g]]
            /\ UNCHANGED misfreed
       ELSE /\ misfreed' = misfreed \cup {stack[t]}
            /\ UNCHANGED owner
    /\ UNCHANGED <<vars, data, stack, elf, load>>

Quiet == Ready /\ load = NoLoad /\ UNCHANGED allvars

Panicked == cr3 # "boot" /\ ~PageLeft /\ UNCHANGED allvars

PNext == \/ Boot \/ map_range \/ load_segment \/ load_elf
         \/ user_stack \/ setup_kerenl_stack \/ Quiet \/ Panicked
         \/ \E t \in Process, file \in Elves : create_process(t, file)
         \/ \E t \in Kthread : thread_create(t)
         \/ \E t \in Exits : destroy_thread(t)

PSpec == PInit /\ [][PNext]_allvars

----------------------------------------------------------------------------
Made(t) == status[t] # "none"
LoadSegs(t) == {s \in 1..Len(elf[t].segs) :
                  elf[t].magic /\ elf[t].segs[s].type = "LOAD"}

\* Every segment of the file begins with a page, as user.ld lays them out:
\* load_segment copies to the start of a page wherever in it p_vaddr lies.
PageAligned(t) == \A n \in LoadSegs(t) : elf[t].segs[n].vaddr % Unit = 0

\* The frame that a process reaches at virtual page v is its own and used so.
Reaches(t, v, use) ==
    LET m == Walk(t)[v] IN m # NoMap /\ m.frame \in DOMAIN owner /\ owner[m.frame] = <<t, use>>

\* A process that has been created sees its image: every byte of a loadable
\* segment is there at its address, with zeros behind the part that is in the file,
\* and can be written only if the segment is read-write.
ImageLoaded == \A t \in Process : Made(t) /\ PageAligned(t) => \A n \in LoadSegs(t) :
    LET s == elf[t].segs[n] IN \A a \in s.vaddr..s.vaddr + PageCount(s) * Unit - 1 :
        LET m == Walk(t)[a \div Unit] IN
        /\ Reaches(t, a \div Unit, "segment")
        /\ data[m.frame][a % Unit] = IF a - s.vaddr < s.filesz THEN <<n, a - s.vaddr>> ELSE 0
        /\ m.flag = Rights(s)

\* The Ring 3 stack of a process is mapped for writing, in a page of its own
\* outside of every segment.
StackApart == \A t \in Process : Made(t) /\ PageAligned(t) =>
    \E v \in 0..P2V(0) - 1 :
        /\ Reaches(t, v, "ustack") /\ "RW" \in Walk(t)[v].flag
        /\ \A n \in LoadSegs(t) : LET s == elf[t].segs[n] IN
             \A a \in s.vaddr..s.vaddr + s.memsz - 1 : v # a \div Unit

\* Every process directory translates the kernel's half as the kernel's own.
KernelHalfShared == \A t \in Process : Made(t) =>
    \A v \in P2V(0)..PdeCount * Entries - 1 : Walk(t)[v] = Walk(KernelPd)[v]

\* Below the kernel's half no two processes share a page table, whatever is created
\* and freed between the calls of map_range that fill it: a directory leads to tables
\* that were allocated for it and are in no other use.
TablesOwn == \A t \in Process, i \in 0..KernelPde - 1 :
    LET e == pd[t][i] IN
    "P" \in e.flag => e.frame \in DOMAIN owner /\ owner[e.frame] = <<t, "table">>

\* Processes are isolated: a page that Ring 3 can reach in a process is a segment
\* or the stack of this process.  map_range makes page tables of pages that it does
\* not clear, so this fails (docs/16: "entirely isolated virtual memory spaces").
Isolated == \A t \in Process : Made(t) => \A v \in VPage :
    LET m == Walk(t)[v] IN
    (m # NoMap /\ "US" \in m.flag) => Reaches(t, v, "segment") \/ Reaches(t, v, "ustack")

\* The reaper frees a block of the thread it destroys, and nothing else.
FreesOwn == misfreed = {}
=============================================================================
