----------------------------- MODULE BootProofs -----------------------------
(***************************************************************************)
(* When what the loader left in memory is safe: on any machine where the   *)
(* tags, or a module that the walk over the tags meets, end behind the     *)
(* kernel.                                                                 *)
(***************************************************************************)
EXTENDS Boot, TLAPS

ModulesOf(x) == {i \in 1..Len(x.tags) : x.tags[i].type = "module" /\
                                        \A j \in 1..i : x.tags[j].type # "end"}

\* kmain places its tables behind KernelStart and not behind KernelEnd, so that
\* it relies on something that ends behind the kernel.
SomethingBehind ==
    \A x \in Machines : \/ KernelEnd <= x.mbi + x.size
                        \/ \E i \in ModulesOf(x) : KernelEnd <= x.tags[i].end

\* Address a lies behind everything the loader left.
Behind(a) == /\ KernelEnd <= a /\ MbiEnd <= a
             /\ \A i \in Modules : m.tags[i].end <= a

\* Past the walk over the tags.
Placed == pc \in {"paging_init", "map_kernel", "pmm_init", "init_kmalloc", "init_reaper",
                  "create_process", "run"}

\* The walk over the tags has seen what lies before tag adr; from then on the
\* placement address is behind everything, and so is all that was given out.
Inv == /\ m \in Machines /\ placement \in Nat /\ adr \in Nat \ {0}
       /\ pc \in {"magic", "tags"} => bumped = {}
       /\ pc = "magic" => adr = 1
       /\ pc = "tags" => /\ MbiEnd <= placement
                         /\ \A j \in 1..adr - 1 : m.tags[j].type # "end"
                         /\ \A i \in Modules : i < adr => m.tags[i].end <= placement
       /\ Placed => Behind(placement)
       /\ \A a \in bumped : a \in Nat /\ Behind(a)

\* init_bump rounds the placement address up.
LEMMA AlignUpFacts == ASSUME NEW a \in Nat PROVE AlignUp(a) \in Nat /\ AlignUp(a) >= a
<1> DEFINE q == (a + PageSize - 1) \div PageSize
<1> USE BootAssumption
<1>1. q \in Nat /\ q * PageSize > a + PageSize - 1 - PageSize
  OBVIOUS
<1>2. q * PageSize \in Nat
  BY <1>1
<1> QED
  BY <1>1, <1>2 DEF AlignUp

\* The facts about a machine that the steps use.
LEMMA MachineFacts ==
    ASSUME m \in Machines
    PROVE  /\ m.mbi \in Nat /\ MbiEnd \in Nat /\ Len(m.tags) \in Nat
           /\ m.ramEnd \in Nat
           /\ \A i \in Modules : i \in 1..Len(m.tags) /\ m.tags[i].end \in Nat
                                                      /\ m.tags[i].start \in Nat
<1>1. /\ {m.mbi, m.size, m.ramEnd, Len(m.tags)} \subseteq Nat
      /\ \A i \in 1..Len(m.tags) : m.tags[i].type = "module" =>
            {m.tags[i].start, m.tags[i].end, m.tags[i].pages} \subseteq Nat
  BY BootAssumption, Zenon
<1>2. m.mbi \in Nat /\ MbiEnd \in Nat /\ Len(m.tags) \in Nat /\ m.ramEnd \in Nat
  BY ONLY <1>1 DEF MbiEnd
<1>3. ASSUME NEW i \in Modules
      PROVE  i \in 1..Len(m.tags) /\ m.tags[i].end \in Nat /\ m.tags[i].start \in Nat
  BY ONLY <1>1, <1>3, Zenon DEF Modules
<1> QED
  BY ONLY <1>2, <1>3

\* The constants that the steps compare.
LEMMA ConstantFacts ==
    PageSize \in Nat \ {0} /\ {KernelStart, KernelEnd} \subseteq Nat /\ EarlyEnd \in Nat
    /\ MaxTables \in Nat /\ PageMapPages \in Nat
BY BootAssumption, Zenon

\* bump_alloc gives out what lies from the placement address on.
LEMMA BumpFacts ==
    ASSUME Inv, Behind(placement), NEW pages \in Nat, NEW end \in Nat, NEW then,
           bump_alloc(pages, end, then), m' = m, adr' = adr,
           then \in {"map_kernel", "pmm_init", "init_kmalloc"}
    PROVE  Inv'
<1>0. /\ m \in Machines /\ placement \in Nat /\ adr \in Nat \ {0}
      /\ \A a \in bumped : a \in Nat /\ Behind(a)
  BY DEF Inv
<1> DEFINE top == placement + pages * PageSize
<1>1. pages * PageSize \in Nat
  BY ONLY ConstantFacts, pages \in Nat
<1>2. top \in Nat /\ top >= placement
  BY ONLY <1>0, <1>1
<1> HIDE DEF top
<1> DEFINE upto == IF top > end THEN end ELSE top
<1>3. placement' = top /\ bumped' = bumped \cup placement..upto - 1 /\ pc' \in {"panic", then}
  BY DEF bump_alloc, top
<1>4. upto \in Nat
  BY ONLY <1>2, end \in Nat
<1> HIDE DEF upto
<1>5. MbiEnd' = MbiEnd /\ Modules' = Modules
  BY DEF MbiEnd, Modules
<1>6. KernelEnd \in Nat /\ MbiEnd \in Nat /\ \A i \in Modules : m.tags[i].end \in Nat
  BY <1>0, ConstantFacts, MachineFacts, Zenon
<1>7. ASSUME NEW a \in Nat, a >= placement
      PROVE  /\ KernelEnd <= a /\ MbiEnd <= a
             /\ \A i \in Modules : m.tags[i].end <= a
  BY ONLY <1>0, <1>6, <1>7, Behind(placement) DEF Behind
<1>8. Behind(placement)'
  BY <1>2, <1>3, <1>5, <1>7 DEF Behind
<1>9. ASSUME NEW a \in bumped' PROVE a \in Nat /\ Behind(a)'
  <2>1. CASE a \in bumped
    BY <1>0, <1>5, <2>1 DEF Behind
  <2>2. CASE a \in placement..upto - 1
    <3>1. a \in Nat /\ a >= placement
      BY ONLY <1>0, <1>4, <2>2
    <3> QED
      BY <1>5, <1>7, <3>1 DEF Behind
  <2> QED
    BY <1>3, <1>9, <2>1, <2>2
<1> QED
  BY <1>0, <1>2, <1>3, <1>8, <1>9 DEF Inv

\* What the invariant speaks of depends on the machine only.
LEMMA SameMachine ==
    ASSUME m' = m
    PROVE  /\ MbiEnd' = MbiEnd /\ Modules' = Modules
           /\ \A a : Behind(a)' <=> Behind(a)
BY DEF MbiEnd, Modules, Behind

\* A step past the walk over the tags that gives out nothing.
LEMMA PastTheTags ==
    ASSUME Inv, m' = m, adr' = adr, bumped' = bumped, placement' \in Nat,
           pc' \notin {"magic", "tags"},
           Placed' => Behind(placement')
    PROVE  Inv'
<1>1. /\ m \in Machines /\ adr \in Nat \ {0}
      /\ \A a \in bumped : a \in Nat /\ Behind(a)
  BY DEF Inv
<1>2. \A a \in bumped' : a \in Nat /\ Behind(a)'
  BY <1>1, SameMachine, Zenon
<1>3. Behind(placement)' <=> Behind(placement')
  BY DEF Behind, MbiEnd, Modules
<1> QED
  BY <1>1, <1>2, <1>3 DEF Inv

\* A turn of the walk over the tags, and the rounding behind its last.
LEMMA InvTags == ASSUME SomethingBehind, Inv, tags PROVE Inv'
<1>1. m' = m /\ bumped' = bumped /\ pc = "tags"
  BY DEF tags
<1>2. /\ m \in Machines /\ placement \in Nat /\ adr \in Nat \ {0} /\ bumped = {}
      /\ MbiEnd <= placement
      /\ \A j \in 1..adr - 1 : m.tags[j].type # "end"
      /\ \A i \in Modules : i < adr => m.tags[i].end <= placement
  BY <1>1 DEF Inv
<1>3. /\ KernelEnd \in Nat /\ MbiEnd \in Nat /\ Len(m.tags) \in Nat
      /\ \A i \in Modules : i \in 1..Len(m.tags) /\ m.tags[i].end \in Nat
  BY <1>2, ConstantFacts, MachineFacts, Zenon
<1>4. CASE adr > Len(m.tags) \/ m.tags[adr].type = "end"
  <2>1. pc' = "paging_init" /\ placement' = AlignUp(placement) /\ adr' = adr
    BY <1>4 DEF tags
  <2>2. placement' \in Nat /\ placement' >= placement
    BY <1>2, <2>1, AlignUpFacts, Zenon
  <2>3. ASSUME NEW i \in Modules PROVE i < adr
    <3>1. i \in 1..Len(m.tags) /\ \A j \in 1..i : m.tags[j].type # "end"
      BY <2>3 DEF Modules
    <3> QED
      BY ONLY <1>2, <1>3, <1>4, <3>1
  <2>4. MbiEnd <= placement' /\ \A i \in Modules : m.tags[i].end <= placement'
    BY ONLY <1>2, <1>3, <2>2, <2>3
  <2>5. KernelEnd <= MbiEnd \/ \E i \in Modules : KernelEnd <= m.tags[i].end
    BY <1>2, Zenon DEF SomethingBehind, ModulesOf, Modules, MbiEnd
  <2>6. KernelEnd <= placement'
    BY ONLY <1>3, <2>2, <2>4, <2>5
  <2>7. Behind(placement')
    BY <2>4, <2>6, Zenon DEF Behind
  <2> QED
    BY <1>1, <2>1, <2>2, <2>7, PastTheTags
<1>5. CASE ~(adr > Len(m.tags) \/ m.tags[adr].type = "end")
  <2>1. /\ adr' = adr + 1 /\ pc' = "tags"
        /\ placement' = IF m.tags[adr].type = "module"
                        THEN AfterModule(m.tags[adr]) ELSE placement
    BY <1>1, <1>5 DEF tags
  <2>2. adr' \in Nat \ {0} /\ 1..adr' - 1 = 1..adr /\ adr \in 1..Len(m.tags)
    BY ONLY <1>2, <1>3, <1>5, <2>1
  <2>3. \A j \in 1..adr : m.tags[j].type # "end"
    BY ONLY <1>2, <1>5
  <2>4. m.tags[adr].type = "module" => adr \in Modules
    BY <2>2, <2>3, Zenon DEF Modules
  <2>5. /\ placement' \in Nat /\ placement' >= placement
        /\ m.tags[adr].type = "module" => m.tags[adr].end <= placement'
    BY ONLY <1>2, <1>3, <2>1, <2>4 DEF AfterModule
  <2>6. ASSUME NEW i \in Modules, i < adr' PROVE m.tags[i].end <= placement'
    <3>1. i \in Nat /\ m.tags[i].end \in Nat /\ m.tags[i].type = "module"
      BY <1>3, <2>6 DEF Modules
    <3>2. CASE i = adr
      BY ONLY <2>5, <3>1, <3>2
    <3>3. CASE i < adr
      BY ONLY <1>2, <2>5, <2>6, <3>1, <3>3
    <3> QED
      BY ONLY <1>2, <2>1, <2>6, <3>1, <3>2, <3>3
  <2>7. MbiEnd <= placement'
    BY ONLY <1>2, <1>3, <2>5
  <2>8. MbiEnd' = MbiEnd /\ Modules' = Modules
    BY <1>1, SameMachine
  <2> QED
    BY <1>1, <1>2, <2>1, <2>2, <2>3, <2>5, <2>6, <2>7, <2>8 DEF Inv, Placed
<1> QED
  BY <1>4, <1>5, Zenon

\* Every call of kmain preserves the invariant.
LEMMA InvNext == ASSUME SomethingBehind, Inv, [Next]_vars PROVE Inv'
<1>1. m \in Machines /\ placement \in Nat
  BY DEF Inv
<1>2. CASE magic
  <2>1. /\ m' = m /\ adr' = adr /\ bumped' = bumped /\ pc = "magic"
        /\ \/ pc' \in {"panic", "reset"} /\ placement' = placement
           \/ /\ pc' = "tags"
              /\ placement' = IF MbiEnd > KernelStart THEN MbiEnd ELSE KernelStart
    BY <1>2, Zenon DEF magic
  <2>2. MbiEnd \in Nat /\ KernelStart \in Nat
    BY <1>1, MachineFacts, ConstantFacts
  <2>3. CASE pc' \in {"panic", "reset"}
    BY <1>1, <2>1, <2>3, PastTheTags DEF Placed
  <2>4. CASE pc' = "tags"
    <3>1. placement' \in Nat /\ MbiEnd <= placement'
      BY ONLY <2>1, <2>2, <2>4
    <3>2. adr = 1 /\ bumped = {}
      BY <2>1 DEF Inv
    <3>3. \A i \in Modules : ~(i < 1)
      BY <1>1, MachineFacts
    <3>4. MbiEnd' = MbiEnd /\ Modules' = Modules
      BY <2>1, SameMachine
    <3> QED
      BY <1>1, <2>1, <2>4, <3>1, <3>2, <3>3, <3>4 DEF Inv, Placed
  <2> QED
    BY ONLY <2>1, <2>3, <2>4
<1>3. CASE tags
  BY <1>3, InvTags
<1>4. CASE map_bios
  <2>1. bump_alloc(1, EarlyEnd, "map_kernel") /\ m' = m /\ adr' = adr /\ Behind(placement)
    BY <1>4 DEF map_bios, Inv, Placed
  <2> QED
    BY <2>1, ConstantFacts, BumpFacts
<1>5. CASE map_kernel
  <2>1. m' = m /\ adr' = adr /\ Behind(placement)
    BY <1>5 DEF map_kernel, Inv, Placed
  <2>2. CASE pc' = "panic" /\ UNCHANGED <<placement, bumped>>
    BY <1>1, <2>1, <2>2, PastTheTags DEF Placed
  <2>3. ASSUME NEW n \in 0..MaxTables, bump_alloc(n, EarlyEnd, "pmm_init") PROVE Inv'
    <3>1. n \in Nat /\ EarlyEnd \in Nat
      BY ONLY n \in 0..MaxTables, ConstantFacts
    <3> QED
      BY <2>1, <2>3, <3>1, BumpFacts
  <2> QED
    BY <1>5, <2>2, <2>3, Zenon DEF map_kernel
<1>6. CASE pmm_init
  <2>1. /\ bump_alloc(PageMapPages, m.ramEnd, "init_kmalloc")
        /\ m' = m /\ adr' = adr /\ Behind(placement)
    BY <1>6 DEF pmm_init, MappedEnd, Inv, Placed
  <2>2. PageMapPages \in Nat /\ m.ramEnd \in Nat
    BY <1>1, ConstantFacts, MachineFacts
  <2> QED
    BY <2>1, <2>2, BumpFacts
<1>7. CASE init_kmalloc \/ init_reaper \/ create_process
  <2>1. /\ m' = m /\ adr' = adr /\ bumped' = bumped /\ placement' = placement
        /\ pc' \in {"panic", "init_reaper", "create_process", "run"} /\ Behind(placement)
    BY <1>7 DEF init_kmalloc, init_reaper, create_process, pmm_alloc, Inv, Placed
  <2> QED
    BY <1>1, <2>1, PastTheTags
<1>8. CASE Halted \/ UNCHANGED vars
  BY <1>8, Zenon DEF Inv, Halted, vars, Behind, MbiEnd, Modules, Placed
<1> QED
  BY <1>2, <1>3, <1>4, <1>5, <1>6, <1>7, <1>8 DEF Next

\* If on every machine something ends behind the kernel, neither bump_alloc nor
\* the page allocator is ever given memory that the loader had filled.
THEOREM LoadedMemorySafe == ASSUME SomethingBehind PROVE Spec => []LoadedStays
<1>1. Init => Inv
  BY BootAssumption DEF Init, Inv, Placed
<1>2. Inv /\ [Next]_vars => Inv'
  BY InvNext
<1>3. Inv => LoadedStays
  <2> SUFFICES ASSUME Inv PROVE LoadedStays
    OBVIOUS
  <2>1. ASSUME NEW a \in Nat, Behind(a), a \in InUse PROVE FALSE
    <3>1. CASE a \in KernelStart..KernelEnd - 1
      BY <2>1, <3>1, BootAssumption DEF Behind
    <3>2. CASE a \in m.mbi..MbiEnd - 1
      BY <2>1, <3>2, MachineFacts DEF Behind, Inv
    <3>3. ASSUME NEW i \in Modules, a \in m.tags[i].start..m.tags[i].end - 1 PROVE FALSE
      BY <2>1, <3>3, MachineFacts DEF Behind, Inv
    <3> QED
      BY <2>1, <3>1, <3>2, <3>3 DEF InUse
  <2>2. bumped \cap InUse = {}
    BY <2>1 DEF Inv
  <2>3. ASSUME Allocating, NEW a \in placement..m.ramEnd - 1 PROVE a \notin InUse
    <3>1. a \in Nat /\ a >= placement /\ placement \in Nat /\ Behind(placement)
      BY <2>3, MachineFacts DEF Inv, Allocating, Placed
    <3>2. KernelEnd \in Nat /\ MbiEnd \in Nat /\ \A i \in Modules : m.tags[i].end \in Nat
      BY MachineFacts, BootAssumption DEF Inv
    <3>3. Behind(a)
      BY ONLY <3>1, <3>2 DEF Behind
    <3> QED
      BY <2>1, <3>1, <3>3
  <2> QED
    BY <2>2, <2>3 DEF LoadedStays
<1> QED
  BY <1>1, <1>2, <1>3, PTL DEF Spec
=============================================================================
