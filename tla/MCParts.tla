------------------------------ MODULE MCParts ------------------------------
(***************************************************************************)
(* Parts of the kernel that are checked on their own: a behaviour is about *)
(* one part, and the others keep an initial state.                         *)
(***************************************************************************)
EXTENDS Boot, Console

CONSTANTS IntBits, Items, MaxItems,                                  \* Kprintf
          Size, MaxCount,                                            \* MemOps
          Node, Keys, Heads, MaxLen,                                 \* the lists
          Word, TickRate, PitCrystal, SleepTimes, FirstLoad, MaxTicks,  \* SleepClock
          Entries, PdeCount, KernelPde, Bios, Layouts, Dir, KernelPd, NoMap   \* Paging

VARIABLES part,
          items, fmt, args, out, count,
          mem, op, width, edi, esi, ecx,
          head, tail, size, next, prev, wake_at, panicked,
          head_ref, nextNode, prevNode,
          now, hi, lo, sleeper, caller, first, half, time, due, start, end, woke,
          pd, tables, nextPage, layout, todo, job, loc, cr3

kprintfVars == <<items, fmt, args, out, count>>
memVars == <<mem, op, width, edi, esi, ecx>>
queueVars == <<head, tail, size, next, prev, wake_at, panicked>>
nodeVars == <<head_ref, nextNode, prevNode>>
clockVars == <<now, hi, lo, sleeper, caller, first, half, time, due, start, end, woke>>
pagingVars == <<pd, tables, nextPage, layout, todo, job, loc, cr3>>

K == INSTANCE Kprintf
M == INSTANCE MemOps
Q == INSTANCE DLList
F == INSTANCE NodeList WITH next <- nextNode, prev <- prevNode
S == INSTANCE SleepClock WITH pc <- sleeper, wake_at <- due
P == INSTANCE Paging WITH placement <- nextPage

ASSUME ListsAssumption == NULL \notin Node /\ Keys \subseteq Nat

----------------------------------------------------------------------------
\* The part that a behaviour is about takes any input, the others one and the same.
OneCall == CHOOSE o \in M!Calls : TRUE
OneItem == CHOOSE i \in Items : TRUE
OneOrder == [x \in Node |-> 0]
OneLayout == CHOOSE l \in Layouts : TRUE
OneMachine == CHOOSE x \in Machines : TRUE
OneColor == CHOOSE c \in Color : TRUE

Inputs(p, all, one) == IF part = p THEN all ELSE {one}

PartsInit ==
    /\ part \in {"kprintf", "memops", "queue", "nodes", "clock", "paging", "boot", "console"}
    /\ items \in Inputs("kprintf", UNION {[1..n -> Items] : n \in 1..MaxItems}, <<OneItem>>)
    /\ op \in Inputs("memops", M!Calls, OneCall)
    /\ wake_at \in Inputs("queue", [Node -> Keys], OneOrder)
    /\ layout \in Inputs("paging", Layouts, OneLayout)
    /\ nextPage \in Inputs("paging", layout.kernelEnd..layout.kernelEnd + 1, layout.kernelEnd)
    /\ m \in Inputs("boot", Machines, OneMachine)
    /\ vga_color \in Inputs("console", Color, OneColor)
    /\ K!Init /\ M!Init /\ Q!Init /\ F!Init /\ S!Init /\ P!Init /\ Init /\ ConsoleInit

PartsNext ==
    /\ UNCHANGED part
    /\ IF part = "kprintf" THEN K!Next ELSE UNCHANGED kprintfVars
    /\ IF part = "memops" THEN M!Next ELSE UNCHANGED memVars
    /\ IF part = "queue" THEN Q!Next ELSE UNCHANGED queueVars
    /\ IF part = "nodes" THEN F!Next ELSE UNCHANGED nodeVars
    /\ IF part = "clock" THEN S!Next ELSE UNCHANGED clockVars
    /\ IF part = "paging" THEN P!Next ELSE UNCHANGED pagingVars
    /\ IF part = "boot" THEN Next ELSE UNCHANGED vars
    /\ IF part = "console" THEN ConsoleNext ELSE UNCHANGED consoleVars

PartsSpec == PartsInit /\ [][PartsNext]_<<part, kprintfVars, memVars, queueVars, nodeVars,
                                          clockVars, pagingVars, vars, consoleVars>>

----------------------------------------------------------------------------
(* The properties of the parts, as their modules explain them.             *)

\* kprintf puts what the caller means, each item from its own argument, and
\* returns the number of characters.
PrintsMeant == K!PrintsMeant

\* kmemcpy, kmemset and kwmemset change exactly the bytes asked for.
StoresExactly == M!StoresExactly

\* The links of sched/queue.c and of mm/node.c: walks end, prev undoes next, no
\* node is in two lists, and head, tail and size agree with the walk.
ListLinksOK == Q!LinksOK /\ F!LinksOK

\* sched/queue.c implements the queues of QueueSpec.
QueuesSpec == Q!QueuesSpec

\* mm/node.c implements the stacks of FreeListSpec.
StacksSpec == F!StacksSpec

\* A process sleeps as long as it asks, across every carry of ticks; a kernel
\* thread's two loads of ticks are wrong by one carry at most.
SleepsRight == S!SleepExact /\ S!WrongByOneCarry

\* The directory that paging_init makes: its tables can be written once it is
\* loaded, the lower half is empty, and the upper one is for Ring 0 only.
KernelDirectoryOK == P!TablesReachable /\ P!UserHalfEmpty

\* early_map_range implements the address map its callers ask for.
WalksAsAsked == P!WalksAsAsked

----------------------------------------------------------------------------
(* Boot: machines of 13, 14 and 22 pages, on some of which memory runs out. *)
Mod(s, e, n) == [type |-> "module", start |-> s, end |-> e, pages |-> n]
Mmap == [type |-> "mmap"]
End == [type |-> "end"]
Other == [type |-> "other"]

TagLists(mods) == {<<Mmap, x, End>> : x \in mods} \cup {<<x, Other, Mmap>> : x \in mods}
    \cup {<<x, y, Mmap, End>> : x \in mods, y \in mods}
    \cup {<<Mmap, End, x>> : x \in mods} \cup {<<x, End>> : x \in mods} \cup {<<Mmap, End>>}

Machine(g, b, n, t, r) == [magic |-> g, mbi |-> b, size |-> n, tags |-> t, ramEnd |-> r]
Late == {Mod(s, s + 3, n) : s \in {12, 15, 16, 22}, n \in {2, 5}}

\* Loaders that put the tags, or a module, after the kernel, which is at 4..10.
After == {Machine(g, b, 3, t, r) : g \in BOOLEAN, b \in {12, 19, 23}, t \in TagLists(Late),
                                   r \in {26, 28, 44}}
    \cup {Machine(TRUE, 1, 3, <<x, Mmap, End>>, 44) : x \in Late}

(* Kprintf: ints of three bits.                                            *)
It(d, t, a) == [dir |-> d, text |-> t, arg |-> a]
SmallInt == -4..3
Uint == {0, 1, 7}
Long == {-32, -31, -10, 0, 5, 31}
Ulong == {0, 9, 10, 16, 63}

ItemsDef ==
    {It("d", <<"%", "d">>, n) : n \in SmallInt} \cup {It("ld", <<"%", "l", "d">>, -4)}
    \cup {It("lld", <<"%", "l", "l", "d">>, n) : n \in Long}
    \cup {It("u", <<"%", "u">>, n) : n \in Uint}
    \cup {It("llu", <<"%", "l", "l", "u">>, n) : n \in Ulong}
    \cup {It("x", <<"%", "x">>, n) : n \in Uint}
    \cup {It("llx", <<"%", "l", "l", "x">>, n) : n \in Ulong}
    \cup {It("c", <<"%", "c">>, "h"), It("s", <<"%", "s">>, <<"h", "%">>),
          It("s", <<"%", "s">>, <<>>), It("%", <<"%", "%">>, 0),
          It("text", <<"d">>, 0), It("bad", <<"%", "q">>, 0),
          It("bad", <<"%", "l", "q">>, 0)}

(* Paging: tables of eight entries and every layout of a small machine.    *)
BiosDef == <<0, 1, 2, 3, 4, 5>>
LayoutsDef == {[roEnd |-> r, kernelEnd |-> k, ramEnd |-> e, acpiEnd |-> e + a] :
                 r \in 6..7, k \in 8..10, e \in 16..30, a \in 0..2}
=============================================================================
