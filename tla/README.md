# A formal model of x86OS

TLA+ modules, TLC configurations and TLAPS proofs for x86OS, a single-core
32-bit kernel with preemptive round-robin threads, ring 3 processes, a buddy
allocator for pages and a heap on top of it. Paths such as `sched/sched.c` are
relative to `src/`.

## The system

| part | source | what it does | module |
|---|---|---|---|
| scheduler, sleep queue | `sched/sched.c`, `context_switch.asm`, `atomic.h` | one run queue, one sleep queue sorted by `wake_at`, `timer` 100 times a second | `Sched`, `SleepClock` |
| thread queues | `sched/queue.c` | doubly linked lists through `Thread.node` | `DLList`, `ThreadQueue` |
| threads | `sched/thread.c` | creation, `kthread_stub`, destruction | `Sched`, `ProcMem` (stacks) |
| reaper | `kernel/reaper.c` | a kernel thread that frees the threads that exited | `Sched` |
| system calls | `process/syscall.c` | `exit` and `sleep` through `int 0x80` | `Sched` |
| processes | `process/process.c`, `launch_process.asm` | a thread with its own page directory | `Sched`, `ProcMem` (its memory) |
| ELF loader | `process/elf.c` | copies and maps the segments | `ProcMem` |
| page allocator | `mm/buddy/buddy.c`, `mm/pmm.h` | blocks of 2^0 to 2^10 pages | `Buddy` |
| node lists | `mm/node.c` | free lists of buddy and heap | `NodeList`, `FreeList` |
| heap | `mm/heap/heap.c` | `kmalloc` and `kfree` | `Heap` |
| bump allocator | `mm/bump.c` | pages during boot | `Boot`, `Paging`; in `Buddy` as an initial state |
| paging | `mm/paging.c` | page directories and tables | `Paging`, `ProcMem` |
| interrupts | `interrupts/`, `drivers/pic.c`, `drivers/pit.c` | IDT, dispatch, PIC, PIT | `Irq`; its effect, in `Sched` |
| boot | `kernel/kernel.c`, `kernel_entry.asm`, `gdt/` | multiboot tags, order of initialisation | `Boot`; from `init_sched` on, `Sched` |
| console | `drivers/vga.c` | text screen | `Console` |
| output | `lib/kprintf.c` | formatted output | `Kprintf` |
| memory operations | `lib/string.c` | `kmemcpy`, `kmemset`, `kwmemset` | `MemOps` |
| serial port | `drivers/serial.c` | port I/O | - |

How they interact: the PIT's interrupt calls `timer`, which wakes sleepers and
calls `scheduler`. Threads enter `scheduler` themselves when they sleep or
exit. An exit puts the thread on the zombie queue and wakes the reaper, which
passes the stack to the page allocator and the TCB to the heap. The heap takes
its pages from the page allocator, and so do the ELF loader and `map_range`. During
boot, pages come from the bump allocator, which starts behind what the boot
loader left in memory; the page allocator gets the rest.

## Modules

`Sched` is the core. There is one CPU, so an action is a stretch of code that
the timer cannot interrupt: a block between `ATOMIC_START` and `ATOMIC_END`, a
system call, the timer's handler. A kernel thread that is outside such a block
has a program counter `pc`, and `timer` may come at each of its labels. Thread
statuses, page directories, `wake_at`, the two queues, `cur_thread`, `ticks`,
CR3 and TSS.esp0 are variables under the code's names. Four decisions:

- The run queue and the sleep queue are touched with interrupts off only, and
  are sequences. `DLList` models the pointer code and shows that it implements
  them (`QueueSpec`).
- The zombie queue is popped with interrupts **on** (`reaper.c:17-18`). It keeps
  its `head`, `tail` and `next`, and `list_pop_front` is one action per memory
  access (`pop_head` ... `pop_clear`).
- A TCB is an address: `destroy_thread` returns it to the pool and `spawn` may
  take it again, so stale pointers would be seen. The stack is passed to `pmm_free`
  first, and for a process that is a virtual address: if nothing is mapped where
  `pmm_free` looks, the kernel panics there, otherwise it goes on. `Sched` has both
  outcomes; what the call does to memory belongs to `ProcMem`.
- `kmain` may start any set of processes and kernel threads (`BootUser`,
  `BootKernel`); the kernel as it is starts one process and the reaper.
  `Spawning` lets the payloads of kernel threads create threads.

`ThreadLife` is the abstract specification: the life of a thread as its program
may rely on it.

`Buddy` has `page_map` (flags and order), the free lists as sequences, the
counters and the blocks that callers hold. `add_pages` is one action per turn of
its loop. The loops of allocation and free are closed: splitting from order c to
o creates the siblings of every order in between, and merging from o to m visits
`TopAt(i, k)`, the page index rounded down to a multiple of 2^k, since the lower
one of two buddies becomes the head. `page_map` entries behind the last page
exist, as zeros (`bump_alloc` clears the pages). `PageAlloc` is its abstract
specification: pages are free or handed out, and a request fails only if no
aligned row of free pages is left.

`Heap` works with byte addresses. All sizes are the code's: headers of 12 bytes,
chunks of at least 8, nine buckets, pages of 4096. Its variables are one record,
so that `kmalloc` and `kfree` are compositions of functions on it in the order of
the code. It takes pages from a pool that behaves as `PageAlloc`.

`SleepClock` is the clock and one sleeper: `ticks` in two halves, the timer's
addition with carry, and `thread_sleep` either in one step (a system call, with
interrupts off) or with the two loads apart, in either order (a kernel thread).
`now` counts without a width and is what the properties compare with.

`Paging` is `paging_init`. Addresses are page numbers, rights are sets of flags, an
entry is a frame and rights. `early_map_range` is one action per turn of its loop,
with its locals `pde`, `pte` and `page_table` as variables. `Translate` is the
processor's walk (rights must be granted at both levels). `AddressMap` is the
abstract specification: a map from virtual pages to frames and rights, to which
each step adds the next page, or the next table's worth of pages, of the range
asked for. `ProcMem` extends `Paging` and goes on from the booted state:
`create_process` with `load_elf`, `load_segment` (one action per page) and
`map_range`, `thread_create`, and `destroy_thread` as the reaper calls it. Each frame
has an owner and a use, so that one can ask whose page a translation leads to.
`pmm_alloc` returns a page as it is, so a table of `map_range` starts with zeros or
with remains (`LeftInPage`), whether or not the page was used since boot. Addresses of
segments count parts of a page (`Unit`), so that one may begin inside a page.

`Irq` has the two interrupt controllers (request, service and mask registers,
priorities, the cascade on line 2, spurious interrupts) as its environment, and
the driver, `interrupt_handler`, the PIT's handler and switches between threads as
the code. All gates are interrupt gates, so a handler is one step. A thread that
is not running remembers how it was left, which decides whether it returns
through the timer's handler.

`Boot` is `kmain`: the walk over the tags, the placement address, the bump
allocator with what is mapped at the time, and the pages that `init_kmalloc`,
`init_reaper` and `create_process` take from the page allocator. An access outside of
what is mapped panics, or resets the machine when the IDT is not loaded yet; a
request when no page is left panics.

`Console` has the buffer, the cursor and `vga_putc` cut at each access to the cursor,
where another thread may print. `Kprintf` is one step per turn of the loop over the
format; its argument area is a sequence of int-sized slots. `MemOps` is one step
per repetition of a string instruction.

`NodeList` models `mm/node.c` with its pointers and implements `FreeListSpec`.
`FreeList` and `ThreadQueue` hold the list operations on sequences that the
other modules use. The `MC*` modules instantiate for TLC. `MCParts` holds eight
parts that are checked each on its own (`Boot`, `Console`, `Kprintf`, `MemOps`,
`DLList`, `NodeList`, `SleepClock`, `Paging`): the variable `part` says which one a
behaviour is about, only this one takes steps and has all of its inputs, and the
others keep one initial state. Its states are the sum of theirs, not the product.

## Runs

| run | shows | distinct states |
|---|---|---|
| `sched_safety` | two processes and a kernel thread sleep, yield, exit and create threads, in TCBs freed before, in every interleaving: queues exact, statuses right, own address space, no lost wake-up of the reaper, no use after free, nobody woken early or left asleep after a tick, and `ThreadLife` implemented | 1,345,309 |
| `sched_live` | a process and a kernel thread: runnable threads run, sleepers wake, and a zombie that is at the head of the queue while the reaper is not inside a pop is reaped, although the other thread may exit during the pop | 6,506 |
| `sched_race` | *violation*: two exits and the unprotected pop lose a zombie | |
| `buddy_even` | blocks partition memory, agree with `page_map`, are merged, counted, and return to the first state; `PageAlloc` implemented | 16,644 |
| `buddy_odd` | *violation*: with an odd number of pages the last one merges with a page that does not exist | |
| `heap_safety` | chunks tile the pages, buckets exact, neighbours merged, accounts add up, heap returns to its first state | 12,360 |
| `heap_large` | *violation*: sizes from 2049 to 4095 are refused | |
| `irq_drivers` | no line stays in service, masked lines of the first controller stay quiet, the timer is always served; with spurious interrupts, masking drivers and switches in the timer's handler | 11,520 |
| `procmem_safety` | two processes from any two of four files while kernel threads come and go and page tables start with remains: own image, own stack, shared kernel half, no shared table below it | 250,660 |
| `procmem_isolation` | *violation*: through a table that was not cleared a process reaches pages that are not its own | |
| `procmem_free` | *violation*: the stack of a process is freed by its virtual address | |
| `parts` | the eight parts of `MCParts`, see below | 135,582 |

What `parts` shows, part by part:

| part | properties |
|---|---|
| boot | `LoadedStays`: with the tags or a module behind the kernel, boot overwrites nothing that was loaded; `BootsWithRoom`: with a memory map, a module and memory for all that is allocated, `kmain` comes to its end |
| paging | `WalksAsAsked`: every turn of `early_map_range` implements a step of `AddressMap`; `KernelDirectoryOK`: tables can be written after the switch to the kernel's directory, the lower half is empty, the upper one for Ring 0 only |
| console | `ScreenShowsText`: the screen shows the end of the text; `InBuffer`: nothing is written outside |
| kprintf | `PrintsMeant`: what the caller means is printed, numerals being defined by their value, and the result is its length |
| memory functions | `StoresExactly`: exactly the bytes asked for change |
| thread queues | `ListLinksOK`; `QueuesSpec`: `queue.c` implements the sequences of `Sched` |
| node lists | `ListLinksOK`; `StacksSpec`: `node.c` implements the free lists of `Buddy` and `Heap` |
| clock | `SleepsRight`: a process sleeps exactly as long as it asks across carries of the clock (`SleepExact`), and a kernel thread errs by one carry at most (`WrongByOneCarry`) |

The properties that hold state what the code relies on and a unit test hardly
reaches; each is broken by a plausible fault of the code (the definitions marked
"Faulty", listed as mutants in `PROJECT.json`).

### What the violations mean

- `sched_race`. `docs/16_v2_scheduler_and_reaper.md:23` says that all queue
  manipulations are in atomic blocks; the reaper's `list_pop_front` is not. If a
  thread exits while the reaper is between comparing head with tail and storing
  the new head, the new zombie is linked behind a node that is leaving: it is
  never freed, or the pop writes through a null pointer and the kernel panics.
  It takes two threads that exit; the shipped kernel has one.
- `buddy_odd`. `buddy_free_pages` does not test the buddy's index against
  `page_n` as `test_buddy.c:141` does. Whether the end of memory is an odd
  number of pages depends on the machine.
- `heap_large`. `docs/11_kernel_heap.md:36` sends requests above 2048 bytes to
  the page allocator; the code does so from 4096 on and returns NULL in between.
- `procmem_free`. `docs/16_v2_scheduler_and_reaper.md:35` says that the reaper safely
  frees both stacks and the TCB. `destroy_thread` gives `pmm_free` a virtual address
  if the thread is a process; the shipped kernel does so when its process exits.
- `procmem_isolation`. `README.md:7` of the repository promises isolated page
  directories, `docs/16_v2_scheduler_and_reaper.md:7` "entirely isolated virtual memory
  spaces". `map_range` does not clear the table it takes from `pmm_alloc`
  (`mm/paging.c:155`) as `early_map_range` does through `bump_alloc`. Entries that were
  not mapped keep what the page held: the stack of a thread that was reaped, or, for
  a page not used since boot as in the shipped kernel, what RAM happened to hold. If
  the memory is zero, as emulators leave it, nothing is seen. What holds all the same is
  `TablesOwn`: the tables themselves are shared with no one.

### Other deviations

The models follow the code in these places too. Properties are stated so that
they say what does hold there; no run is kept for what does not.

- `destroy_thread` never frees the Ring 3 stack that `docs/16` (line 35) mentions, nor
  the directory, tables and segments of a process. `ZombieReaped` therefore promises
  the TCB only.
- `load_segment` copies to the start of a page wherever in it `p_vaddr` lies
  (`process/elf.c:40`). `user.ld` begins every segment on a page of its own; `ImageLoaded`
  and `StackApart` are stated for such files (`PageAligned`), and one that is not is
  loaded along with the others.
- `(uint8_t)pic_mask >> 8` (`drivers/pic.c:77`) is 0, so that masks of the second
  controller have no effect: hence `MasterMaskHonoured`. Nothing is masked there.
- A spurious interrupt on a line without a driver reaches `kernel_panic`
  (`interrupts/isr.c:46`); `docs/07_pic.md:43` wants it ignored. The test is in
  `pic_send_eoi`, which only registered handlers call: `TimerServed` allows for the panic.
- `thread_sleep` reads the 64-bit `ticks` before its atomic block (`sched/sched.c:90`).
  A kernel thread may get a time that never was, wrong by one carry: hence
  `WrongByOneCarry`. It is exposed once an hour, for an instruction.
- The console does not mask interrupts: with `Writer = {w1, w2}` in `MCParts.cfg`,
  `InBuffer` fails, because one thread tests the cursor and another moves it before
  it is used (`drivers/vga.c:66`). The allocators do not either; the shipped kernel
  has one caller after boot.
- The placement address starts at `_kernel_start` (`kernel/kernel.c:63`): if a loader
  puts the tags and all modules below the kernel, `bump_alloc` clears the kernel.
  Hence the hypothesis `SomethingBehind` of the theorem and the machines of `parts`.
- `%ll` before an unknown directive is printed with one `l` (`lib/kprintf.c:123`); the
  items of `parts` have `%q` and `%lq` only, where the text comes out as written.
- `load_segment` tests `p_flags` for `PF_R | PF_W` exactly (`process/elf.c:21`), so a
  segment that is writable and executable is mapped read-only;
  `docs/14_multiboot_and_elf_loading.md:36` maps `PF_W` read/write. The same document's
  zero-copy mapping is not what the code does either: it copies.

### Bounds

- Clock: `MaxTicks`, where `ticks` stops while interrupts go on. With
  `PitCrystal` 3 and `TickRate` 2, a wake-up time falls on a tick or between two,
  sleeps of 0 and 1 overlap in every way, and several
  threads become due in one tick. Threads first run after a tick, so `sched_safety`
  needs `MaxTicks` 5 for a sleep that outlasts one (at 2, until 5, past the tick at 4).
- Threads: three TCBs give every pair of processes and kernel threads beside
  the reaper and the idle thread, and two zombies while the third runs.
- `Buddy`: orders 0 to 2 and 9 pages from page 5 to 13: blocks of all orders,
  unaligned at both ends. The orders only differ by the number of mergers.
- `Heap`: 3 pages and 3 chunks held at a time (`MaxHeld`). The sizes are chosen
  at the edges: 1964 leaves a rest of 2068 bytes from which 2048 just allows a
  split, 1968 leaves 2064 from which it just does not; 3000 lies in the gap,
  4096 takes a page, 0 is refused.
- `DLList`, `NodeList`: four nodes: head, tail and two inner ones.
- `SleepClock`: halves of 8 values, ticks of 3, seconds of 5, time up to 30: three
  carries, at every phase of a tick; `t * PitCrystal` passes one half.
- `Paging`: tables of 8 entries, all layouts with the end of the read-only part in
  6..7, of the kernel in 8..10, of RAM in 16..30 and 0 to 2 ACPI pages: ranges that
  begin and end anywhere in a table, with none, one or two large pages.
- `ProcMem`: tables of 4 entries, 28 pages, two processes, three kernel
  threads (two in `procmem_free`, one in `procmem_isolation`). The files have a segment
  of several pages with a part not in the file, data before code, a header that is
  not loaded, a segment that begins inside a page, and no ELF header. Two contents,
  zeros and entries that are all present, stand for what a page may hold. Running out
  of pages happens and stops. Processes, and kernel threads, are symmetric.
- `Irq`: lines 0, 1, 4, 9, 15: the timer, both controllers, a line without a
  driver, and the two lines that can be spurious; two threads.
- `Console`: 2 by 2 cells and 6 characters: every way to wrap and scroll, several
  times. `Kprintf`: ints of 3 bits and long ones of 6, all at the ends of their
  ranges, two items. `MemOps`: 12 bytes.
- `Boot`: 13, 14 or 22 pages, tags in several orders, modules at and across page ends
  that take 2 or 5 pages when loaded. Memory runs out in every call that takes some,
  and suffices on other machines.

### Fairness

`FairSpec` assumes that the PIT goes on interrupting (`WF(timer)`), that boot runs
to its end, and that a thread which gets the CPU again and again takes its next
step (`SF(progress(t))`): a time slice is 10 ms, and a step a few instructions.
Payloads are not assumed to do anything: they may run for ever.

In `Irq`, `WF(interrupt_handler)` says that a handler runs to its end, and
`SF(Accept)` that a processor whose interrupt flag is on again and again takes a
pending interrupt: it looks at its pin between any two instructions. Which one it
takes is the controllers' priority, not fairness.

## Proofs

### The scheduler

`SchedProofs`, with facts about sequences in `SeqFacts`, proves for every set of
threads, every tick rate and every bound on the clock, from the assumption
`SchedAssumption` on the constants:

- `TypeCorrect`, `QueuesKept`, `StatusKept`, `AddressSpaceKept`, `ReaperAwake`: the
  invariants `TypeOK`, `QueuesExact` (`RunQueueExact`, `SleepQueueExact` and
  `ZombieListOK`), `StatusOK`, `AddressSpaceOK`, `NoLostWakeup`;
- `FreedOnce`: `NoUseAfterFree`, even with the unprotected pop;
- `WakesOnTime`: the action property `WakeOnTime`;
- `ImplementsLife`: `Sched` implements `ThreadLife`.

The argument: `Inv` is the conjunction of the invariants of the first item, and is
inductive (`Invariance`). None of them is alone. That a push does not duplicate a
node needs the statuses, which need the program counters; `AddressSpaceOK` needs
the current thread not to be freed; and `ZombieListOK` says what the unprotected
pop keeps whatever comes in between: pointers lead to zombies only, no two to the
same one, and after the test of the tail nothing leads to the node being freed.
There is one lemma per action (`InvTimer`, `InvDoExit`, `InvCreate`, ...), in three
modules that each extend the one before: `SchedInvReaper` (the invariant, `Init`
and the reaper's steps), `SchedInvThreads` (steps of a thread that keep the CPU,
creation, boot) and `SchedInvSwitch` (steps that call `scheduler`). `SchedulerFacts`
says once what `scheduler` does to queue, statuses and CR3.
`FreedOnce` adds `NotOnCpu`: the node the reaper holds is not on the CPU.

`WakesOnTime` follows from the order of the sleep queue: the prefix that
`wake_up_threads` removes holds all that are due. `ImplementsLife` goes action by
action: `SchedulerMoves` and `TimerMoves` say how a thread's phase changes when the
scheduler or the timer runs, `LifeStays` that an action which touches neither
statuses nor wake-up times is a stutter of `ThreadLife`, `LifeSteps` combines them.

### The other proofs

- `IrqProofs` (any devices, drivers, masks and threads; `LinesAssumption`):
  `ControllersReady` and `MasksHold`. The inductive invariant says what is in
  service in terms of the vector being handled: nothing if there is none, the
  line and its route if it was requested, only line 2 for a spurious 15, nothing
  for a spurious 7. It is needed because `pic_send_eoi` ends the highest line in
  service, which is the right one only if there is no other.
- `ConsoleProofs` (any size of screen; `SizeAssumption`): `OneWriterInBuffer`, for a
  single writer. The invariant follows the cursor through the steps of
  `vga_putc`: it may rest one row below the screen, but not after the test.
- `BootProofs` (any machine; `BootAssumption`): `LoadedMemorySafe`, under the
  hypothesis `SomethingBehind` that the tags, or a module met by the walk, end at
  or behind the kernel's end. The invariant is that the placement address is at
  or behind everything the walk has met, and what has been given out is below it
  and above everything loaded; it holds through all calls that allocate. Without the hypothesis the property is false.

Only model-checked: `BootsWithRoom`; `Buddy`,
`Heap`, `DLList`, `NodeList`, `Paging` and `ProcMem`, whose invariants need induction
over walks, powers of two or recursive functions; `Kprintf` and `MemOps`;
`SleepClock`; and liveness, which is out of the prover's reach.

## Not modelled

- The words of the stack frames built for the first switch (`thread.c:27-43`,
  `process.c:25-42`) and saved by `isr_stub.asm`: the models keep where a frame leads
  and whether interrupts are on there.
- The TLB, thread ids, the values in GDT, TSS and IDT, and the assembly that runs
  before `kmain` (it is the assumption that 4 MB are mapped).
- Exceptions of the processor other than as a panic.
- The serial port and the divisor of the PIT: port I/O without state.
- `lib/random.c` and the tests in the kernel, which the running system does not use;
  functions that are not called (`vga_putc_at`, `vga_puts`, `pic_read_irr`, `ring3jump`).
- Memory that a bad `pmm_free` corrupts: `ProcMem` records the call and stops there.
- RAM of a gigabyte or more, where the index of the directory overflows, and
  formats that end in `%`; no caller has one.

## Plan

1. Proofs: the partition invariant and `PagesSpec` for `Buddy`, the links of the
   pointer lists, `WalksAsAsked` for `Paging`.
2. The frames of `context_switch` and `isr_stub.asm` word by word.
3. Two callers inside the allocators, access by access.
