------------------------------- MODULE Sched -------------------------------
(***************************************************************************)
(* The thread scheduler, the sleep queue, thread exit and the zombie       *)
(* reaper (sched/, kernel/reaper.c, process/syscall.c, and the part of     *)
(* kernel/kernel.c that starts them).                                      *)
(*                                                                         *)
(* One CPU.  A block between ATOMIC_START and ATOMIC_END, an interrupt     *)
(* handler and a system call run with interrupts off: each is one action.  *)
(* Everywhere else the timer interrupt may come between two steps of the   *)
(* running thread; pc says where a thread will go on when it gets the CPU. *)
(* The run queue and the sleep queue are only touched with interrupts off  *)
(* and are sequences here (DLList.tla checks the pointer code).  The       *)
(* zombie queue is popped with interrupts ON (reaper.c:17-18), so it keeps *)
(* its pointers and list_pop_front is cut into its memory accesses.        *)
(***************************************************************************)
EXTENDS ThreadQueue

CONSTANTS
    Tcb,          \* addresses kmalloc may return for a Thread
    Idle,         \* the TCB of the boot thread (idle_thread)
    Reaper,       \* the TCB of the reaper thread
    NULL,         \* the null pointer
    KernelPd,     \* kernel_page_directory
    BootUser,     \* processes created by kmain before it enables interrupts
    BootKernel,   \* kernel threads created at the same point
    Spawning,     \* whether payloads of kernel threads create threads
    TickRate,     \* tick_rate: PIT cycles per timer interrupt
    PitCrystal,   \* PIT_CRYSTAL: PIT cycles per second
    SleepTimes,   \* arguments payloads and processes give to sleep, in seconds
    MaxTicks      \* bound: the clock stops there (interrupts go on)

Threads == Tcb \cup {Idle, Reaper}

ASSUME SchedAssumption ==
    /\ Idle \notin Tcb /\ Reaper \notin Tcb /\ Idle # Reaper
    /\ NULL \notin Threads
    /\ KernelPd \notin Tcb
    /\ BootUser \subseteq Tcb /\ BootKernel \subseteq Tcb
    /\ BootUser \cap BootKernel = {}
    /\ Spawning \in BOOLEAN
    /\ TickRate \in Nat \ {0} /\ PitCrystal \in Nat \ {0}
    /\ SleepTimes \subseteq Nat
    /\ MaxTicks \in Nat

VARIABLES
    status,       \* Thread.status; "NONE" when the TCB is not allocated
    pd,           \* Thread.pd; a process's directory is named by its TCB
    wake_at,      \* Thread.wake_at
    next,         \* Thread.node.next, while the thread is a zombie
    pc,           \* where the thread continues when it has the CPU
    que,          \* run queue
    sleep_que,    \* sleep queue
    cur_thread,   \* the thread on the CPU
    ticks,        \* PIT cycles since boot, as counted by timer()
    cr3,          \* page directory loaded in CR3
    tss_esp0,     \* the thread whose kernel stack TSS.esp0 points to
    zombie_head,  \* zombie_que.head
    zombie_tail,  \* zombie_que.tail
    node,         \* local variable of the reaper's list_pop_front
    reg,          \* register holding node->next on its way to zombie_que.head
    panicked      \* kernel_panic was called: interrupts off, halted

threadVars == <<status, pd, wake_at, pc>>
zombieVars == <<next, zombie_head, zombie_tail>>
popVars    == <<node, reg>>
cpuVars    == <<cur_thread, cr3, tss_esp0>>
vars == <<threadVars, que, sleep_que, cpuVars, ticks, zombieVars, popVars, panicked>>

Status == {"NONE", "RUNNING", "RUNNABLE", "IDLE", "ZOMBIE", "SLEEPING"}

BootPc   == {"init_reaper", "create"}
FreshPc  == {"stub", "launch"}
PopPc    == {"pop_cmp", "pop_prev", "pop_tail", "pop_load", "pop_store",
             "pop_clear", "destroy"}
PC == BootPc \cup FreshPc \cup PopPc \cup
      {"none", "hlt", "check", "pop_head", "run", "user", "sleep", "yield", "dead", "gone"}
PcOf(t) ==
    IF t = Idle THEN BootPc \cup {"hlt"}
    ELSE IF t = Reaper THEN {"none", "stub", "check", "pop_head", "yield"} \cup PopPc
    ELSE FreshPc \cup {"none", "run", "user", "sleep", "yield", "dead", "gone"}

\* The interrupt flag as the running code has it: off while kmain boots, and in
\* a fresh thread until kthread_stub's sti or launch_process's iret.
InterruptsOn == pc[cur_thread] \notin BootPc \cup FreshPc

\* The CPU executes thread t's own code at label l.
At(t, l) == cur_thread = t /\ pc[t] = l /\ ~panicked

GoTo(t, l) == pc' = [pc EXCEPT ![t] = l]
-----------------------------------------------------------------------------
(* sched.c: the scheduler proper.                                          *)

\* The second half of scheduler(): thread new leaves the run queue, which then
\* is q, and gets the CPU with page directory dir in CR3.
switch_to(st, q, new, dir) ==
    /\ que' = q
    /\ cur_thread' = new
    /\ status' = IF new # Idle THEN [st EXCEPT ![new] = "RUNNING"] ELSE st
    /\ cr3' = dir
    /\ tss_esp0' = new

\* Faulty: CR3 loaded for processes only; the preempted thread requeued in front.
scheduler_lazycr3(st, q) ==
    LET running == st[cur_thread] = "RUNNING"
        ready   == IF running THEN Append(q, cur_thread) ELSE q
        st1     == IF running THEN [st EXCEPT ![cur_thread] = "RUNNABLE"] ELSE st
        new     == IF ready # <<>> THEN Head(ready) ELSE Idle
    IN  switch_to(st1, IF ready # <<>> THEN Tail(ready) ELSE ready, new,
                  IF pd[new] # KernelPd THEN pd[new] ELSE cr3)
scheduler_pushfront(st, q) ==
    LET ready == IF st[cur_thread] = "RUNNING" THEN <<cur_thread>> \o q ELSE q
        new   == IF ready # <<>> THEN Head(ready) ELSE Idle
    IN  switch_to(st, IF ready # <<>> THEN Tail(ready) ELSE ready, new, pd[new])

\* scheduler() entered with Thread.status = st and run queue q: requeue the
\* current thread if it is RUNNING, take the next one or the idle thread, load
\* its page directory if it differs, point TSS.esp0 at its stack, switch.
scheduler(st, q) ==
    LET running == st[cur_thread] = "RUNNING"
        ready   == IF running THEN Append(q, cur_thread) ELSE q
        st1     == IF running THEN [st EXCEPT ![cur_thread] = "RUNNABLE"] ELSE st
        new     == IF ready # <<>> THEN Head(ready) ELSE Idle
    IN  switch_to(st1, IF ready # <<>> THEN Tail(ready) ELSE ready, new,
                  IF pd[new] # pd[cur_thread] THEN pd[new] ELSE cr3)

\* Faulty: plain list_push_back.
list_sorted_push_back(t, time) == sleep_que' = Append(sleep_que, t)

\* list_sorted_push(&sleep_que, t) with t->wake_at = time: behind every thread
\* that is due no later than t.
list_sorted_push(t, time) ==
    \E k \in 0..Len(sleep_que) :
        /\ LeadingDue(sleep_que, wake_at, time, k)
        /\ sleep_que' = InsertBehind(sleep_que, k, t)

\* Faulty: wake_at = ticks instead of <=; one tick early.
WakeHeadIf(due) ==
    IF due THEN /\ sleep_que' = Tail(sleep_que)
                /\ scheduler([status EXCEPT ![Head(sleep_que)] = "RUNNABLE"],
                             Append(que, Head(sleep_que)))
           ELSE sleep_que' = sleep_que /\ scheduler(status, que)
wake_up_equal(now) ==
    WakeHeadIf(sleep_que # <<>> /\ wake_at[Head(sleep_que)] = now)
wake_up_early(now) ==
    WakeHeadIf(sleep_que # <<>> /\ wake_at[Head(sleep_que)] <= now + TickRate)

\* wake_up_threads() at time now, then scheduler(): the due threads leave the
\* front of the sleep queue for the back of the run queue, in order.
wake_up_and_schedule(now) ==
    \E n \in 0..Len(sleep_que) :
        /\ LeadingDue(sleep_que, wake_at, now, n)
        /\ sleep_que' = SubSeq(sleep_que, n + 1, Len(sleep_que))
        /\ scheduler([t \in Threads |-> IF \E i \in 1..n : sleep_que[i] = t
                                          THEN "RUNNABLE" ELSE status[t]],
                     que \o SubSeq(sleep_que, 1, n))

\* ticks + tick_rate, stopped at the bound.
NextTick == IF ticks + TickRate < MaxTicks THEN ticks + TickRate ELSE MaxTicks

\* The timer interrupt: timer() called from the PIT's handler.
timer ==
    /\ ~panicked /\ InterruptsOn
    /\ ticks' = NextTick
    /\ wake_up_and_schedule(NextTick)
    /\ UNCHANGED <<pd, wake_at, pc, zombieVars, popVars, panicked>>
-----------------------------------------------------------------------------
(* Boot: kmain from init_sched on, interrupts off until its sti.           *)

\* thread_create and create_process, without the allocations: a new TCB t with
\* page directory dir, continuing at l, made RUNNABLE by thread_ready.
CreateThread(t, dir, l, more) ==
    /\ status[t] = "NONE"
    /\ status' = [status EXCEPT ![t] = "RUNNABLE"]
    /\ pd' = [pd EXCEPT ![t] = dir]
    /\ pc' = [pc EXCEPT ![t] = l, ![cur_thread] = more]
    /\ que' = Append(que, t)
    /\ UNCHANGED <<wake_at, sleep_que, cpuVars, ticks, zombieVars, popVars, panicked>>

\* init_reaper()
init_reaper ==
    /\ At(Idle, "init_reaper")
    /\ CreateThread(Reaper, KernelPd, "stub", "create")

\* The threads kmain creates (the shipped kernel: one process, no threads).
BootCreate ==
    /\ At(Idle, "create")
    /\ \/ \E t \in BootUser : CreateThread(t, t, "launch", "create")
       \/ \E t \in BootKernel : CreateThread(t, KernelPd, "stub", "create")

\* main_thread->status = IDLE; sti; and the hlt loop from then on.
kmain_sti ==
    /\ At(Idle, "create")
    /\ \A t \in BootUser \cup BootKernel : status[t] # "NONE"
    /\ status' = [status EXCEPT ![Idle] = "IDLE"]
    /\ GoTo(Idle, "hlt")
    /\ UNCHANGED <<pd, wake_at, que, sleep_que, cpuVars, ticks, zombieVars, popVars, panicked>>
-----------------------------------------------------------------------------
(* Threads.                                                                *)

\* A step of thread t that only moves on to label l.
Advance(t, l) ==
    /\ GoTo(t, l)
    /\ UNCHANGED <<status, pd, wake_at, que, sleep_que, cpuVars, ticks, zombieVars, popVars, panicked>>

\* First instructions of a new thread: sti in kthread_stub, iret in
\* launch_process.
kthread_stub(t)   == At(t, "stub") /\ Advance(t, IF t = Reaper THEN "check" ELSE "run")
launch_process(t) == At(t, "launch") /\ Advance(t, "user")

\* thread_sleep(time) in a kernel thread: wake_at is computed and stored with
\* interrupts on.
thread_sleep(t, time) ==
    /\ At(t, "run")
    /\ ticks + time * PitCrystal <= MaxTicks
    /\ wake_at' = [wake_at EXCEPT ![t] = ticks + time * PitCrystal]
    /\ GoTo(t, "sleep")
    /\ UNCHANGED <<status, pd, que, sleep_que, cpuVars, ticks, zombieVars, popVars, panicked>>

\* Its atomic block: SLEEPING and into the sleep queue.
thread_sleep_push(t) ==
    /\ At(t, "sleep")
    /\ status' = [status EXCEPT ![t] = "SLEEPING"]
    /\ list_sorted_push(t, wake_at[t])
    /\ GoTo(t, "yield")
    /\ UNCHANGED <<pd, wake_at, que, cpuVars, ticks, zombieVars, popVars, panicked>>

\* A call of scheduler() by a kernel thread: the end of thread_sleep, of
\* reaper_main's else branch and of kthread_stub, or the payload's own.
yield(t) ==
    /\ \/ At(t, "run")   /\ GoTo(t, "run")
       \/ At(t, "yield") /\ GoTo(t, IF t = Reaper THEN "check" ELSE "run")
       \/ At(t, "dead")  /\ GoTo(t, "gone")
    /\ scheduler(status, que)
    /\ UNCHANGED <<pd, wake_at, sleep_que, ticks, zombieVars, popVars, panicked>>

\* A kernel thread's payload creates a kernel thread or a process.
spawn(t) ==
    /\ Spawning /\ At(t, "run") /\ t # Reaper
    /\ \E u \in Tcb : \/ CreateThread(u, KernelPd, "stub", "run")
                      \/ CreateThread(u, u, "launch", "run")
-----------------------------------------------------------------------------
(* Exit and the reaper.                                                    *)

\* list_push_back(&zombie_que, z)
PushZombie(z) ==
    /\ next' = [t \in Threads |-> IF t = z THEN NULL
                                  ELSE IF t = zombie_tail THEN z ELSE next[t]]
    /\ zombie_head' = IF zombie_tail = NULL THEN z ELSE zombie_head
    /\ zombie_tail' = z

\* Faulty: status left as it is; reaper queued twice; reaper not queued.
ReaperAddStatus_alive(z) == [status EXCEPT ![Reaper] = "RUNNABLE"]
ReaperAddQue_twice == Append(que, Reaper)
ReaperAddQue_never == que

\* reaper_add(z): what it leaves in Thread.status and in the run queue.
ReaperAddStatus(z) == [status EXCEPT ![z] = "ZOMBIE", ![Reaper] = "RUNNABLE"]
ReaperAddQue == IF status[Reaper] # "RUNNABLE" THEN Append(que, Reaper) ELSE que

\* kthread_stub after entry(arg) returned: reaper_add(thread), interrupts on
\* again afterwards.
kthread_exit(t) ==
    /\ At(t, "run")
    /\ PushZombie(t)
    /\ status' = ReaperAddStatus(t)
    /\ que' = ReaperAddQue
    /\ GoTo(t, "dead")
    /\ UNCHANGED <<pd, wake_at, sleep_que, cpuVars, ticks, popVars, panicked>>

\* System calls run to the end with interrupts off.  do_exit:
do_exit(t) ==
    /\ At(t, "user")
    /\ PushZombie(t)
    /\ scheduler(ReaperAddStatus(t), ReaperAddQue)
    /\ GoTo(t, "gone")
    /\ UNCHANGED <<pd, wake_at, sleep_que, ticks, popVars, panicked>>

\* do_sleep(time): all of thread_sleep, scheduler() included.
do_sleep(t, time) ==
    /\ At(t, "user")
    /\ ticks + time * PitCrystal <= MaxTicks
    /\ wake_at' = [wake_at EXCEPT ![t] = ticks + time * PitCrystal]
    /\ list_sorted_push(t, ticks + time * PitCrystal)
    /\ scheduler([status EXCEPT ![t] = "SLEEPING"], que)
    /\ UNCHANGED <<pd, pc, ticks, zombieVars, popVars, panicked>>

\* Faulty: sleeps although one zombie is left.
reaper_check_one ==
    /\ At(Reaper, "check")
    /\ IF zombie_head # zombie_tail
         THEN status' = status /\ GoTo(Reaper, "pop_head")
         ELSE status' = [status EXCEPT ![Reaper] = "SLEEPING"] /\ GoTo(Reaper, "yield")
    /\ UNCHANGED <<pd, wake_at, que, sleep_que, cpuVars, ticks, zombieVars, popVars, panicked>>

\* reaper_main: the atomic test of zombie_que.head.
reaper_check ==
    /\ At(Reaper, "check")
    /\ IF zombie_head # NULL
         THEN status' = status /\ GoTo(Reaper, "pop_head")
         ELSE status' = [status EXCEPT ![Reaper] = "SLEEPING"] /\ GoTo(Reaper, "yield")
    /\ UNCHANGED <<pd, wake_at, que, sleep_que, cpuVars, ticks, zombieVars, popVars, panicked>>

\* destroy_thread(list_pop_front(&zombie_que)) follows, with interrupts on: the
\* accesses of list_pop_front one by one.
PopStep(from, to) ==
    /\ At(Reaper, from)
    /\ GoTo(Reaper, to)
    /\ UNCHANGED <<status, pd, wake_at, que, sleep_que, cpuVars, ticks>>

pop_head ==
    /\ PopStep("pop_head", "pop_cmp")
    /\ node' = zombie_head
    /\ panicked' = (zombie_head = NULL)                 \* "Underflow"
    /\ UNCHANGED <<zombieVars, reg>>

pop_cmp ==
    /\ PopStep("pop_cmp", IF zombie_head # zombie_tail THEN "pop_prev" ELSE "pop_tail")
    /\ UNCHANGED <<zombieVars, popVars, panicked>>

\* node->next->prev = NULL: a page fault, hence kernel_panic, if next is NULL.
\* prev itself is never read in the zombie queue and is left out.
pop_prev ==
    /\ PopStep("pop_prev", "pop_load")
    /\ panicked' = (next[node] = NULL)
    /\ UNCHANGED <<zombieVars, popVars>>

\* Faulty: the tail keeps pointing to the last thread taken off.
pop_tail_kept ==
    /\ PopStep("pop_tail", "pop_load")
    /\ UNCHANGED <<zombieVars, popVars, panicked>>

pop_tail ==
    /\ PopStep("pop_tail", "pop_load")
    /\ zombie_tail' = NULL
    /\ UNCHANGED <<next, zombie_head, popVars, panicked>>

pop_load ==
    /\ PopStep("pop_load", "pop_store")
    /\ reg' = next[node]
    /\ UNCHANGED <<zombieVars, node, panicked>>

pop_store ==
    /\ PopStep("pop_store", "pop_clear")
    /\ zombie_head' = reg
    /\ UNCHANGED <<next, zombie_tail, popVars, panicked>>

pop_clear ==
    /\ PopStep("pop_clear", "destroy")
    /\ next' = [next EXCEPT ![node] = NULL]
    /\ UNCHANGED <<zombie_head, zombie_tail, popVars, panicked>>

\* thread->stack of a process is the virtual address that kmalloc returned
\* (process.c:24,72), that of a kernel thread a block of pmm_alloc (thread.c:46).
StackIsVirtual(t) == pd[t] # KernelPd

\* destroy_thread(node): pmm_free(thread->stack), then kfree(thread).  With a
\* virtual address pmm_free indexes far behind page_map: a page fault, hence
\* kernel_panic, if no RAM is mapped there.  If some is, the stack stays allocated
\* and memory that none of these variables stand for is changed (ProcMem records
\* the call); the TCB is given back.  The fields of a TCB that is not allocated
\* have a fixed value here.
destroy_thread ==
    /\ At(Reaper, "destroy")
    /\ \/ /\ status' = [status EXCEPT ![node] = "NONE"]
          /\ pd' = [pd EXCEPT ![node] = KernelPd]
          /\ wake_at' = [wake_at EXCEPT ![node] = 0]
          /\ pc' = [pc EXCEPT ![node] = "none", ![Reaper] = "check"]
          /\ node' = NULL /\ reg' = NULL
          /\ UNCHANGED panicked
       \/ /\ StackIsVirtual(node) /\ panicked' = TRUE
          /\ UNCHANGED <<threadVars, popVars>>
    /\ UNCHANGED <<que, sleep_que, cpuVars, ticks, zombieVars>>

reaper_main ==
    \/ reaper_check \/ pop_head \/ pop_cmp \/ pop_prev \/ pop_tail \/ pop_load
    \/ pop_store \/ pop_clear \/ destroy_thread

\* kernel_panic's endless loop.
Halted == panicked /\ UNCHANGED vars
-----------------------------------------------------------------------------
Init ==
    /\ status = [t \in Threads |-> IF t = Idle THEN "RUNNING" ELSE "NONE"]
    /\ pd = [t \in Threads |-> KernelPd]
    /\ wake_at = [t \in Threads |-> 0]
    /\ next = [t \in Threads |-> NULL]
    /\ pc = [t \in Threads |-> IF t = Idle THEN "init_reaper" ELSE "none"]
    /\ que = <<>> /\ sleep_que = <<>>
    /\ cur_thread = Idle
    /\ ticks = 0
    /\ cr3 = KernelPd
    /\ tss_esp0 = NULL
    /\ zombie_head = NULL /\ zombie_tail = NULL
    /\ node = NULL /\ reg = NULL
    /\ panicked = FALSE

boot == init_reaper \/ BootCreate \/ kmain_sti

\* Steps a thread takes by itself once it has the CPU ...
progress(t) ==
    \/ kthread_stub(t) \/ launch_process(t)
    \/ thread_sleep_push(t)
    \/ pc[t] # "run" /\ yield(t)
    \/ t = Reaper /\ reaper_main

\* ... and those its payload or program chooses.
choice(t) ==
    \/ \E time \in SleepTimes : thread_sleep(t, time) \/ do_sleep(t, time)
    \/ pc[t] = "run" /\ yield(t)
    \/ spawn(t)
    \/ kthread_exit(t)
    \/ do_exit(t)

Next ==
    \/ boot
    \/ timer
    \/ \E t \in Threads : progress(t) \/ choice(t)
    \/ Halted

Spec == Init /\ [][Next]_vars

\* The PIT keeps interrupting; boot and the interrupt-free start of a thread
\* run to their end; a thread that gets the CPU again and again executes its
\* code (a time slice is 10 ms, far more than one step).
Fairness ==
    /\ WF_vars(timer)
    /\ WF_vars(boot)
    /\ \A t \in Threads : SF_vars(progress(t))

FairSpec == Spec /\ Fairness
-----------------------------------------------------------------------------
\* Types of the scheduler's and the reaper's data structures.
TypeOK ==
    /\ status \in [Threads -> Status]
    /\ pd \in [Threads -> Tcb \cup {KernelPd}]
    /\ wake_at \in [Threads -> 0..MaxTicks]
    /\ next \in [Threads -> Tcb \cup {NULL}]
    /\ pc \in [Threads -> PC]
    /\ \A t \in Threads : pc[t] \in PcOf(t)
    /\ que \in Seq(Tcb \cup {Reaper}) /\ sleep_que \in Seq(Tcb)
    /\ cur_thread \in Threads
    /\ ticks \in 0..MaxTicks
    /\ cr3 \in Tcb \cup {KernelPd}
    /\ tss_esp0 \in Threads \cup {NULL}
    /\ zombie_head \in Tcb \cup {NULL} /\ zombie_tail \in Tcb \cup {NULL}
    /\ node \in Tcb \cup {NULL} /\ reg \in Tcb \cup {NULL}
    /\ panicked \in BOOLEAN

\* The run queue holds exactly the RUNNABLE threads, each once: _thread_ready
\* and thread_ready push without looking whether the thread is queued already,
\* and a second push of a Node corrupts the list.
RunQueueExact ==
    /\ IsInjective(que)
    /\ Range(que) = {t \in Threads : status[t] = "RUNNABLE"}

\* The sleep queue holds exactly the SLEEPING threads other than the reaper,
\* each once, in the order of wake_at (list_sorted_push).
SleepQueueExact ==
    /\ IsInjective(sleep_que)
    /\ Range(sleep_que) = {t \in Tcb : status[t] = "SLEEPING"}
    /\ \A i, j \in 1..Len(sleep_que) :
          i < j => wake_at[sleep_que[i]] <= wake_at[sleep_que[j]]

\* Whoever runs after scheduler() runs in its own address space and traps onto
\* its own kernel stack, although CR3 is only loaded when the directory of the
\* thread that leaves differs.
AddressSpaceOK ==
    /\ cr3 = pd[cur_thread]
    /\ pc[cur_thread] \in {"launch", "user"} => tss_esp0 = cur_thread

\* The parts of StatusOK: the thread on the CPU; every thread but the idle one;
\* the idle thread.
CurrentOK ==
    /\ \A t \in Threads : status[t] = "RUNNING" => t = cur_thread
    /\ cur_thread # Idle =>
          \/ status[cur_thread] = "RUNNING"
          \/ status[cur_thread] = "SLEEPING" /\ pc[cur_thread] = "yield"
          \/ status[cur_thread] = "ZOMBIE" /\ pc[cur_thread] = "dead"
PcStatusOK ==
    \A t \in Threads \ {Idle} :
        /\ status[t] # "IDLE"
        /\ status[t] = "NONE" <=> pc[t] = "none"
        /\ status[t] = "ZOMBIE" <=> pc[t] \in {"dead", "gone"}
        /\ status[t] = "SLEEPING" => pc[t] \in {"user", "yield", "run", "check"}
IdleOK ==
    /\ status[Idle] = IF pc[Idle] \in BootPc THEN "RUNNING" ELSE "IDLE"
    /\ pc[Idle] \in BootPc => cur_thread = Idle
    /\ pc[Idle] # "init_reaper" => status[Reaper] # "NONE"

\* Thread.status agrees with what each thread is executing: one thread at most
\* is RUNNING, the one on the CPU; a thread keeps the CPU with another status
\* only between an atomic block that changed it and the call of scheduler()
\* that follows; a ZOMBIE never executes anything again.
StatusOK == CurrentOK /\ PcStatusOK /\ IdleOK

\* destroy_thread is called for a dead thread only, one that has left its stack,
\* and no queue, pointer or register of the kernel leads to a TCB after that.
NoUseAfterFree ==
    /\ pc[Reaper] = "destroy" => status[node] = "ZOMBIE" /\ node # cur_thread
    /\ \A t \in Tcb : status[t] = "NONE" =>
          /\ t \notin Range(que) \cup Range(sleep_que)
          /\ t \notin {cur_thread, tss_esp0, zombie_head, zombie_tail, node, reg}
          /\ \A u \in Threads : next[u] # t

\* reaper_main's sleep and reaper_add's wake-up do not miss each other: while a
\* zombie is at the head of the queue the reaper is not blocked.
NoLostWakeup == zombie_head # NULL => status[Reaper] # "SLEEPING"

\* The shape of the zombie queue that survives even the unprotected pop: the
\* pointers lead to zombies only, no two to the same one, the last zombie has no
\* successor, and nothing leads to the one the reaper is about to free.
ZombieListOK ==
    /\ \A p \in {zombie_head, zombie_tail, reg} : p # NULL => status[p] = "ZOMBIE"
    /\ \A u \in Threads : next[u] # NULL => status[u] = "ZOMBIE" /\ status[next[u]] = "ZOMBIE"
    /\ \A u, v \in Threads : next[u] # NULL /\ next[u] = next[v] => u = v
    /\ zombie_tail # NULL => next[zombie_tail] = NULL
    /\ \A u \in Threads : zombie_head # NULL /\ next[u] = zombie_head
                             => u = node /\ pc[Reaper] = "pop_clear"
    /\ pc[Reaper] = "pop_head" => zombie_head # NULL
    /\ IF pc[Reaper] \in PopPc
         THEN node # NULL /\ status[node] = "ZOMBIE" /\ \A u \in Threads : next[u] # node
         ELSE node = NULL
    /\ pc[Reaper] \in PopPc \ {"pop_cmp", "pop_prev", "pop_tail"} /\ ~panicked
          => zombie_tail # node
    /\ pc[Reaper] \in {"pop_clear", "destroy"} => zombie_head # node
    /\ pc[Reaper] = "pop_store" => reg = next[node]
    /\ pc[Reaper] = "destroy" => next[node] = NULL

\* The three queues of the kernel hold the threads they should, whatever the timer,
\* the system calls and the reaper's unprotected pop do in between.
QueuesExact == RunQueueExact /\ SleepQueueExact /\ ZombieListOK

\* No zombie is lost: each is at the head of the zombie queue, linked behind
\* another thread of it, or already taken off by the reaper.
NoZombieLost ==
    \A t \in Tcb : status[t] = "ZOMBIE" =>
        t \in {zombie_head, node} \/ \E u \in Threads : next[u] = t

\* Round robin starves nobody: a RUNNABLE thread gets the CPU.
RunnableRuns ==
    \A t \in Tcb \cup {Reaper} : status[t] = "RUNNABLE" ~> (cur_thread = t \/ panicked)

\* A thread that called sleep is made RUNNABLE again.
SleeperWakes ==
    \A t \in Tcb : status[t] = "SLEEPING" ~> (status[t] # "SLEEPING" \/ panicked)

\* A thread that exited is reaped: a zombie that is at the head of the queue when
\* the reaper is not inside list_pop_front is taken off and its TCB freed, whoever
\* exits in the meantime (or its stack's address stops the kernel).  A zombie that
\* an unfinished pop overwrites is not promised this, see NoZombieLost.
ZombieReaped ==
    \A t \in Tcb : (zombie_head = t /\ pc[Reaper] \notin PopPc)
                      ~> (status[t] = "NONE" \/ panicked)

\* wake_up_threads wakes no sleeper before its time, and after a tick nobody
\* whose time has come is left in the sleep queue, wherever the other sleepers
\* were inserted.
WakeOnTime ==
    [][/\ \A t \in Tcb : status[t] = "SLEEPING" /\ status'[t] # "SLEEPING"
                            => wake_at[t] <= ticks'
       /\ ticks' # ticks => \A t \in Range(sleep_que') : wake_at[t] > ticks']_vars

\* How Thread.status and the clock appear to ThreadLife.
Phases == [NONE |-> "absent", RUNNABLE |-> "ready", RUNNING |-> "running",
           SLEEPING |-> "asleep", ZOMBIE |-> "dead"]
Life == INSTANCE ThreadLife WITH
            Thread   <- Tcb,
            phase    <- [t \in Tcb |-> Phases[status[t]]],
            deadline <- [t \in Tcb |-> wake_at[t]],
            now      <- ticks

\* The scheduler, the system calls and the reaper implement ThreadLife: every
\* thread sees the life cycle it was promised, whatever is interleaved with it.
LifeSpec == Life!Spec
=============================================================================
