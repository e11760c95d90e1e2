----------------------------- MODULE SchedProofs ------------------------------
(***************************************************************************)
(* Theorems about Sched, for any set of threads, any tick rate and any     *)
(* bound on the clock.  The invariant and the lemma for each action are in *)
(* SchedInvReaper, SchedInvThreads and SchedInvSwitch.                     *)
(***************************************************************************)
EXTENDS SchedInvSwitch

\* A state with the same variables satisfies the same invariant.
LEMMA InvStutter == Inv /\ UNCHANGED vars => Inv'
BY SMTT(60) DEF vars, threadVars, zombieVars, popVars, cpuVars, Inv, TypeOK, RunQueueExact,
       SleepQueueExact, StatusOK, CurrentOK, PcStatusOK, IdleOK, AddressSpaceOK,
       ZombieListOK, NoLostWakeup

\* Every step of the kernel preserves the invariant.
LEMMA InvNext == Inv /\ [Next]_vars => Inv'
<1> SUFFICES ASSUME Inv, [Next]_vars PROVE Inv'
  OBVIOUS
<1>1. CASE boot
  BY <1>1, InvCreators, InvSti DEF boot
<1>2. CASE timer
  BY <1>2, InvTimer
<1>3. ASSUME NEW t \in Threads, progress(t) PROVE Inv'
  <2>1. CASE kthread_stub(t) \/ launch_process(t)
    BY <2>1, InvFresh
  <2>2. CASE thread_sleep_push(t)
    BY <2>2, InvSleepPush
  <2>3. CASE yield(t)
    BY <2>3, InvYield
  <2>4. CASE reaper_main
    BY <2>4, InvReaperCheck, InvPopHead, InvPopCmp, InvPopPrev, InvPopTail, InvPopLoad,
       InvPopStore, InvPopClear, InvDestroy DEF reaper_main
  <2> QED
    BY <1>3, <2>1, <2>2, <2>3, <2>4 DEF progress
<1>4. ASSUME NEW t \in Threads, choice(t) PROVE Inv'
  <2>1. ASSUME NEW time \in SleepTimes, thread_sleep(t, time) \/ do_sleep(t, time) PROVE Inv'
    BY <2>1, InvSleep, InvDoSleep
  <2>2. CASE yield(t)
    BY <2>2, InvYield
  <2>3. CASE spawn(t)
    BY <2>3, InvCreators
  <2>4. CASE kthread_exit(t)
    BY <2>4, InvKthreadExit
  <2>5. CASE do_exit(t)
    BY <2>5, InvDoExit
  <2> QED
    BY <1>4, <2>1, <2>2, <2>3, <2>4, <2>5 DEF choice
<1>5. CASE Halted \/ UNCHANGED vars
  BY <1>5, InvStutter DEF Halted
<1> QED
  BY <1>1, <1>2, <1>3, <1>4, <1>5 DEF Next
-----------------------------------------------------------------------------
\* The inductive invariant of the scheduler and the reaper: every queue operation
\* of sched.c, reaper.c and syscall.c preserves it, whatever is interleaved.
THEOREM Invariance == Spec => []Inv
BY InvInit, InvNext, PTL DEF Spec

\* Types of the scheduler's and the reaper's data.
THEOREM TypeCorrect == Spec => []TypeOK
<1>1. Inv => TypeOK
  BY DEF Inv
<1> QED
  BY <1>1, Invariance, PTL

\* que holds exactly the RUNNABLE threads, once each: _thread_ready, thread_ready
\* and wake_up_threads never push a node that is in a list.  sleep_que holds
\* exactly the SLEEPING ones, once each and in the order of wake_at, although
\* thread_sleep computes wake_at before it masks interrupts.  The zombie queue
\* keeps its shape under the pop that runs with interrupts on.
THEOREM QueuesKept == Spec => []QueuesExact
<1>1. Inv => QueuesExact
  BY DEF Inv, QueuesExact
<1> QED
  BY <1>1, Invariance, PTL

\* Thread.status agrees with what the threads execute.
THEOREM StatusKept == Spec => []StatusOK
<1>1. Inv => StatusOK
  BY DEF Inv
<1> QED
  BY <1>1, Invariance, PTL

\* scheduler() leaves every thread with its own page directory and kernel stack.
THEOREM AddressSpaceKept == Spec => []AddressSpaceOK
<1>1. Inv => AddressSpaceOK
  BY DEF Inv
<1> QED
  BY <1>1, Invariance, PTL

\* The reaper does not sleep through a zombie at the head of its queue.
THEOREM ReaperAwake == Spec => []NoLostWakeup
<1>1. Inv => NoLostWakeup
  BY DEF Inv
<1> QED
  BY <1>1, Invariance, PTL
-----------------------------------------------------------------------------
\* What destroy_thread needs besides Inv: the thread the reaper took off is not
\* the one on the CPU, and TSS.esp0 points to no other stack than that of the
\* thread on the CPU.
NotOnCpu ==
    /\ node # cur_thread
    /\ tss_esp0 # NULL => tss_esp0 = cur_thread

\* A step keeps the CPU, and node unless the reaper itself runs; or it is a
\* scheduler() call, after which the CPU is with a RUNNING or the idle thread.
LEMMA CpuSteps ==
    ASSUME Inv, Inv', Next
    PROVE  \/ /\ cur_thread' = cur_thread /\ tss_esp0' = tss_esp0
              /\ node' = node \/ cur_thread = Reaper
           \/ /\ tss_esp0' = cur_thread' /\ node' = node
              /\ cur_thread' = Idle \/ status'[cur_thread'] = "RUNNING"
<1> DEFINE Keeps    == /\ cur_thread' = cur_thread /\ tss_esp0' = tss_esp0
                       /\ node' = node \/ cur_thread = Reaper
           Switches == /\ tss_esp0' = cur_thread' /\ node' = node
                       /\ cur_thread' = Idle \/ status'[cur_thread'] = "RUNNING"
<1>1. ASSUME NEW st, NEW q, scheduler(st, q), node' = node PROVE Switches
  <2>1. PICK new, st1 : /\ cur_thread' = new /\ tss_esp0' = new
                        /\ status' = IF new # Idle THEN [st1 EXCEPT ![new] = "RUNNING"] ELSE st1
    BY <1>1, ZenonT(60) DEF scheduler, switch_to
  <2>2. status' \in [Threads -> Status] /\ cur_thread' \in Threads
    BY DEF Inv, TypeOK
  <2> QED
    BY <1>1, <2>1, <2>2, SMTT(60)
<1>2. ASSUME boot PROVE Keeps \/ Switches
  BY <1>2 DEF boot, init_reaper, BootCreate, kmain_sti, CreateThread, cpuVars, popVars
<1>3. ASSUME timer PROVE Keeps \/ Switches
  BY <1>1, <1>3, ZenonT(60) DEF timer, wake_up_and_schedule, popVars
<1>4. ASSUME NEW t \in Threads, progress(t) PROVE Keeps \/ Switches
  <2>1. CASE kthread_stub(t) \/ launch_process(t) \/ thread_sleep_push(t)
    BY <2>1 DEF kthread_stub, launch_process, thread_sleep_push, Advance, cpuVars, popVars
  <2>2. CASE yield(t)
    BY <1>1, <2>2 DEF yield, popVars
  <2>3. CASE reaper_main
    BY <2>3, ZenonT(60) DEF reaper_main, reaper_check, pop_head, pop_cmp, pop_prev, pop_tail, pop_load,
                pop_store, pop_clear, destroy_thread, PopStep, At, cpuVars, popVars
  <2> QED
    BY <1>4, <2>1, <2>2, <2>3 DEF progress
<1>5. ASSUME NEW t \in Threads, choice(t) PROVE Keeps \/ Switches
  <2>1. ASSUME NEW time \in SleepTimes, thread_sleep(t, time) \/ do_sleep(t, time)
        PROVE  Keeps \/ Switches
    BY <1>1, <2>1 DEF thread_sleep, do_sleep, cpuVars, popVars
  <2>2. CASE yield(t)
    BY <1>1, <2>2 DEF yield, popVars
  <2>3. CASE spawn(t)
    BY <2>3 DEF spawn, CreateThread, cpuVars, popVars
  <2>4. CASE kthread_exit(t)
    BY <2>4 DEF kthread_exit, cpuVars, popVars
  <2>5. CASE do_exit(t)
    BY <1>1, <2>5 DEF do_exit, popVars
  <2> QED
    BY <1>5, <2>1, <2>2, <2>3, <2>4, <2>5 DEF choice
<1>6. ASSUME Halted PROVE Keeps \/ Switches
  BY <1>6 DEF Halted, vars, cpuVars, popVars
<1> HIDE DEF Keeps, Switches
<1>7. Keeps \/ Switches
  BY <1>2, <1>3, <1>4, <1>5, <1>6 DEF Next
<1> QED
  BY <1>7 DEF Keeps, Switches

\* Every step keeps it: CpuSteps leaves few ways for the current thread and the
\* zombie that the reaper holds to become the same.
LEMMA NotOnCpuNext == Inv /\ Inv' /\ NotOnCpu /\ [Next]_vars => NotOnCpu'
<1> SUFFICES ASSUME Inv, Inv', NotOnCpu, [Next]_vars PROVE NotOnCpu'
  OBVIOUS
<1> USE SchedAssumption
<1>1. CASE Next
  <2>1. /\ node' = NULL \/ (node' \in Tcb /\ status'[node'] = "ZOMBIE")
        /\ cur_thread \in Threads /\ cur_thread' \in Threads /\ Reaper \notin Tcb
        /\ Idle \notin Tcb /\ NULL \notin Threads
    <3>1. TypeOK' /\ ZombieListOK'
      BY DEF Inv
    <3> QED
      BY <3>1, ZenonT(60) DEF Inv, TypeOK, ZombieListOK
  <2>2. CASE /\ cur_thread' = cur_thread /\ tss_esp0' = tss_esp0
             /\ node' = node \/ cur_thread = Reaper
    BY <2>1, <2>2 DEF NotOnCpu, Threads
  <2>3. CASE /\ tss_esp0' = cur_thread' /\ node' = node
             /\ cur_thread' = Idle \/ status'[cur_thread'] = "RUNNING"
    BY <2>1, <2>3 DEF NotOnCpu
  <2> QED
    BY <1>1, <2>2, <2>3, CpuSteps
<1>2. CASE UNCHANGED vars
  BY <1>2 DEF NotOnCpu, vars, cpuVars, popVars
<1> QED
  BY <1>1, <1>2

\* destroy_thread frees a ZOMBIE that is off the CPU, and no queue, pointer,
\* register or TSS entry leads to a TCB that was given back, even though the
\* reaper's list_pop_front runs with interrupts on.
THEOREM FreedOnce == Spec => []NoUseAfterFree
<1>1. Init => NotOnCpu
  BY SchedAssumption DEF Init, NotOnCpu, Threads
<1>2. Inv /\ NotOnCpu => NoUseAfterFree
  <2> SUFFICES ASSUME Inv, NotOnCpu PROVE NoUseAfterFree
    OBVIOUS
  <2> USE SchedAssumption
  <2>1. TypeOK /\ RunQueueExact /\ SleepQueueExact /\ StatusOK /\ ZombieListOK
    BY SMTT(60) DEF Inv
  <2>2. pc[Reaper] = "destroy" => status[node] = "ZOMBIE" /\ node # cur_thread
    BY <2>1 DEF NotOnCpu, ZombieListOK, PopPc
  <2>3. ASSUME NEW t \in Tcb, status[t] = "NONE"
        PROVE  /\ t \notin Range(que) \cup Range(sleep_que)
               /\ t \notin {cur_thread, tss_esp0, zombie_head, zombie_tail, node, reg}
               /\ \A u \in Threads : next[u] # t
    <3>1. t \in Threads /\ t # NULL /\ t # Idle
      BY DEF Threads
    <3>2. t \notin Range(que) \cup Range(sleep_que)
      BY <2>1, <2>3 DEF RunQueueExact, SleepQueueExact
    <3>3. t # cur_thread
      BY <2>1, <2>3, <3>1 DEF StatusOK, CurrentOK
    <3>4. t # tss_esp0
      BY <3>1, <3>3, SMTT(60) DEF NotOnCpu
    <3>5. t # node
      BY <2>1, <2>3, <3>1 DEF ZombieListOK
    <3>6. t \notin {zombie_head, zombie_tail, reg} /\ \A u \in Threads : next[u] # t
      BY <2>1, <2>3, <3>1 DEF ZombieListOK
    <3> QED
      BY <3>2, <3>3, <3>4, <3>5, <3>6
  <2> QED
    BY <2>2, <2>3 DEF NoUseAfterFree
<1> QED
  BY <1>1, <1>2, Invariance, NotOnCpuNext, PTL DEF Spec
-----------------------------------------------------------------------------
\* What a step may do to thread t: the steps of ThreadLife in terms of Thread.
LifeStep(t) ==
    \/ status'[t] = status[t] /\ (status[t] = "RUNNING" \/ wake_at'[t] = wake_at[t])
    \/ /\ wake_at'[t] = wake_at[t]
       /\ \/ status[t] = "NONE" /\ status'[t] = "RUNNABLE"
          \/ status[t] = "RUNNABLE" /\ status'[t] = "RUNNING"
          \/ status[t] = "RUNNING" /\ status'[t] \in {"RUNNABLE", "ZOMBIE"}
          \/ /\ status[t] = "SLEEPING" /\ status'[t] \in {"RUNNABLE", "RUNNING"}
             /\ wake_at[t] <= ticks'
    \/ status[t] = "RUNNING" /\ status'[t] = "SLEEPING"
    \/ status[t] = "ZOMBIE" /\ status'[t] = "NONE"

\* scheduler() moves threads between RUNNING and RUNNABLE only.
LEMMA SchedulerMoves ==
    ASSUME cur_thread \in Threads, NEW st \in [Threads -> Status], NEW q \in Seq(Threads),
           Range(q) = {u \in Threads : st[u] = "RUNNABLE"}, scheduler(st, q), NEW t \in Threads
    PROVE  /\ st[t] \in {"RUNNING", "RUNNABLE"} => status'[t] \in {"RUNNING", "RUNNABLE"}
           /\ st[t] \notin {"RUNNING", "RUNNABLE"} => status'[t] = st[t]
<1> DEFINE ready == IF st[cur_thread] = "RUNNING" THEN Append(q, cur_thread) ELSE q
           st1   == IF st[cur_thread] = "RUNNING" THEN [st EXCEPT ![cur_thread] = "RUNNABLE"] ELSE st
           new   == IF ready # <<>> THEN Head(ready) ELSE Idle
<1>1. status' = IF new # Idle THEN [st1 EXCEPT ![new] = "RUNNING"] ELSE st1
  BY DEF scheduler, switch_to
<1>2. ready \in Seq(Threads) /\ Range(ready) \subseteq {u \in Threads : st1[u] = "RUNNABLE"}
  <2>1. CASE st[cur_thread] = "RUNNING"
    <3>1. ready \in Seq(Threads) /\ Range(ready) = Range(q) \cup {cur_thread}
      BY <2>1, PushBackFacts
    <3> QED
      BY <2>1, <3>1
  <2>2. CASE st[cur_thread] # "RUNNING"
    BY <2>2
  <2> QED
    BY <2>1, <2>2
<1>3. st1 \in [Threads -> Status] /\
      (st1[t] = st[t] \/ (st[t] = "RUNNING" /\ st1[t] = "RUNNABLE"))
  BY DEF Status
<1> HIDE DEF ready
<1>4. new # Idle => new \in Threads /\ st1[new] = "RUNNABLE"
  <2>1. ready # <<>> => Head(ready) \in Range(ready)
    BY <1>2, PopFrontFacts
  <2> QED
    BY <1>2, <2>1
<1> HIDE DEF st1, new
<1>5. status'[t] = IF new # Idle /\ t = new THEN "RUNNING" ELSE st1[t]
  BY <1>1, <1>3, <1>4
<1> QED
  BY <1>3, <1>4, <1>5

\* A tick wakes only sleepers that are due, and leaves none of these asleep: the
\* sleep queue is sorted, so that the loop may stop at the first that is not due.
LEMMA TimerMoves ==
    ASSUME Inv, timer
    PROVE  /\ \A t \in Tcb : LifeStep(t)
           /\ \A t \in Range(sleep_que') : wake_at[t] > ticks'
           /\ ticks' >= ticks
<1> USE SchedAssumption
<1>1. /\ status \in [Threads -> Status] /\ wake_at \in [Threads -> 0..MaxTicks]
      /\ sleep_que \in Seq(Tcb) /\ que \in Seq(Threads)
      /\ cur_thread \in Threads /\ ticks \in 0..MaxTicks
      /\ Range(que) = {u \in Threads : status[u] = "RUNNABLE"}
      /\ Range(sleep_que) = {u \in Tcb : status[u] = "SLEEPING"}
      /\ \A i, j \in 1..Len(sleep_que) :
            i < j => wake_at[sleep_que[i]] <= wake_at[sleep_que[j]]
  BY DEF Inv, TypeOK, RunQueueExact, SleepQueueExact, Threads
<1>2. ticks' = NextTick /\ wake_at' = wake_at /\ NextTick >= ticks /\ NextTick \in Nat
  BY <1>1 DEF timer, NextTick
<1> DEFINE L == Len(sleep_que)
<1>3. PICK n \in 0..L :
        /\ LeadingDue(sleep_que, wake_at, NextTick, n)
        /\ sleep_que' = SubSeq(sleep_que, n + 1, L)
        /\ scheduler([t \in Threads |-> IF \E i \in 1..n : sleep_que[i] = t
                                          THEN "RUNNABLE" ELSE status[t]],
                     que \o SubSeq(sleep_que, 1, n))
  BY SMTT(60) DEF timer, wake_up_and_schedule
<1> DEFINE st == [t \in Threads |-> IF \E i \in 1..n : sleep_que[i] = t
                                      THEN "RUNNABLE" ELSE status[t]]
           a  == SubSeq(sleep_que, 1, n)
           b  == SubSeq(sleep_que, n + 1, L)
           q  == que \o a
<1>4. /\ a \in Seq(Tcb) /\ b \in Seq(Tcb) /\ Len(b) = L - n
      /\ \A i \in 1..(L - n) : b[i] = sleep_que[n + i]
      /\ Range(sleep_que) = Range(a) \cup Range(b)
      /\ Range(a) = {sleep_que[i] : i \in 1..n}
  BY <1>1, CutFacts
<1>5. /\ st \in [Threads -> Status]
      /\ \A t \in Threads : st[t] = IF t \in Range(a) THEN "RUNNABLE" ELSE status[t]
  <2>1. \A t \in Threads : (\E i \in 1..n : sleep_que[i] = t) <=> t \in Range(a)
    BY <1>4
  <2> HIDE DEF a
  <2> QED
    BY <1>1, <2>1 DEF Status
<1>6. q \in Seq(Threads) /\ Range(q) = {t \in Threads : st[t] = "RUNNABLE"}
  <2>1. a \in Seq(Threads)
    BY <1>4 DEF Threads
  <2>2. q \in Seq(Threads) /\ Range(q) = Range(que) \cup Range(a)
    <3>1. que \in Seq(Threads)
      BY <1>1
    <3>2. que \o a \in Seq(Threads) /\ Range(que \o a) = Range(que) \cup Range(a)
      BY ONLY <2>1, <3>1, ConcatFacts
    <3> QED
      BY ONLY <3>2
  <2>3. \A t \in Range(a) : t \in Threads
    BY <1>1, <1>4 DEF Threads
  <2> HIDE DEF a, st, q
  <2> QED
    BY <1>1, <1>5, <2>2, <2>3
<1>7. \A t \in Range(a) : wake_at[t] <= ticks' /\ status[t] = "SLEEPING"
  <2>1. \A i \in 1..n : wake_at[sleep_que[i]] <= NextTick
    BY <1>3 DEF LeadingDue
  <2> HIDE DEF a
  <2> QED
    BY <1>1, <1>2, <1>4, <2>1, ZenonT(60)
<1>8. scheduler(st, q) /\ sleep_que' = b
  BY <1>3
<1> HIDE DEF st, a, b, q
<1>9. ASSUME NEW t \in Tcb PROVE LifeStep(t)
  <2>1. t \in Threads
    BY DEF Threads
  <2>2. /\ st[t] \in {"RUNNING", "RUNNABLE"} => status'[t] \in {"RUNNING", "RUNNABLE"}
        /\ st[t] \notin {"RUNNING", "RUNNABLE"} => status'[t] = st[t]
    BY <1>1, <1>5, <1>6, <1>8, <2>1, SchedulerMoves
  <2> QED
    BY <1>2, <1>5, <1>7, <2>1, <2>2, Zenon DEF LifeStep
<1>10. ASSUME NEW t \in Range(b) PROVE wake_at[t] > ticks'
  <2>1. PICK i \in 1..(L - n) : t = b[i]
    BY <1>4 DEF Range
  <2>2. n + i \in 1..L /\ n + 1 \in 1..L /\ n < L /\ t = sleep_que[n + i]
    BY <1>1, <1>4, <2>1
  <2>3. wake_at[sleep_que[n + 1]] > NextTick
    BY <1>3, <2>2 DEF LeadingDue
  <2>4. i = 1 \/ n + 1 < n + i
    BY <2>1
  <2>5. wake_at[sleep_que[n + 1]] <= wake_at[t]
    <3>1. sleep_que[n + 1] \in Tcb /\ t \in Tcb
      BY <1>1, <2>2
    <3>2. wake_at[t] \in Nat
      BY <1>1, <3>1 DEF Threads
    <3> QED
      BY <1>1, <2>2, <2>4, <3>2
  <2>6. wake_at[t] \in Nat /\ wake_at[sleep_que[n + 1]] \in Nat
    <3>1. sleep_que[n + 1] \in Tcb /\ t \in Tcb
      BY <1>1, <2>2
    <3> QED
      BY <1>1, <3>1 DEF Threads
  <2> QED
    BY <1>2, <2>3, <2>5, <2>6
<1> QED
  BY <1>2, <1>8, <1>9, <1>10

\* A step that leaves every status and wake_at as they were is a stutter to all.
LEMMA LifeStays ==
    ASSUME status' = status, wake_at' = wake_at, NEW t \in Tcb
    PROVE  LifeStep(t)
BY DEF LifeStep

\* Every step of the kernel is a step of every thread's life, and only the timer
\* moves the clock.
LEMMA LifeSteps ==
    ASSUME Inv, [Next]_vars
    PROVE  /\ \A t \in Tcb : LifeStep(t)
           /\ ticks' = ticks \/ timer
<1> USE SchedAssumption
<1>1. /\ status \in [Threads -> Status] /\ wake_at \in [Threads -> 0..MaxTicks]
      /\ que \in Seq(Threads) /\ cur_thread \in Threads /\ ticks \in 0..MaxTicks
      /\ Range(que) = {u \in Threads : status[u] = "RUNNABLE"}
      /\ \A u \in Tcb : u \in Threads /\ u # Idle /\ u # Reaper
      /\ Reaper \in Threads
  <2>1. TypeOK /\ RunQueueExact
    BY DEF Inv
  <2>2. /\ status \in [Threads -> Status] /\ wake_at \in [Threads -> 0..MaxTicks]
        /\ que \in Seq(Queued) /\ cur_thread \in Threads /\ ticks \in 0..MaxTicks
        /\ Range(que) = {u \in Threads : status[u] = "RUNNABLE"}
    BY <2>1, Zenon DEF TypeOK, RunQueueExact, Queued
  <2>3. /\ Queued \subseteq Threads /\ Reaper \in Threads
        /\ \A u \in Tcb : u \in Threads /\ u # Idle /\ u # Reaper
    BY DEF Queued, Threads
  <2>4. que \in Seq(Threads)
    BY ONLY <2>2, <2>3
  <2> QED
    BY ONLY <2>2, <2>3, <2>4
<1> DEFINE Ok == (\A t \in Tcb : LifeStep(t)) /\ ticks' = ticks
<1>2. ASSUME status' = status, wake_at' = wake_at, ticks' = ticks PROVE Ok
  BY <1>2, LifeStays
<1>3. ASSUME NEW u \in Threads, NEW dir, NEW l, NEW more, CreateThread(u, dir, l, more) PROVE Ok
  BY <1>1, <1>3 DEF CreateThread, LifeStep
<1>4. CASE boot
  <2>1. CASE init_reaper
    BY <1>1, <1>3, <2>1 DEF init_reaper
  <2>2. CASE BootCreate
    BY <1>1, <1>3, <2>2 DEF BootCreate
  <2>3. CASE kmain_sti
    BY <1>1, <2>3 DEF kmain_sti, LifeStep
  <2> QED
    BY <1>4, <2>1, <2>2, <2>3 DEF boot
<1>5. ASSUME NEW u \in Threads, yield(u) PROVE Ok
  <2>1. scheduler(status, que) /\ wake_at' = wake_at /\ ticks' = ticks
    BY <1>5 DEF yield
  <2>2. \A t \in Tcb :
           /\ status[t] \in {"RUNNING", "RUNNABLE"} => status'[t] \in {"RUNNING", "RUNNABLE"}
           /\ status[t] \notin {"RUNNING", "RUNNABLE"} => status'[t] = status[t]
    BY <1>1, <2>1, SchedulerMoves
  <2> QED
    BY <2>1, <2>2, Zenon DEF LifeStep
<1>6. ASSUME NEW u \in Threads, progress(u) PROVE Ok
  <2>1. CASE kthread_stub(u) \/ launch_process(u)
    BY <1>2, <2>1 DEF kthread_stub, launch_process, Advance
  <2>2. CASE thread_sleep_push(u)
    <3>1. status[u] = "RUNNING"
      BY <2>2 DEF thread_sleep_push, At, Inv, TypeOK, StatusOK, CurrentOK, PcOf, BootPc
    <3> QED
      BY <1>1, <2>2, <3>1 DEF thread_sleep_push, LifeStep
  <2>3. CASE yield(u)
    BY <1>5, <2>3
  <2>4. CASE reaper_main
    <3>1. CASE reaper_check
      <4>1. wake_at' = wake_at /\ ticks' = ticks
        BY <3>1 DEF reaper_check
      <4>2. status' = status \/ status' = [status EXCEPT ![Reaper] = "SLEEPING"]
        BY <3>1 DEF reaper_check
      <4> QED
        BY <1>1, <4>1, <4>2 DEF LifeStep
    <3>2. CASE \/ pop_head \/ pop_cmp \/ pop_prev \/ pop_tail \/ pop_load \/ pop_store
               \/ pop_clear
      BY <1>2, <3>2 DEF pop_head, pop_cmp, pop_prev, pop_tail, pop_load, pop_store,
                        pop_clear, PopStep
    <3>3. CASE destroy_thread
      <4>1. node \in Threads /\ status[node] = "ZOMBIE"
        BY <3>3 DEF destroy_thread, At, Inv, TypeOK, ZombieListOK, PopPc, Threads
      <4>2. CASE /\ status' = [status EXCEPT ![node] = "NONE"] /\ ticks' = ticks
                 /\ wake_at' = [wake_at EXCEPT ![node] = 0]
        BY <1>1, <4>1, <4>2 DEF LifeStep
      <4>3. CASE status' = status /\ wake_at' = wake_at /\ ticks' = ticks
        BY <1>2, <4>3
      <4> QED
        BY <3>3, <4>2, <4>3, Zenon DEF destroy_thread, threadVars
    <3> QED
      BY <2>4, <3>1, <3>2, <3>3 DEF reaper_main
  <2> QED
    BY <1>6, <2>1, <2>2, <2>3, <2>4 DEF progress
<1>7. ASSUME NEW u \in Threads, choice(u) PROVE Ok
  <2>1. ASSUME NEW time \in SleepTimes, thread_sleep(u, time) PROVE Ok
    <3>1. status[u] = "RUNNING"
      BY <2>1, RunningFacts DEF thread_sleep, At
    <3>2. /\ status' = status /\ ticks' = ticks
          /\ \E w : wake_at' = [wake_at EXCEPT ![u] = w]
      BY <2>1 DEF thread_sleep
    <3> QED
      BY <1>1, <3>1, <3>2 DEF LifeStep
  <2>2. ASSUME NEW time \in SleepTimes, do_sleep(u, time) PROVE Ok
    <3> DEFINE st == [status EXCEPT ![u] = "SLEEPING"]
    <3>1. status[u] = "RUNNING"
      BY <2>2, RunningFacts DEF do_sleep, At
    <3>2. /\ scheduler(st, que) /\ ticks' = ticks
          /\ \A t \in Threads : t # u => wake_at'[t] = wake_at[t]
      BY <1>1, <2>2 DEF do_sleep
    <3>3. /\ st \in [Threads -> Status] /\ st[u] = "SLEEPING"
          /\ \A t \in Threads : t # u => st[t] = status[t]
      BY <1>1 DEF Status
    <3> HIDE DEF st
    <3>4. Range(que) = {t \in Threads : st[t] = "RUNNABLE"}
      BY <1>1, <3>1, <3>3
    <3>5. \A t \in Threads :
             /\ st[t] \in {"RUNNING", "RUNNABLE"} => status'[t] \in {"RUNNING", "RUNNABLE"}
             /\ st[t] \notin {"RUNNING", "RUNNABLE"} => status'[t] = st[t]
      BY <1>1, <3>2, <3>3, <3>4, SchedulerMoves
    <3> QED
      BY <1>1, <3>1, <3>2, <3>3, <3>5, Zenon DEF LifeStep
  <2>3. CASE yield(u)
    BY <1>5, <2>3
  <2>4. CASE spawn(u)
    BY <1>1, <1>3, <2>4 DEF spawn
  <2>5. CASE kthread_exit(u)
    <3>1. status[u] = "RUNNING"
      BY <2>5, RunningFacts DEF kthread_exit, At
    <3> QED
      BY <1>1, <2>5, <3>1 DEF kthread_exit, ReaperAddStatus, LifeStep
  <2>6. CASE do_exit(u)
    <3> DEFINE st == ReaperAddStatus(u)
    <3>1. u \in Tcb /\ status[u] = "RUNNING"
      BY <2>6, RunningFacts DEF do_exit, At
    <3>2. scheduler(st, ReaperAddQue) /\ ticks' = ticks /\ wake_at' = wake_at
      BY <2>6 DEF do_exit
    <3>3. /\ st \in [Threads -> Status] /\ st[u] = "ZOMBIE"
          /\ \A t \in Threads : t # u /\ t # Reaper => st[t] = status[t]
          /\ ReaperAddQue \in Seq(Threads)
          /\ Range(ReaperAddQue) = {t \in Threads : st[t] = "RUNNABLE"}
      <4>1. /\ st \in [Threads -> Status] /\ st[u] = "ZOMBIE"
            /\ \A t \in Threads : t # u /\ t # Reaper => st[t] = status[t]
            /\ ReaperAddQue \in Seq(Queued)
            /\ Range(ReaperAddQue) = {t \in Threads : st[t] = "RUNNABLE"}
        BY <3>1, ReaperAddFacts, Zenon
      <4>2. Queued \subseteq Threads
        BY DEF Queued, Threads
      <4> HIDE DEF st
      <4> QED
        BY <4>1, <4>2
    <3> HIDE DEF st
    <3>4. \A t \in Threads :
             /\ st[t] \in {"RUNNING", "RUNNABLE"} => status'[t] \in {"RUNNING", "RUNNABLE"}
             /\ st[t] \notin {"RUNNING", "RUNNABLE"} => status'[t] = st[t]
      BY <1>1, <3>2, <3>3, SchedulerMoves, Zenon
    <3> QED
      BY <1>1, <3>1, <3>2, <3>3, <3>4, Zenon DEF LifeStep
  <2> QED
    BY <1>7, <2>1, <2>2, <2>3, <2>4, <2>5, <2>6 DEF choice
<1>8. CASE timer
  BY <1>8, TimerMoves
<1>9. CASE Halted \/ UNCHANGED vars
  BY <1>2, <1>9 DEF Halted, vars, threadVars
<1> QED
  BY <1>4, <1>6, <1>7, <1>8, <1>9 DEF Next
-----------------------------------------------------------------------------
\* wake_up_threads wakes no sleeper early and passes over none that is due, for
\* any number of sleepers and any tick rate.
THEOREM WakesOnTime == Spec => WakeOnTime
<1> DEFINE Wakes == /\ \A t \in Tcb : status[t] = "SLEEPING" /\ status'[t] # "SLEEPING"
                                         => wake_at[t] <= ticks'
                    /\ ticks' # ticks => \A t \in Range(sleep_que') : wake_at[t] > ticks'
<1>1. Inv /\ [Next]_vars => [Wakes]_vars
  <2> SUFFICES ASSUME Inv, [Next]_vars PROVE Wakes
    OBVIOUS
  <2>1. \A t \in Tcb : LifeStep(t)
    BY LifeSteps
  <2>2. ticks' # ticks => \A t \in Range(sleep_que') : wake_at[t] > ticks'
    BY LifeSteps, TimerMoves
  <2> QED
    BY <2>1, <2>2 DEF LifeStep
<1> QED
  BY <1>1, Invariance, PTL DEF Spec, WakeOnTime

\* The phases of ThreadLife, one by one.
LEMMA PhaseOf == /\ Phases["NONE"] = "absent" /\ Phases["RUNNABLE"] = "ready"
                 /\ Phases["RUNNING"] = "running" /\ Phases["SLEEPING"] = "asleep"
                 /\ Phases["ZOMBIE"] = "dead"
BY DEF Phases

\* The kernel implements ThreadLife: under the mapping of Life every thread sees
\* the life cycle it was promised.
THEOREM ImplementsLife == Spec => LifeSpec
<1>1. Init => Life!Init
  <2> SUFFICES ASSUME Init PROVE Life!Init
    OBVIOUS
  <2>1. \A t \in Tcb : status[t] = "NONE" /\ wake_at[t] = 0
    BY SchedAssumption DEF Init, Threads
  <2> QED
    BY <2>1, PhaseOf DEF Init, Life!Init
<1>2. Inv /\ Inv' /\ [Next]_vars => [Life!Next]_<<[t \in Tcb |-> Phases[status[t]]],
                                                [t \in Tcb |-> wake_at[t]], ticks>>
  <2> SUFFICES ASSUME Inv, Inv', [Next]_vars PROVE Life!Next
    OBVIOUS
  <2> DEFINE phase == [t \in Tcb |-> Phases[status[t]]]
             deadline == [t \in Tcb |-> wake_at[t]]
  <2>1. /\ \A t \in Tcb : phase[t] = Phases[status[t]] /\ phase'[t] = Phases[status'[t]]
        /\ \A t \in Tcb : deadline[t] = wake_at[t] /\ deadline'[t] = wake_at'[t]
    OBVIOUS
  <2>2. ticks' >= ticks
    <3>1. ticks \in Int
      BY DEF Inv, TypeOK
    <3> QED
      BY <3>1, LifeSteps, TimerMoves
  <2>3. ASSUME NEW t \in Tcb
        PROVE  \/ Life!Stay(t) \/ Life!Create(t) \/ Life!Dispatch(t) \/ Life!Preempt(t)
               \/ Life!Sleep(t) \/ Life!Exit(t) \/ Life!Reap(t) \/ Life!Wake(t)
    <3>1. LifeStep(t)
      BY LifeSteps
    <3>2. wake_at'[t] >= 0
      BY DEF Inv, TypeOK, Threads
    <3> QED
      BY <2>1, <3>1, <3>2, PhaseOf DEF LifeStep, Life!Stay, Life!Create, Life!Dispatch,
         Life!Preempt, Life!Sleep, Life!Exit, Life!Reap, Life!Wake, Life!Moves,
         Life!KeepsDeadline
  <2>4. ASSUME NEW t \in Tcb, NEW u \in Tcb, phase'[t] = "running", phase'[u] = "running"
        PROVE  t = u
    <3>1. \A v \in Tcb : status'[v] \in Status \ {"IDLE"} /\ v \in Threads
      BY SchedAssumption DEF Inv, TypeOK, StatusOK, PcStatusOK, Threads
    <3>2. \A v \in Tcb : phase'[v] = "running" => status'[v] = "RUNNING"
      BY <2>1, <3>1, PhaseOf DEF Status
    <3> QED
      BY <2>4, <3>1, <3>2 DEF Inv, StatusOK, CurrentOK
  <2> QED
    BY <2>2, <2>3, <2>4 DEF Life!Next
<1> QED
  BY <1>1, <1>2, Invariance, PTL DEF Spec, LifeSpec, Life!Spec
===============================================================================
