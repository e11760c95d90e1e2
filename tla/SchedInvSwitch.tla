---------------------------- MODULE SchedInvSwitch ----------------------------
(***************************************************************************)
(* The invariant of Sched is kept by the steps that call scheduler() or put *)
(* a thread on the zombie queue: exit, sleep, yield and the timer.         *)
(***************************************************************************)
EXTENDS SchedInvThreads

\* reaper_add links a thread that is not in the zombie queue yet behind its
\* tail, even between two steps of the reaper's pop.
LEMMA PushZombieFacts ==
    ASSUME TypeOK, ZombieListOK, ~panicked, NEW z \in Tcb, status[z] # "ZOMBIE",
           PushZombie(z), node' = node, reg' = reg, panicked' = panicked,
           status'[z] = "ZOMBIE", \A u \in Threads : status[u] = "ZOMBIE" => status'[u] = "ZOMBIE",
           pc'[Reaper] = pc[Reaper]
    PROVE  /\ next' \in [Threads -> Tcb \cup {NULL}]
           /\ zombie_head' \in Tcb \cup {NULL} /\ zombie_tail' \in Tcb \cup {NULL}
           /\ ZombieListOK'
<1> USE SchedAssumption
<1>1. /\ \A p \in {zombie_head, zombie_tail, reg, node} : p # NULL => p \in Tcb
      /\ \A u \in Threads : next[u] # NULL => next[u] \in Tcb
      /\ \A u \in Threads : u # NULL
      /\ \A u \in Tcb : u \in Threads
  BY ZenonT(60) DEF TypeOK, Threads
<1>2. /\ next' = [u \in Threads |-> IF u = z THEN NULL ELSE IF u = zombie_tail THEN z ELSE next[u]]
      /\ zombie_head' = IF zombie_tail = NULL THEN z ELSE zombie_head
      /\ zombie_tail' = z
  BY ZenonT(60) DEF PushZombie
<1>3. /\ z # NULL /\ z # zombie_head /\ z # zombie_tail /\ z # reg
      /\ \A u \in Threads : next[u] # z
  BY <1>1 DEF ZombieListOK
<1>4. /\ next'[z] = NULL /\ (zombie_tail # NULL => next'[zombie_tail] = z)
      /\ \A u \in Threads : u # z /\ u # zombie_tail => next'[u] = next[u]
  BY <1>1, <1>2, <1>3, ZenonT(60)
<1>5. next[z] = NULL
  BY <1>1, SMTT(60) DEF ZombieListOK
<1>6. pc[Reaper] \in PopPc => node # z /\ node \in Tcb /\ node # NULL
  BY <1>1, SMTT(60) DEF ZombieListOK
<1>7. /\ next' \in [Threads -> Tcb \cup {NULL}]
      /\ zombie_head' \in Tcb \cup {NULL} /\ zombie_tail' \in Tcb \cup {NULL}
  BY <1>2 DEF TypeOK
<1>8. \A p \in {zombie_head', zombie_tail', reg'} : p # NULL => status'[p] = "ZOMBIE"
  BY <1>1, <1>2, ZenonT(60) DEF ZombieListOK
<1>9. \A u \in Threads : next'[u] # NULL => status'[u] = "ZOMBIE" /\ status'[next'[u]] = "ZOMBIE"
  <2> SUFFICES ASSUME NEW u \in Threads, next'[u] # NULL
               PROVE  status'[u] = "ZOMBIE" /\ status'[next'[u]] = "ZOMBIE"
    OBVIOUS
  <2>1. u # z
    BY <1>4
  <2>2. CASE u = zombie_tail
    BY <1>1, <1>4, <2>2, ZenonT(60) DEF ZombieListOK
  <2>3. CASE u # zombie_tail
    BY <1>1, <1>4, <2>1, <2>3, SMTT(60) DEF ZombieListOK
  <2> QED
    BY <2>2, <2>3
<1>10. \A u, v \in Threads : next'[u] # NULL /\ next'[u] = next'[v] => u = v
  BY <1>1, <1>3, <1>4 DEF ZombieListOK
<1>11. zombie_tail' # NULL => next'[zombie_tail'] = NULL
  BY <1>2, <1>4, ZenonT(60)
<1>12. \A u \in Threads : zombie_head' # NULL /\ next'[u] = zombie_head'
                             => u = node' /\ pc'[Reaper] = "pop_clear"
  <2>1. CASE zombie_tail = NULL
    BY <1>1, <1>2, <1>3, <1>4, <2>1
  <2>2. CASE zombie_tail # NULL
    BY <1>1, <1>2, <1>3, <1>4, <2>2, ZenonT(60) DEF ZombieListOK
  <2> QED
    BY <2>1, <2>2, ZenonT(60)
<1>13. pc'[Reaper] = "pop_head" => zombie_head' # NULL
  BY <1>2, <1>3 DEF ZombieListOK
<1>14. /\ pc'[Reaper] \in PopPc =>
            node' # NULL /\ status'[node'] = "ZOMBIE" /\ \A u \in Threads : next'[u] # node'
       /\ pc'[Reaper] \notin PopPc => node' = NULL
  BY <1>1, <1>3, <1>4, <1>6, ZenonT(60) DEF ZombieListOK
<1>15. /\ pc'[Reaper] \in PopPc => zombie_tail' # node'
       /\ pc'[Reaper] \in {"pop_clear", "destroy"} => zombie_head' # node'
  BY <1>2, <1>6 DEF ZombieListOK, PopPc
<1>16. pc[Reaper] \in {"pop_store", "destroy"} => next'[node] = next[node]
  BY <1>1, <1>4, <1>6, ZenonT(60) DEF ZombieListOK, PopPc
<1>17. /\ pc'[Reaper] = "pop_store" => reg' = next'[node']
       /\ pc'[Reaper] = "destroy" => next'[node'] = NULL
  BY <1>16, ZenonT(60) DEF ZombieListOK
<1> QED
  BY <1>7, <1>8, <1>9, <1>10, <1>11, <1>12, <1>13, <1>14, <1>15, <1>17, ZenonT(60) DEF ZombieListOK

\* What every action that ends in scheduler() has to establish.
LEMMA InvSwitch ==
    ASSUME Inv, NEW st \in [Threads -> Status], NEW q \in Seq(Queued),
           scheduler(st, q), pd' = pd, panicked' = panicked,
           IsInjective(q), Range(q) = {t \in Threads : st[t] = "RUNNABLE"},
           \A t \in Threads : st[t] = "RUNNING" => t = cur_thread,
           st[Idle] = "IDLE", pc[Idle] \notin BootPc, pc'[Idle] = pc[Idle], st[Reaper] # "NONE",
           pc' \in [Threads -> PC], \A t \in Threads : pc'[t] \in PcOf(t),
           \A t \in Threads \ {Idle} :
              /\ st[t] # "IDLE"
              /\ st[t] = "NONE" <=> pc'[t] = "none"
              /\ st[t] = "ZOMBIE" <=> pc'[t] \in {"dead", "gone"}
              /\ st[t] = "SLEEPING" => pc'[t] \in {"user", "yield", "run", "check"},
           wake_at' \in [Threads -> 0..MaxTicks], ticks' \in 0..MaxTicks,
           sleep_que' \in Seq(Tcb), IsInjective(sleep_que'),
           Range(sleep_que') = {t \in Tcb : st[t] = "SLEEPING"},
           \A i, j \in 1..Len(sleep_que') :
              i < j => wake_at'[sleep_que'[i]] <= wake_at'[sleep_que'[j]],
           next' \in [Threads -> Tcb \cup {NULL}],
           zombie_head' \in Tcb \cup {NULL}, zombie_tail' \in Tcb \cup {NULL},
           node' = node, reg' = reg, ZombieListOK',
           zombie_head' # NULL => st[Reaper] # "SLEEPING"
    PROVE  Inv'
<1> USE SchedAssumption
<1>1. TypeOK /\ AddressSpaceOK /\ Reaper \in Threads /\ Idle \in Threads /\ Reaper # Idle
      /\ \A t \in Tcb : t \in Threads /\ t # Idle
  BY ZenonT(60) DEF Inv, Threads
<1>2. cur_thread \in Threads /\ pd \in [Threads -> Tcb \cup {KernelPd}] /\ cr3 = pd[cur_thread]
  BY <1>1 DEF TypeOK, AddressSpaceOK
<1>3. /\ que' \in Seq(Queued) /\ IsInjective(que')
      /\ status' \in [Threads -> Status]
      /\ Range(que') = {t \in Threads : status'[t] = "RUNNABLE"}
      /\ cur_thread' \in Threads /\ tss_esp0' = cur_thread'
      /\ \A t \in Threads : status'[t] = "RUNNING" => t = cur_thread'
      /\ cur_thread' # Idle => status'[cur_thread'] = "RUNNING"
      /\ \A t \in Threads : st[t] \notin {"RUNNING", "RUNNABLE"} => status'[t] = st[t]
      /\ \A t \in Threads : st[t] \in {"RUNNING", "RUNNABLE"}
                               => status'[t] \in {"RUNNING", "RUNNABLE"}
      /\ cr3' = pd[cur_thread'] /\ cr3' \in Tcb \cup {KernelPd}
  BY <1>2, SchedulerFacts, ZenonT(60)
<1>4. \A t \in Threads : \A s \in {"NONE", "IDLE", "ZOMBIE", "SLEEPING"} :
         status'[t] = s <=> st[t] = s
  BY <1>3, ZenonT(60)
<1>5. TypeOK'
  BY <1>1, <1>3, ZenonT(60) DEF TypeOK, Queued
<1>6. RunQueueExact'
  BY <1>3, ZenonT(60) DEF RunQueueExact
<1>7. SleepQueueExact'
  BY <1>1, <1>4, ZenonT(60) DEF SleepQueueExact
<1>8. StatusOK'
  <2>1. CurrentOK'
    BY <1>3, ZenonT(60) DEF CurrentOK
  <2>2. PcStatusOK'
    BY <1>4, ZenonT(60) DEF PcStatusOK
  <2>3. IdleOK'
    BY <1>1, <1>4, ZenonT(60) DEF IdleOK
  <2> QED
    BY <2>1, <2>2, <2>3, ZenonT(60) DEF StatusOK
<1>9. AddressSpaceOK'
  BY <1>3, ZenonT(60) DEF AddressSpaceOK
<1>10. NoLostWakeup'
  BY <1>1, <1>4, ZenonT(60) DEF NoLostWakeup
<1> QED
  BY <1>5, <1>6, <1>7, <1>8, <1>9, <1>10, ZenonT(60) DEF Inv

\* reaper_add makes the running thread a ZOMBIE and queues the reaper if it is
\* not queued already.
LEMMA ReaperAddFacts ==
    ASSUME Inv, NEW z \in Tcb, status[z] = "RUNNING"
    PROVE  /\ ReaperAddStatus(z) \in [Threads -> Status]
           /\ ReaperAddStatus(z)[z] = "ZOMBIE" /\ ReaperAddStatus(z)[Reaper] = "RUNNABLE"
           /\ \A u \in Threads : u # z /\ u # Reaper => ReaperAddStatus(z)[u] = status[u]
           /\ ReaperAddQue \in Seq(Queued) /\ IsInjective(ReaperAddQue)
           /\ Range(ReaperAddQue) = {u \in Threads : ReaperAddStatus(z)[u] = "RUNNABLE"}
<1> USE SchedAssumption
<1>1. /\ status \in [Threads -> Status] /\ que \in Seq(Queued) /\ IsInjective(que)
      /\ Range(que) = {u \in Threads : status[u] = "RUNNABLE"}
      /\ Reaper \in Threads /\ z \in Threads /\ z # Reaper
  BY DEF Inv, TypeOK, RunQueueExact, Queued, Threads
<1> DEFINE st == ReaperAddStatus(z)
<1>2. /\ st \in [Threads -> Status] /\ st[z] = "ZOMBIE" /\ st[Reaper] = "RUNNABLE"
      /\ \A u \in Threads : u # z /\ u # Reaper => st[u] = status[u]
  BY <1>1 DEF ReaperAddStatus, Status
<1> HIDE DEF st
<1>3. ReaperAddQue \in Seq(Queued) /\ IsInjective(ReaperAddQue)
      /\ Range(ReaperAddQue) = Range(que) \cup {Reaper}
  <2>1. CASE status[Reaper] = "RUNNABLE"
    BY <1>1, <2>1 DEF ReaperAddQue
  <2>2. CASE status[Reaper] # "RUNNABLE"
    <3>1. Reaper \in Queued /\ Reaper \notin Range(que) /\ ReaperAddQue = Append(que, Reaper)
      BY <1>1, <2>2 DEF ReaperAddQue, Queued
    <3> QED
      BY <1>1, <3>1, PushBackFacts
  <2> QED
    BY <2>1, <2>2
<1>4. Range(que) \cup {Reaper} = {u \in Threads : st[u] = "RUNNABLE"}
  BY <1>1, <1>2
<1> QED
  BY <1>2, <1>3, <1>4 DEF st

\* A thread of Tcb on the CPU outside the short stretch between an atomic block
\* and scheduler() is RUNNING, and boot is over.
LEMMA RunningFacts ==
    ASSUME Inv, NEW t \in Threads, cur_thread = t, pc[t] \in {"run", "user"}
    PROVE  /\ t \in Tcb /\ t # Idle /\ t # Reaper /\ status[t] = "RUNNING"
           /\ Idle \in Threads /\ Reaper \in Threads /\ \A u \in Tcb : u \in Threads
           /\ status[Idle] = "IDLE" /\ pc[Idle] \notin BootPc /\ status[Reaper] # "NONE"
<1> USE SchedAssumption
<1>1. TypeOK /\ StatusOK
  BY DEF Inv
<1>2. t \in Tcb
  BY <1>1, ZenonT(60) DEF TypeOK, PcOf, BootPc, PopPc, Threads
<1>3. /\ t # Idle /\ t # Reaper /\ Idle \in Threads /\ Reaper \in Threads
      /\ \A u \in Tcb : u \in Threads
  BY <1>2 DEF Threads
<1>4. status[t] = "RUNNING"
  BY <1>1, <1>3 DEF StatusOK, CurrentOK
<1>5. pc[Idle] \notin BootPc
  BY <1>1, <1>3 DEF StatusOK, IdleOK
<1>6. status[Idle] = "IDLE" /\ status[Reaper] # "NONE"
  BY <1>1, <1>5 DEF StatusOK, IdleOK, BootPc
<1> QED
  BY <1>2, <1>3, <1>4, <1>5, <1>6

\* kthread_stub after the payload: reaper_add with the CPU kept.
LEMMA InvKthreadExit ==
    ASSUME Inv, NEW t \in Threads, kthread_exit(t)
    PROVE  Inv'
<1> USE SchedAssumption
<1>1. TypeOK /\ RunQueueExact /\ SleepQueueExact /\ StatusOK /\ AddressSpaceOK
      /\ ZombieListOK /\ NoLostWakeup
  BY DEF Inv
<1>2. /\ cur_thread = t /\ pc[t] = "run" /\ ~panicked
      /\ PushZombie(t) /\ status' = ReaperAddStatus(t) /\ que' = ReaperAddQue
      /\ pc' = [pc EXCEPT ![t] = "dead"]
      /\ pd' = pd /\ wake_at' = wake_at /\ sleep_que' = sleep_que
      /\ cur_thread' = cur_thread /\ cr3' = cr3 /\ tss_esp0' = tss_esp0 /\ ticks' = ticks
      /\ node' = node /\ reg' = reg /\ panicked' = panicked
  BY DEF kthread_exit, At, GoTo, cpuVars, popVars
<1>3. /\ t \in Tcb /\ t # Idle /\ t # Reaper /\ status[t] = "RUNNING"
      /\ Idle \in Threads /\ Reaper \in Threads /\ \A u \in Tcb : u \in Threads
      /\ status[Idle] = "IDLE" /\ pc[Idle] \notin BootPc /\ status[Reaper] # "NONE"
  BY <1>2, RunningFacts
<1>4. /\ status' \in [Threads -> Status]
      /\ status'[t] = "ZOMBIE" /\ status'[Reaper] = "RUNNABLE"
      /\ \A u \in Threads : u # t /\ u # Reaper => status'[u] = status[u]
      /\ que' \in Seq(Queued) /\ IsInjective(que')
      /\ Range(que') = {u \in Threads : status'[u] = "RUNNABLE"}
  BY <1>2, <1>3, ReaperAddFacts
<1>5. pc'[t] = "dead" /\ \A u \in Threads : u # t => pc'[u] = pc[u]
  BY <1>1, <1>2, <1>3, SMTT(60) DEF TypeOK
<1>6. pc[Reaper] \notin {"none", "dead", "gone"}
  BY <1>1, <1>3, ZenonT(60) DEF TypeOK, StatusOK, PcStatusOK, PcOf, PopPc
<1>7. /\ next' \in [Threads -> Tcb \cup {NULL}]
      /\ zombie_head' \in Tcb \cup {NULL} /\ zombie_tail' \in Tcb \cup {NULL}
      /\ ZombieListOK'
  <2>1. \A u \in Threads : status[u] = "ZOMBIE" => status'[u] = "ZOMBIE"
    <3>1. status[Reaper] # "ZOMBIE"
      BY <1>1, <1>3, <1>6 DEF StatusOK, PcStatusOK
    <3> QED
      BY <1>3, <1>4, <3>1, ZenonT(60)
  <2> QED
    BY <1>1, <1>2, <1>3, <1>4, <1>5, <2>1, PushZombieFacts, SMTT(60)
<1>8. TypeOK'
  <2>1. pc' \in [Threads -> PC] /\ \A u \in Threads : pc'[u] \in PcOf(u)
    BY <1>1, <1>2, <1>3, <1>5 DEF TypeOK, PC, PcOf
  <2> QED
    BY <1>1, <1>2, <1>4, <1>7, <2>1, ZenonT(60) DEF TypeOK, Queued
<1>9. RunQueueExact'
  BY <1>4, ZenonT(60) DEF RunQueueExact
<1>10. SleepQueueExact'
  BY <1>1, <1>2, <1>3, <1>4, ZenonT(60) DEF SleepQueueExact
<1>11. StatusOK'
  <2>1. CurrentOK'
    BY <1>1, <1>2, <1>3, <1>4, <1>5 DEF StatusOK, CurrentOK
  <2>2. PcStatusOK'
    BY <1>1, <1>3, <1>4, <1>5, <1>6, ZenonT(60) DEF StatusOK, PcStatusOK
  <2>3. IdleOK'
    BY <1>1, <1>2, <1>3, <1>4, <1>5 DEF StatusOK, IdleOK
  <2> QED
    BY <2>1, <2>2, <2>3 DEF StatusOK
<1>12. AddressSpaceOK'
  BY <1>1, <1>2, <1>3, <1>5, ZenonT(60) DEF AddressSpaceOK
<1>13. NoLostWakeup'
  BY <1>4 DEF NoLostWakeup
<1> QED
  BY <1>7, <1>8, <1>9, <1>10, <1>11, <1>12, <1>13 DEF Inv

\* A call of scheduler() by a kernel thread.
LEMMA InvYield ==
    ASSUME Inv, NEW t \in Threads, yield(t)
    PROVE  Inv'
<1> USE SchedAssumption
<1>1. TypeOK /\ RunQueueExact /\ SleepQueueExact /\ StatusOK /\ AddressSpaceOK
      /\ ZombieListOK /\ NoLostWakeup
  BY DEF Inv
<1>2. /\ cur_thread = t /\ pc[t] \in {"run", "yield", "dead"} /\ scheduler(status, que)
      /\ pd' = pd /\ wake_at' = wake_at /\ sleep_que' = sleep_que /\ ticks' = ticks
      /\ next' = next /\ zombie_head' = zombie_head /\ zombie_tail' = zombie_tail
      /\ node' = node /\ reg' = reg /\ panicked' = panicked
  BY DEF yield, At, zombieVars, popVars
<1>3. PICK l \in {"run", "check", "gone"} :
        /\ pc' = [pc EXCEPT ![t] = l]
        /\ pc[t] = "dead" <=> l = "gone"
        /\ t = Reaper => l = "check"
        /\ t # Reaper => l # "check"
  <2>1. t = Reaper => pc[t] = "yield"
    BY <1>1, <1>2, ZenonT(60) DEF TypeOK, PcOf, PopPc, Threads
  <2> QED
    BY <2>1, SMTT(60) DEF yield, At, GoTo
<1>4. /\ t # Idle /\ Idle \in Threads /\ Reaper \in Threads /\ Reaper # Idle
      /\ \A u \in Tcb : u \in Threads
      /\ pc[Idle] \notin BootPc /\ status[Idle] = "IDLE" /\ status[Reaper] # "NONE"
  <2>1. t # Idle /\ Idle \in Threads /\ Reaper \in Threads
    BY <1>1, <1>2, SMTT(60) DEF TypeOK, PcOf, BootPc, Threads
  <2>2. pc[Idle] \notin BootPc
    BY <1>1, <1>2, <2>1 DEF StatusOK, IdleOK
  <2> QED
    BY <1>1, <2>1, <2>2, ZenonT(60) DEF StatusOK, IdleOK, BootPc, Threads
<1>5. pc'[t] = l /\ \A u \in Threads : u # t => pc'[u] = pc[u]
  BY <1>1, <1>3, SMTT(60) DEF TypeOK
<1>6. /\ pc' \in [Threads -> PC] /\ \A u \in Threads : pc'[u] \in PcOf(u)
      /\ pc'[Idle] = pc[Idle]
  BY <1>1, <1>3, <1>4, <1>5, SMTT(60) DEF TypeOK, PC, PcOf
<1>7. \A u \in Threads \ {Idle} :
         /\ status[u] # "IDLE"
         /\ status[u] = "NONE" <=> pc'[u] = "none"
         /\ status[u] = "ZOMBIE" <=> pc'[u] \in {"dead", "gone"}
         /\ status[u] = "SLEEPING" => pc'[u] \in {"user", "yield", "run", "check"}
  <2> SUFFICES ASSUME NEW u \in Threads \ {Idle}
               PROVE  /\ status[u] # "IDLE"
                      /\ status[u] = "NONE" <=> pc'[u] = "none"
                      /\ status[u] = "ZOMBIE" <=> pc'[u] \in {"dead", "gone"}
                      /\ status[u] = "SLEEPING" => pc'[u] \in {"user", "yield", "run", "check"}
    OBVIOUS
  <2>1. CASE u = t
    BY <1>1, <1>2, <1>3, <1>5, <2>1 DEF StatusOK, PcStatusOK
  <2>2. CASE u # t
    BY <1>1, <1>5, <2>2, ZenonT(60) DEF StatusOK, PcStatusOK
  <2> QED
    BY <2>1, <2>2, SMTT(60)
<1>8. /\ status \in [Threads -> Status] /\ que \in Seq(Queued) /\ IsInjective(que)
      /\ Range(que) = {u \in Threads : status[u] = "RUNNABLE"}
      /\ \A u \in Threads : status[u] = "RUNNING" => u = cur_thread
      /\ wake_at \in [Threads -> 0..MaxTicks] /\ ticks \in 0..MaxTicks
      /\ sleep_que \in Seq(Tcb) /\ IsInjective(sleep_que)
      /\ Range(sleep_que) = {u \in Tcb : status[u] = "SLEEPING"}
      /\ next \in [Threads -> Tcb \cup {NULL}]
      /\ zombie_head \in Tcb \cup {NULL} /\ zombie_tail \in Tcb \cup {NULL}
      /\ cur_thread \in Threads /\ pd \in [Threads -> Tcb \cup {KernelPd}] /\ cr3 = pd[cur_thread]
  BY <1>1 DEF TypeOK, RunQueueExact, SleepQueueExact, StatusOK, CurrentOK, AddressSpaceOK, Queued
<1>9. \A i, j \in 1..Len(sleep_que') :
         i < j => wake_at'[sleep_que'[i]] <= wake_at'[sleep_que'[j]]
  BY <1>1, <1>2, ZenonT(60) DEF SleepQueueExact
<1>10. ZombieListOK'
  <2>1. \A u \in Threads : status[u] = "ZOMBIE" => status'[u] = "ZOMBIE"
    BY <1>2, <1>4, <1>8, SchedulerFacts, ZenonT(60)
  <2>2. \/ pc'[Reaper] = pc[Reaper]
        \/ /\ pc[Reaper] \notin PopPc
           /\ pc'[Reaper] \notin PopPc
           /\ pc'[Reaper] = "pop_head" => zombie_head # NULL
    BY <1>2, <1>3, <1>4, <1>5, SMTT(60) DEF PopPc
  <2> QED
    BY <1>1, <1>2, <2>1, <2>2, ZombieFrame
<1>11. zombie_head' # NULL => status[Reaper] # "SLEEPING"
  BY <1>1, <1>2 DEF NoLostWakeup
<1> QED
  BY <1>2, <1>4, <1>6, <1>7, <1>8, <1>9, <1>10, <1>11, InvSwitch, ZenonT(60)

\* do_exit: reaper_add and scheduler() in one system call.
LEMMA InvDoExit ==
    ASSUME Inv, NEW t \in Threads, do_exit(t)
    PROVE  Inv'
<1> USE SchedAssumption
<1> DEFINE st == ReaperAddStatus(t)
           q  == ReaperAddQue
<1>1. TypeOK /\ RunQueueExact /\ SleepQueueExact /\ StatusOK /\ AddressSpaceOK
      /\ ZombieListOK /\ NoLostWakeup
  BY DEF Inv
<1>2. /\ cur_thread = t /\ pc[t] = "user" /\ ~panicked
      /\ PushZombie(t) /\ scheduler(st, q) /\ pc' = [pc EXCEPT ![t] = "gone"]
      /\ pd' = pd /\ wake_at' = wake_at /\ sleep_que' = sleep_que /\ ticks' = ticks
      /\ node' = node /\ reg' = reg /\ panicked' = panicked
  BY DEF do_exit, At, GoTo, popVars
<1>3. /\ t \in Tcb /\ t # Idle /\ t # Reaper /\ status[t] = "RUNNING"
      /\ Idle \in Threads /\ Reaper \in Threads /\ \A u \in Tcb : u \in Threads
      /\ status[Idle] = "IDLE" /\ pc[Idle] \notin BootPc /\ status[Reaper] # "NONE"
      /\ Idle # Reaper
  BY <1>2, RunningFacts, SMTT(60)
<1>4. /\ st \in [Threads -> Status] /\ st[t] = "ZOMBIE" /\ st[Reaper] = "RUNNABLE"
      /\ \A u \in Threads : u # t /\ u # Reaper => st[u] = status[u]
      /\ q \in Seq(Queued) /\ IsInjective(q)
      /\ Range(q) = {u \in Threads : st[u] = "RUNNABLE"}
  BY <1>3, ReaperAddFacts
<1> HIDE DEF st, q
<1>5. pc'[t] = "gone" /\ \A u \in Threads : u # t => pc'[u] = pc[u]
  BY <1>1, <1>2, <1>3 DEF TypeOK
<1>6. pc[Reaper] \notin {"none", "dead", "gone"} /\ status[Reaper] # "ZOMBIE"
  BY <1>1, <1>3, ZenonT(60) DEF TypeOK, StatusOK, PcStatusOK, PcOf, PopPc
<1>7. /\ pc' \in [Threads -> PC] /\ \A u \in Threads : pc'[u] \in PcOf(u)
      /\ pc'[Idle] = pc[Idle]
  BY <1>1, <1>2, <1>3, <1>5, SMTT(60) DEF TypeOK, PC, PcOf
<1>8. \A u \in Threads \ {Idle} :
         /\ st[u] # "IDLE"
         /\ st[u] = "NONE" <=> pc'[u] = "none"
         /\ st[u] = "ZOMBIE" <=> pc'[u] \in {"dead", "gone"}
         /\ st[u] = "SLEEPING" => pc'[u] \in {"user", "yield", "run", "check"}
  BY <1>1, <1>3, <1>4, <1>5, <1>6, ZenonT(60) DEF StatusOK, PcStatusOK
<1>9. \A u \in Threads : st[u] = "RUNNING" => u = cur_thread
  BY <1>1, <1>4 DEF StatusOK, CurrentOK
<1>10. /\ wake_at \in [Threads -> 0..MaxTicks] /\ ticks \in 0..MaxTicks
       /\ sleep_que \in Seq(Tcb) /\ IsInjective(sleep_que)
       /\ Range(sleep_que) = {u \in Tcb : st[u] = "SLEEPING"}
       /\ cur_thread \in Threads /\ pd \in [Threads -> Tcb \cup {KernelPd}] /\ cr3 = pd[cur_thread]
  <2>1. {u \in Tcb : st[u] = "SLEEPING"} = {u \in Tcb : status[u] = "SLEEPING"}
    BY <1>3, <1>4, ZenonT(60)
  <2> QED
    BY <1>1, <2>1 DEF TypeOK, SleepQueueExact, AddressSpaceOK
<1>11. \A i, j \in 1..Len(sleep_que') :
         i < j => wake_at'[sleep_que'[i]] <= wake_at'[sleep_que'[j]]
  BY <1>1, <1>2, ZenonT(60) DEF SleepQueueExact
<1>12. st[Idle] = "IDLE"
  BY <1>3, <1>4
<1>13. /\ next' \in [Threads -> Tcb \cup {NULL}]
       /\ zombie_head' \in Tcb \cup {NULL} /\ zombie_tail' \in Tcb \cup {NULL}
       /\ ZombieListOK'
  <2>1. \A u \in Threads : st[u] = "ZOMBIE" => status'[u] = "ZOMBIE"
    BY <1>2, <1>4, <1>9, <1>10, <1>12, SchedulerFacts, ZenonT(60)
  <2>2. status'[t] = "ZOMBIE" /\ \A u \in Threads : status[u] = "ZOMBIE" => status'[u] = "ZOMBIE"
    BY <1>3, <1>4, <1>6, <2>1, ZenonT(60)
  <2> QED
    BY <1>1, <1>2, <1>3, <1>5, <2>2, PushZombieFacts, ZenonT(60)
<1> QED
  BY <1>2, <1>3, <1>4, <1>7, <1>8, <1>9, <1>10, <1>11, <1>12, <1>13, InvSwitch, ZenonT(60)

\* do_sleep: thread_sleep, scheduler() included, in one system call.
LEMMA InvDoSleep ==
    ASSUME Inv, NEW t \in Threads, NEW time \in SleepTimes, do_sleep(t, time)
    PROVE  Inv'
<1> USE SchedAssumption
<1> DEFINE st == [status EXCEPT ![t] = "SLEEPING"]
           w  == ticks + time * PitCrystal
<1>1. TypeOK /\ RunQueueExact /\ SleepQueueExact /\ StatusOK /\ AddressSpaceOK
      /\ ZombieListOK /\ NoLostWakeup
  BY DEF Inv
<1>2. /\ cur_thread = t /\ pc[t] = "user" /\ w <= MaxTicks
      /\ wake_at' = [wake_at EXCEPT ![t] = w] /\ list_sorted_push(t, w)
      /\ scheduler(st, que) /\ pd' = pd /\ pc' = pc /\ ticks' = ticks
      /\ next' = next /\ zombie_head' = zombie_head /\ zombie_tail' = zombie_tail
      /\ node' = node /\ reg' = reg /\ panicked' = panicked
  BY DEF do_sleep, At, popVars, zombieVars
<1>3. /\ t \in Tcb /\ t # Idle /\ t # Reaper /\ status[t] = "RUNNING"
      /\ Idle \in Threads /\ Reaper \in Threads /\ \A u \in Tcb : u \in Threads
      /\ status[Idle] = "IDLE" /\ pc[Idle] \notin BootPc /\ status[Reaper] # "NONE"
      /\ Idle # Reaper
  BY <1>2, RunningFacts
<1>4. /\ st \in [Threads -> Status] /\ st[t] = "SLEEPING"
      /\ \A u \in Threads : u # t => st[u] = status[u]
  BY <1>1, <1>3 DEF TypeOK, Status
<1> HIDE DEF st
<1>5. w \in 0..MaxTicks
  <2>1. ticks \in Nat /\ time \in Nat /\ PitCrystal \in Nat
    BY <1>1 DEF TypeOK
  <2>2. time * PitCrystal \in Nat
    BY <2>1
  <2> QED
    BY <1>2, <2>1, <2>2
<1> HIDE DEF w
<1>6. /\ wake_at' \in [Threads -> 0..MaxTicks] /\ wake_at'[t] = w
      /\ \A u \in Threads : u # t => wake_at'[u] = wake_at[u]
  BY <1>1, <1>2, <1>3, <1>5 DEF TypeOK
<1>7. /\ sleep_que' \in Seq(Tcb) /\ IsInjective(sleep_que')
      /\ Range(sleep_que') = Range(sleep_que) \cup {t}
      /\ \A i, j \in 1..Len(sleep_que') :
            i < j => wake_at'[sleep_que'[i]] <= wake_at'[sleep_que'[j]]
  <2>1. t \notin Range(sleep_que)
    BY <1>1, <1>3, ZenonT(60) DEF SleepQueueExact
  <2> QED
    BY <1>1, <1>2, <1>3, <1>5, <1>6, <2>1, SortedPushFacts, ZenonT(60)
<1>8. Range(sleep_que') = {u \in Tcb : st[u] = "SLEEPING"}
  BY <1>1, <1>3, <1>4, <1>7 DEF SleepQueueExact
<1>9. /\ que \in Seq(Queued) /\ IsInjective(que)
      /\ Range(que) = {u \in Threads : st[u] = "RUNNABLE"}
  BY <1>1, <1>3, <1>4, SMTT(60) DEF TypeOK, RunQueueExact, Queued
<1>10. /\ \A u \in Threads : st[u] = "RUNNING" => u = cur_thread
       /\ st[Idle] = "IDLE" /\ st[Reaper] # "NONE"
  BY <1>1, <1>3, <1>4, ZenonT(60) DEF StatusOK, CurrentOK
<1>11. /\ pc' \in [Threads -> PC] /\ \A u \in Threads : pc'[u] \in PcOf(u)
       /\ pc'[Idle] = pc[Idle] /\ ticks' \in 0..MaxTicks
       /\ next' \in [Threads -> Tcb \cup {NULL}]
       /\ zombie_head' \in Tcb \cup {NULL} /\ zombie_tail' \in Tcb \cup {NULL}
       /\ cur_thread \in Threads /\ pd \in [Threads -> Tcb \cup {KernelPd}] /\ cr3 = pd[cur_thread]
  BY <1>1, <1>2 DEF TypeOK, AddressSpaceOK
<1>12. \A u \in Threads \ {Idle} :
          /\ st[u] # "IDLE"
          /\ st[u] = "NONE" <=> pc'[u] = "none"
          /\ st[u] = "ZOMBIE" <=> pc'[u] \in {"dead", "gone"}
          /\ st[u] = "SLEEPING" => pc'[u] \in {"user", "yield", "run", "check"}
  BY <1>1, <1>2, <1>4, ZenonT(60) DEF StatusOK, PcStatusOK
<1>13. ZombieListOK'
  <2>1. \A u \in Threads : st[u] = "ZOMBIE" => status'[u] = "ZOMBIE"
    BY <1>2, <1>4, <1>9, <1>10, <1>11, SchedulerFacts, ZenonT(60)
  <2>2. \A u \in Threads : status[u] = "ZOMBIE" => status'[u] = "ZOMBIE"
    BY <1>3, <1>4, <2>1, ZenonT(60)
  <2> QED
    BY <1>1, <1>2, <2>2, ZombieFrame, SMTT(60)
<1>14. zombie_head' # NULL => st[Reaper] # "SLEEPING"
  BY <1>1, <1>2, <1>3, <1>4, ZenonT(60) DEF NoLostWakeup
<1> QED
  BY <1>2, <1>3, <1>4, <1>6, <1>7, <1>8, <1>9, <1>10, <1>11, <1>12, <1>13, <1>14, InvSwitch, ZenonT(60)

\* The timer interrupt: the due threads move from the front of the sleep queue
\* to the back of the run queue before scheduler() runs.
LEMMA InvTimer == Inv /\ timer => Inv'
<1> SUFFICES ASSUME Inv, timer PROVE Inv'
  OBVIOUS
<1> USE SchedAssumption
<1>1. TypeOK /\ RunQueueExact /\ SleepQueueExact /\ StatusOK /\ AddressSpaceOK
      /\ ZombieListOK /\ NoLostWakeup
  BY DEF Inv
<1>2. /\ ~panicked /\ InterruptsOn /\ ticks' = NextTick /\ wake_up_and_schedule(NextTick)
      /\ pd' = pd /\ wake_at' = wake_at /\ pc' = pc
      /\ next' = next /\ zombie_head' = zombie_head /\ zombie_tail' = zombie_tail
      /\ node' = node /\ reg' = reg /\ panicked' = panicked
  BY SMTT(60) DEF timer, popVars, zombieVars
<1> DEFINE L == Len(sleep_que)
<1>3. PICK n \in 0..L :
        /\ sleep_que' = SubSeq(sleep_que, n + 1, L)
        /\ scheduler([t \in Threads |-> IF \E i \in 1..n : sleep_que[i] = t
                                          THEN "RUNNABLE" ELSE status[t]],
                     que \o SubSeq(sleep_que, 1, n))
  BY <1>2, ZenonT(60) DEF wake_up_and_schedule
<1> DEFINE st == [t \in Threads |-> IF \E i \in 1..n : sleep_que[i] = t
                                      THEN "RUNNABLE" ELSE status[t]]
           a  == SubSeq(sleep_que, 1, n)
           b  == SubSeq(sleep_que, n + 1, L)
           q  == que \o a
<1>4. /\ sleep_que \in Seq(Tcb) /\ L \in Nat /\ n \in 0..Len(sleep_que) /\ IsInjective(sleep_que)
      /\ Range(sleep_que) = {t \in Tcb : status[t] = "SLEEPING"}
  BY <1>1, <1>3 DEF TypeOK, SleepQueueExact
<1>5. /\ a \in Seq(Tcb) /\ IsInjective(a)
      /\ b \in Seq(Tcb) /\ IsInjective(b) /\ Len(b) = L - n
      /\ \A i \in 1..(L - n) : b[i] = sleep_que[n + i]
      /\ Range(sleep_que) = Range(a) \cup Range(b) /\ Range(a) \cap Range(b) = {}
      /\ Range(a) = {sleep_que[i] : i \in 1..n}
  BY <1>4, CutFacts
<1>6. /\ sleep_que' = b /\ scheduler(st, q)
      /\ \A t \in Threads : st[t] = IF t \in Range(a) THEN "RUNNABLE" ELSE status[t]
      /\ st \in [Threads -> Status]
  BY <1>1, <1>3, <1>5, ZenonT(60) DEF TypeOK, Status
<1> HIDE DEF st, a, b
<1>7. /\ \A t \in Threads : t \in Range(a) => st[t] = "RUNNABLE" /\ status[t] = "SLEEPING"
      /\ \A t \in Threads : t \notin Range(a) => st[t] = status[t]
      /\ \A t \in Range(a) : t \in Tcb /\ t \in Threads
      /\ Range(b) = {t \in Tcb : st[t] = "SLEEPING"}
  BY <1>4, <1>5, <1>6, SMTT(60) DEF Threads
<1>8. /\ q \in Seq(Queued) /\ IsInjective(q)
      /\ Range(q) = {t \in Threads : st[t] = "RUNNABLE"}
  <2>1. /\ que \in Seq(Queued) /\ IsInjective(que)
        /\ Range(que) = {t \in Threads : status[t] = "RUNNABLE"}
    BY <1>1 DEF TypeOK, RunQueueExact, Queued
  <2>2. Range(que) \cap Range(a) = {}
    BY <1>7, <2>1, ZenonT(60)
  <2>3. a \in Seq(Queued)
    BY <1>5 DEF Queued
  <2>4. q \in Seq(Queued) /\ IsInjective(q) /\ Range(q) = Range(que) \cup Range(a)
    <3>1. IsInjective(a) /\ q = que \o a
      BY <1>5
    <3>2. /\ que \o a \in Seq(Queued)
          /\ Range(que \o a) = Range(que) \cup Range(a)
      BY ONLY <2>1, <2>3, ConcatFacts
    <3>3. IsInjective(que \o a)
      BY ONLY <2>1, <2>2, <2>3, <3>1, ConcatFacts
    <3> QED
      BY ONLY <3>1, <3>2, <3>3
  <2> HIDE DEF q
  <2> QED
    BY <1>7, <2>1, <2>4
<1> HIDE DEF q
<1>9. /\ Idle \in Threads /\ Reaper \in Threads /\ Idle # Reaper
      /\ pc[Idle] \notin BootPc /\ status[Idle] = "IDLE" /\ status[Reaper] # "NONE"
      /\ Idle \notin Range(a) /\ Reaper \notin Range(a)
  <2>1. pc[Idle] \notin BootPc
    BY <1>1, <1>2, SMTT(60) DEF InterruptsOn, StatusOK, IdleOK
  <2> QED
    BY <1>1, <1>7, <2>1 DEF StatusOK, IdleOK, BootPc, Threads
<1>10. /\ \A t \in Threads : st[t] = "RUNNING" => t = cur_thread
       /\ st[Idle] = "IDLE" /\ st[Reaper] # "NONE"
  BY <1>1, <1>7, <1>9 DEF StatusOK, CurrentOK
<1>11. \A t \in Threads \ {Idle} :
          /\ st[t] # "IDLE"
          /\ st[t] = "NONE" <=> pc'[t] = "none"
          /\ st[t] = "ZOMBIE" <=> pc'[t] \in {"dead", "gone"}
          /\ st[t] = "SLEEPING" => pc'[t] \in {"user", "yield", "run", "check"}
  BY <1>1, <1>2, <1>7 DEF StatusOK, PcStatusOK
<1>12. /\ pc' \in [Threads -> PC] /\ \A u \in Threads : pc'[u] \in PcOf(u)
       /\ pc'[Idle] = pc[Idle]
       /\ wake_at' \in [Threads -> 0..MaxTicks]
       /\ next' \in [Threads -> Tcb \cup {NULL}]
       /\ zombie_head' \in Tcb \cup {NULL} /\ zombie_tail' \in Tcb \cup {NULL}
       /\ cur_thread \in Threads /\ pd \in [Threads -> Tcb \cup {KernelPd}] /\ cr3 = pd[cur_thread]
  BY <1>1, <1>2 DEF TypeOK, AddressSpaceOK
<1>13. ticks' \in 0..MaxTicks
  BY <1>1, <1>2 DEF TypeOK, NextTick
<1>14. \A i, j \in 1..Len(sleep_que') :
          i < j => wake_at'[sleep_que'[i]] <= wake_at'[sleep_que'[j]]
  <2> SUFFICES ASSUME NEW i \in 1..(L - n), NEW j \in 1..(L - n), i < j
               PROVE  wake_at[b[i]] <= wake_at[b[j]]
    BY <1>2, <1>5, <1>6
  <2>1. n + i \in 1..L /\ n + j \in 1..L /\ n + i < n + j
    BY <1>4
  <2>2. b[i] = sleep_que[n + i] /\ b[j] = sleep_que[n + j]
    BY <1>5
  <2> QED
    BY <1>1, <2>1, <2>2, SMTT(60) DEF SleepQueueExact
<1>15. ZombieListOK'
  <2>1. \A t \in Threads : st[t] = "ZOMBIE" => status'[t] = "ZOMBIE"
    BY <1>6, <1>8, <1>10, <1>12, SchedulerFacts, ZenonT(60)
  <2>2. \A t \in Threads : status[t] = "ZOMBIE" => status'[t] = "ZOMBIE"
    BY <1>7, <2>1, ZenonT(60)
  <2> QED
    BY <1>1, <1>2, <2>2, ZombieFrame
<1>16. zombie_head' # NULL => st[Reaper] # "SLEEPING"
  BY <1>1, <1>2, <1>7, <1>9, ZenonT(60) DEF NoLostWakeup
<1>17. sleep_que' \in Seq(Tcb) /\ IsInjective(sleep_que')
       /\ Range(sleep_que') = {t \in Tcb : st[t] = "SLEEPING"}
  BY <1>5, <1>6, <1>7, ZenonT(60)
<1> QED
  BY <1>2, <1>6, <1>8, <1>9, <1>10, <1>11, <1>12, <1>13, <1>14, <1>15, <1>16, <1>17, InvSwitch, ZenonT(60)
===============================================================================
