---------------------------- MODULE SchedInvReaper ----------------------------
(***************************************************************************)
(* The inductive invariant of Sched, and that it holds at boot and is kept *)
(* by every step of the reaper.                                            *)
(***************************************************************************)
EXTENDS Sched, SeqFacts

Queued == Tcb \cup {Reaper}

\* The inductive invariant.  No conjunct is inductive alone: the queues need the
\* statuses, the statuses the program counters, the reaper both.
Inv ==
    /\ TypeOK
    /\ RunQueueExact
    /\ SleepQueueExact
    /\ StatusOK
    /\ AddressSpaceOK
    /\ ZombieListOK
    /\ NoLostWakeup

\* scheduler() keeps the run queue exact and gives the CPU to a thread it marks
\* RUNNING, or to the idle thread when nobody is RUNNABLE; threads that are
\* neither RUNNING nor RUNNABLE are left alone.
LEMMA SchedulerFacts ==
    ASSUME NEW st \in [Threads -> Status], NEW q \in Seq(Queued),
           IsInjective(q), Range(q) = {t \in Threads : st[t] = "RUNNABLE"},
           cur_thread \in Threads,
           \A t \in Threads : st[t] = "RUNNING" => t = cur_thread,
           st[Idle] = "IDLE",
           pd \in [Threads -> Tcb \cup {KernelPd}], cr3 = pd[cur_thread],
           scheduler(st, q)
    PROVE  /\ que' \in Seq(Queued) /\ IsInjective(que')
           /\ status' \in [Threads -> Status]
           /\ Range(que') = {t \in Threads : status'[t] = "RUNNABLE"}
           /\ cur_thread' \in Threads /\ tss_esp0' = cur_thread'
           /\ \A t \in Threads : status'[t] = "RUNNING" => t = cur_thread'
           /\ cur_thread' # Idle => status'[cur_thread'] = "RUNNING"
           /\ \A t \in Threads : st[t] \notin {"RUNNING", "RUNNABLE"} => status'[t] = st[t]
           /\ \A t \in Threads : st[t] \in {"RUNNING", "RUNNABLE"}
                                    => status'[t] \in {"RUNNING", "RUNNABLE"}
           /\ cr3' = pd[cur_thread'] /\ cr3' \in Tcb \cup {KernelPd}
<1> USE SchedAssumption
<1> DEFINE running == st[cur_thread] = "RUNNING"
           ready   == IF running THEN Append(q, cur_thread) ELSE q
           st1     == IF running THEN [st EXCEPT ![cur_thread] = "RUNNABLE"] ELSE st
           new     == IF ready # <<>> THEN Head(ready) ELSE Idle
           rest    == IF ready # <<>> THEN Tail(ready) ELSE ready
<1>1. /\ que' = rest /\ cur_thread' = new /\ tss_esp0' = new
      /\ status' = IF new # Idle THEN [st1 EXCEPT ![new] = "RUNNING"] ELSE st1
      /\ cr3' = IF pd[new] # pd[cur_thread] THEN pd[new] ELSE cr3
  BY DEF scheduler, switch_to
<1>2. /\ ready \in Seq(Queued) /\ IsInjective(ready)
      /\ st1 \in [Threads -> Status]
      /\ Range(ready) = {t \in Threads : st1[t] = "RUNNABLE"}
      /\ \A t \in Threads : st1[t] # "RUNNING"
      /\ \A t \in Threads : st[t] \notin {"RUNNING", "RUNNABLE"} => st1[t] = st[t]
      /\ \A t \in Threads : st[t] \in {"RUNNING", "RUNNABLE"} => st1[t] = "RUNNABLE"
  <2>1. CASE running
    <3>1. cur_thread \in Queued /\ cur_thread \notin Range(q)
      BY <2>1 DEF Threads, Queued
    <3>2. ready \in Seq(Queued) /\ IsInjective(ready) /\ Range(ready) = Range(q) \cup {cur_thread}
      BY <2>1, <3>1, PushBackFacts
    <3> QED
      BY <2>1, <3>1, <3>2 DEF Status
  <2>2. CASE ~running
    BY <2>2
  <2> QED
    BY <2>1, <2>2
<1> HIDE DEF ready, st1, running
<1>3. CASE ready # <<>>
  <2>1. /\ new = Head(ready) /\ rest = Tail(ready)
        /\ new \in Queued /\ new \in Range(ready)
        /\ rest \in Seq(Queued) /\ IsInjective(rest)
        /\ Range(rest) = Range(ready) \ {new}
    BY <1>2, <1>3, PopFrontFacts
  <2> HIDE DEF new, rest
  <2>2. new \in Threads /\ new # Idle /\ st1[new] = "RUNNABLE"
    BY <2>1, <1>2 DEF Threads, Queued
  <2>3. status' = [st1 EXCEPT ![new] = "RUNNING"]
    BY <1>1, <2>2
  <2>4. status' \in [Threads -> Status] /\ status'[new] = "RUNNING"
        /\ \A t \in Threads : t # new => status'[t] = st1[t]
    BY <1>2, <2>2, <2>3 DEF Status
  <2>5. Range(rest) = {t \in Threads : status'[t] = "RUNNABLE"}
    BY <1>2, <2>1, <2>2, <2>4
  <2>6. cr3' = pd[new] /\ cr3' \in Tcb \cup {KernelPd}
    BY <1>1, <2>2
  <2> QED
    BY <1>1, <1>2, <2>1, <2>2, <2>4, <2>5, <2>6
<1>4. CASE ready = <<>>
  <2>1. new = Idle /\ rest = ready /\ status' = st1
    BY <1>1, <1>4
  <2> HIDE DEF new, rest
  <2> QED
    BY <1>1, <1>2, <2>1 DEF Threads
<1> QED
  BY <1>3, <1>4

\* The state kmain leaves when it reaches init_reaper() satisfies Inv.
LEMMA InvInit == Init => Inv
<1> USE SchedAssumption
<1> SUFFICES ASSUME Init PROVE Inv
  OBVIOUS
<1>1. TypeOK
  <2>1. /\ status \in [Threads -> Status] /\ pd \in [Threads -> Tcb \cup {KernelPd}]
        /\ next \in [Threads -> Tcb \cup {NULL}]
    BY DEF Init, Status
  <2>2. wake_at \in [Threads -> 0..MaxTicks] /\ ticks \in 0..MaxTicks
    BY DEF Init
  <2>3. pc \in [Threads -> PC] /\ \A t \in Threads : pc[t] \in PcOf(t)
    BY DEF Init, PcOf, PC, BootPc
  <2>4. que \in Seq(Tcb \cup {Reaper}) /\ sleep_que \in Seq(Tcb)
    BY DEF Init
  <2> QED
    BY <2>1, <2>2, <2>3, <2>4, ZenonT(60) DEF Init, TypeOK, Threads
<1>2. RunQueueExact /\ SleepQueueExact
  <2>1. que = <<>> /\ sleep_que = <<>>
    BY DEF Init
  <2>2. Range(<<>>) = {} /\ IsInjective(<<>>) /\ Len(<<>>) = 0
    BY DEF Range, IsInjective
  <2> QED
    BY <2>1, <2>2 DEF RunQueueExact, SleepQueueExact, Init, Threads
<1>3. StatusOK
  BY DEF Init, StatusOK, CurrentOK, PcStatusOK, IdleOK, Threads, BootPc
<1>4. AddressSpaceOK /\ ZombieListOK /\ NoLostWakeup
  BY DEF Init, AddressSpaceOK, ZombieListOK, NoLostWakeup, Threads, PopPc
<1> QED
  BY <1>1, <1>2, <1>3, <1>4 DEF Inv

\* The reaper's own steps inside list_pop_front touch neither the queues of the
\* scheduler nor any status.
LEMMA PopStepFacts ==
    ASSUME Inv, NEW from \in PopPc \cup {"pop_head"}, NEW to \in PopPc, PopStep(from, to),
           next' \in [Threads -> Tcb \cup {NULL}],
           zombie_head' \in Tcb \cup {NULL}, zombie_tail' \in Tcb \cup {NULL},
           node' \in Tcb \cup {NULL}, reg' \in Tcb \cup {NULL}, panicked' \in BOOLEAN
    PROVE  /\ TypeOK' /\ RunQueueExact' /\ SleepQueueExact' /\ StatusOK'
           /\ AddressSpaceOK' /\ NoLostWakeup'
           /\ pc'[Reaper] = to /\ pc[Reaper] = from /\ ~panicked /\ status' = status
           /\ Reaper \in Threads
<1> USE SchedAssumption DEF PopStep, At, GoTo, cpuVars
<1>1. /\ status' = status /\ pd' = pd /\ wake_at' = wake_at /\ que' = que
      /\ sleep_que' = sleep_que /\ cur_thread' = cur_thread /\ cr3' = cr3
      /\ tss_esp0' = tss_esp0 /\ ticks' = ticks
      /\ cur_thread = Reaper /\ pc[Reaper] = from /\ ~panicked
      /\ pc' = [pc EXCEPT ![Reaper] = to]
  OBVIOUS
<1> HIDE DEF PopStep, At, GoTo, cpuVars
<1>2. TypeOK /\ RunQueueExact /\ SleepQueueExact /\ StatusOK /\ AddressSpaceOK
      /\ Reaper \in Threads
  BY DEF Inv, Threads
<1>3. TypeOK'
  BY <1>1, <1>2 DEF TypeOK, PcOf, PC
<1>4. RunQueueExact' /\ SleepQueueExact'
  BY <1>1, <1>2 DEF RunQueueExact, SleepQueueExact
<1>5. pc'[Reaper] = to /\ \A t \in Threads \ {Reaper} : pc'[t] = pc[t]
  BY <1>1, <1>2 DEF TypeOK
<1>6. StatusOK'
  <2>1. status[Reaper] = "RUNNING"
    BY <1>1, <1>2 DEF StatusOK, CurrentOK, PcStatusOK, IdleOK, PopPc
  <2>2. pc'[Idle] = pc[Idle] /\ to \notin {"none", "dead", "gone"}
    BY <1>5 DEF PopPc, Threads
  <2>3. PcStatusOK'
    BY <1>1, <1>2, <1>5, <2>1, <2>2 DEF StatusOK, CurrentOK, PcStatusOK, IdleOK
  <2> QED
    BY <1>1, <1>2, <2>1, <2>2, <2>3 DEF StatusOK, CurrentOK, PcStatusOK, IdleOK
<1>7. AddressSpaceOK'
  BY <1>1, <1>2, <1>5 DEF AddressSpaceOK, PopPc
<1>8. status[Reaper] # "SLEEPING"
  BY <1>1, <1>2 DEF StatusOK, CurrentOK, PcStatusOK, IdleOK, PopPc
<1>9. NoLostWakeup'
  BY <1>1, <1>8 DEF NoLostWakeup
<1> QED
  BY <1>1, <1>2, <1>3, <1>4, <1>5, <1>6, <1>7, <1>9

\* node = zombie_que.head: nothing else leads to the head, and the head is there
\* because reaper_main saw it and only the reaper takes it away.
LEMMA InvPopHead == Inv /\ pop_head => Inv'
<1> SUFFICES ASSUME Inv, pop_head PROVE Inv'
  OBVIOUS
<1> USE SchedAssumption
<1>1. TypeOK /\ ZombieListOK
  BY DEF Inv
<1>2. /\ PopStep("pop_head", "pop_cmp") /\ node' = zombie_head
      /\ panicked' = (zombie_head = NULL) /\ next' = next /\ reg' = reg
      /\ zombie_head' = zombie_head /\ zombie_tail' = zombie_tail
  BY DEF pop_head, zombieVars
<1>3. /\ TypeOK' /\ RunQueueExact' /\ SleepQueueExact' /\ StatusOK'
      /\ AddressSpaceOK' /\ NoLostWakeup'
      /\ pc'[Reaper] = "pop_cmp" /\ pc[Reaper] = "pop_head" /\ ~panicked /\ status' = status
  <2>1. "pop_head" \in PopPc \cup {"pop_head"} /\ "pop_cmp" \in PopPc /\ PopStep("pop_head", "pop_cmp")
    BY <1>2 DEF PopPc
  <2>2. /\ next' \in [Threads -> Tcb \cup {NULL}] /\ panicked' \in BOOLEAN
        /\ {zombie_head', zombie_tail', node', reg'} \subseteq Tcb \cup {NULL}
    BY <1>1, <1>2 DEF TypeOK
  <2> QED
    BY <2>1, <2>2, PopStepFacts
<1>4. ZombieListOK'
  BY <1>1, <1>2, <1>3 DEF ZombieListOK, PopPc, TypeOK
<1> QED
  BY <1>3, <1>4 DEF Inv

\* The comparison of head and tail decides which branch comes next.
LEMMA InvPopCmp == Inv /\ pop_cmp => Inv'
<1> SUFFICES ASSUME Inv, pop_cmp PROVE Inv'
  OBVIOUS
<1> USE SchedAssumption
<1>1. TypeOK /\ ZombieListOK
  BY DEF Inv
<1>2. PICK to \in {"pop_prev", "pop_tail"} :
      /\ PopStep("pop_cmp", to) /\ node' = node
      /\ panicked' = panicked /\ next' = next /\ reg' = reg
      /\ zombie_head' = zombie_head /\ zombie_tail' = zombie_tail
  BY DEF pop_cmp, zombieVars, popVars
<1>3. /\ TypeOK' /\ RunQueueExact' /\ SleepQueueExact' /\ StatusOK'
      /\ AddressSpaceOK' /\ NoLostWakeup'
      /\ pc'[Reaper] = to /\ pc[Reaper] = "pop_cmp" /\ ~panicked /\ status' = status
  <2>1. "pop_cmp" \in PopPc \cup {"pop_head"} /\ to \in PopPc /\ PopStep("pop_cmp", to)
    BY <1>2 DEF PopPc
  <2>2. /\ next' \in [Threads -> Tcb \cup {NULL}] /\ panicked' \in BOOLEAN
        /\ {zombie_head', zombie_tail', node', reg'} \subseteq Tcb \cup {NULL}
    BY <1>1, <1>2 DEF TypeOK
  <2> QED
    BY <2>1, <2>2, PopStepFacts
<1>4. ZombieListOK'
  BY <1>1, <1>2, <1>3, SMTT(60) DEF ZombieListOK, PopPc, TypeOK
<1> QED
  BY <1>3, <1>4 DEF Inv

\* node->next->prev = NULL gets past the fault only if node has a successor,
\* hence is not the tail.
LEMMA InvPopPrev == Inv /\ pop_prev => Inv'
<1> SUFFICES ASSUME Inv, pop_prev PROVE Inv'
  OBVIOUS
<1> USE SchedAssumption
<1>1. TypeOK /\ ZombieListOK
  BY DEF Inv
<1>2. /\ PopStep("pop_prev", "pop_load") /\ node' = node
      /\ panicked' = (next[node] = NULL) /\ next' = next /\ reg' = reg
      /\ zombie_head' = zombie_head /\ zombie_tail' = zombie_tail
  BY DEF pop_prev, zombieVars, popVars
<1>3. /\ TypeOK' /\ RunQueueExact' /\ SleepQueueExact' /\ StatusOK'
      /\ AddressSpaceOK' /\ NoLostWakeup'
      /\ pc'[Reaper] = "pop_load" /\ pc[Reaper] = "pop_prev" /\ ~panicked /\ status' = status
  <2>1. "pop_prev" \in PopPc \cup {"pop_head"} /\ "pop_load" \in PopPc /\ PopStep("pop_prev", "pop_load")
    BY <1>2 DEF PopPc
  <2>2. /\ next' \in [Threads -> Tcb \cup {NULL}] /\ panicked' \in BOOLEAN
        /\ {zombie_head', zombie_tail', node', reg'} \subseteq Tcb \cup {NULL}
    BY <1>1, <1>2 DEF TypeOK
  <2> QED
    BY <2>1, <2>2, PopStepFacts
<1>4. ~panicked' => zombie_tail' # node'
  BY <1>1, <1>2, <1>3, ZenonT(60) DEF ZombieListOK, PopPc
<1>5. ZombieListOK'
  BY <1>1, <1>2, <1>3, <1>4 DEF ZombieListOK, PopPc, TypeOK
<1> QED
  BY <1>3, <1>5 DEF Inv

\* tail = NULL.
LEMMA InvPopTail == Inv /\ pop_tail => Inv'
<1> SUFFICES ASSUME Inv, pop_tail PROVE Inv'
  OBVIOUS
<1> USE SchedAssumption
<1>1. TypeOK /\ ZombieListOK
  BY DEF Inv
<1>2. /\ PopStep("pop_tail", "pop_load") /\ node' = node
      /\ panicked' = panicked /\ next' = next /\ reg' = reg
      /\ zombie_head' = zombie_head /\ zombie_tail' = NULL
  BY DEF pop_tail, popVars
<1>3. /\ TypeOK' /\ RunQueueExact' /\ SleepQueueExact' /\ StatusOK'
      /\ AddressSpaceOK' /\ NoLostWakeup'
      /\ pc'[Reaper] = "pop_load" /\ pc[Reaper] = "pop_tail" /\ ~panicked /\ status' = status
  <2>1. "pop_tail" \in PopPc \cup {"pop_head"} /\ "pop_load" \in PopPc /\ PopStep("pop_tail", "pop_load")
    BY <1>2 DEF PopPc
  <2>2. /\ next' \in [Threads -> Tcb \cup {NULL}] /\ panicked' \in BOOLEAN
        /\ {zombie_head', zombie_tail', node', reg'} \subseteq Tcb \cup {NULL}
    BY <1>1, <1>2 DEF TypeOK
  <2> QED
    BY <2>1, <2>2, PopStepFacts
<1>4. ZombieListOK'
  BY <1>1, <1>2, <1>3 DEF ZombieListOK, PopPc, TypeOK
<1> QED
  BY <1>3, <1>4 DEF Inv

\* The load of node->next.
LEMMA InvPopLoad == Inv /\ pop_load => Inv'
<1> SUFFICES ASSUME Inv, pop_load PROVE Inv'
  OBVIOUS
<1> USE SchedAssumption
<1>1. TypeOK /\ ZombieListOK
  BY DEF Inv
<1>2. /\ PopStep("pop_load", "pop_store") /\ node' = node
      /\ panicked' = panicked /\ next' = next /\ reg' = next[node]
      /\ zombie_head' = zombie_head /\ zombie_tail' = zombie_tail
  BY DEF pop_load, zombieVars
<1>3. pc[Reaper] = "pop_load"
  BY <1>2 DEF PopStep, At
<1>4. node \in Threads /\ next[node] \in Tcb \cup {NULL}
  BY <1>1, <1>3, SMTT(60) DEF ZombieListOK, PopPc, TypeOK, Threads
<1>5. /\ TypeOK' /\ RunQueueExact' /\ SleepQueueExact' /\ StatusOK'
      /\ AddressSpaceOK' /\ NoLostWakeup'
      /\ pc'[Reaper] = "pop_store" /\ ~panicked /\ status' = status
  <2>1. "pop_load" \in PopPc \cup {"pop_head"} /\ "pop_store" \in PopPc /\ PopStep("pop_load", "pop_store")
    BY <1>2 DEF PopPc
  <2>2. /\ next' \in [Threads -> Tcb \cup {NULL}] /\ panicked' \in BOOLEAN
        /\ {zombie_head', zombie_tail', node', reg'} \subseteq Tcb \cup {NULL}
    BY <1>1, <1>2, <1>4 DEF TypeOK
  <2> QED
    BY <2>1, <2>2, PopStepFacts
<1>6. ZombieListOK'
  BY <1>1, <1>2, <1>3, <1>4, <1>5, SMTT(60) DEF ZombieListOK, PopPc, TypeOK
<1> QED
  BY <1>5, <1>6 DEF Inv

\* head = the successor loaded before: no other zombie leads to it.
LEMMA InvPopStore == Inv /\ pop_store => Inv'
<1> SUFFICES ASSUME Inv, pop_store PROVE Inv'
  OBVIOUS
<1> USE SchedAssumption
<1>1. TypeOK /\ ZombieListOK
  BY DEF Inv
<1>2. /\ PopStep("pop_store", "pop_clear") /\ node' = node
      /\ panicked' = panicked /\ next' = next /\ reg' = reg
      /\ zombie_head' = reg /\ zombie_tail' = zombie_tail
  BY SMTT(60) DEF pop_store, popVars
<1>3. /\ TypeOK' /\ RunQueueExact' /\ SleepQueueExact' /\ StatusOK'
      /\ AddressSpaceOK' /\ NoLostWakeup'
      /\ pc'[Reaper] = "pop_clear" /\ pc[Reaper] = "pop_store" /\ ~panicked /\ status' = status
  <2>1. "pop_store" \in PopPc \cup {"pop_head"} /\ "pop_clear" \in PopPc /\ PopStep("pop_store", "pop_clear")
    BY <1>2 DEF PopPc
  <2>2. /\ next' \in [Threads -> Tcb \cup {NULL}] /\ panicked' \in BOOLEAN
        /\ {zombie_head', zombie_tail', node', reg'} \subseteq Tcb \cup {NULL}
    BY <1>1, <1>2 DEF TypeOK
  <2> QED
    BY <2>1, <2>2, PopStepFacts
<1>4. node \in Threads /\ reg = next[node] /\ reg # node
  BY <1>1, <1>3 DEF ZombieListOK, PopPc, TypeOK, Threads
<1>5. ZombieListOK'
  BY <1>1, <1>2, <1>3, <1>4 DEF ZombieListOK, PopPc, TypeOK
<1> QED
  BY <1>3, <1>5 DEF Inv

\* node->next = NULL: node is no longer linked to the queue in any way.
LEMMA InvPopClear == Inv /\ pop_clear => Inv'
<1> SUFFICES ASSUME Inv, pop_clear PROVE Inv'
  OBVIOUS
<1> USE SchedAssumption
<1>1. TypeOK /\ ZombieListOK
  BY DEF Inv
<1>2. /\ PopStep("pop_clear", "destroy") /\ node' = node
      /\ panicked' = panicked /\ next' = [next EXCEPT ![node] = NULL] /\ reg' = reg
      /\ zombie_head' = zombie_head /\ zombie_tail' = zombie_tail
  BY DEF pop_clear, popVars
<1>3. next' \in [Threads -> Tcb \cup {NULL}]
  BY <1>1, <1>2, ZenonT(60) DEF TypeOK
<1>4. /\ TypeOK' /\ RunQueueExact' /\ SleepQueueExact' /\ StatusOK'
      /\ AddressSpaceOK' /\ NoLostWakeup'
      /\ pc'[Reaper] = "destroy" /\ pc[Reaper] = "pop_clear" /\ ~panicked /\ status' = status
  <2>1. /\ "pop_clear" \in PopPc \cup {"pop_head"} /\ "destroy" \in PopPc
        /\ PopStep("pop_clear", "destroy")
    BY <1>2 DEF PopPc
  <2>2. {zombie_head', zombie_tail', node', reg'} \subseteq Tcb \cup {NULL} /\ panicked' \in BOOLEAN
    BY <1>1, <1>2 DEF TypeOK
  <2> QED
    BY <1>3, <2>1, <2>2, PopStepFacts
<1>5. /\ node \in Threads /\ next'[node] = NULL
      /\ \A u \in Threads : u # node => next'[u] = next[u]
  <2>1. node \in Tcb \cup {NULL} /\ node # NULL /\ next \in [Threads -> Tcb \cup {NULL}]
    BY <1>1, <1>4 DEF ZombieListOK, PopPc, TypeOK
  <2>2. node \in Threads
    BY ONLY <2>1 DEF Threads
  <2> QED
    BY ONLY <1>2, <2>1, <2>2
<1>6. ZombieListOK'
  <2>1. zombie_tail \in Threads \cup {NULL} /\ NULL \notin Threads
    BY <1>1 DEF TypeOK, Threads
  <2>2. /\ \A u \in Threads : next'[u] # NULL => next'[u] = next[u]
        /\ \A u \in Threads : next'[u] # node
    BY <1>1, <1>4, <1>5 DEF ZombieListOK, PopPc
  <2> QED
    BY <1>1, <1>2, <1>4, <1>5, <2>1, <2>2 DEF ZombieListOK, PopPc
<1> QED
  BY <1>4, <1>6 DEF Inv

\* destroy_thread of a process whose stack's address makes pmm_free fault stops the
\* kernel and changes nothing else.
LEMMA InvDestroyFault == Inv /\ destroy_thread /\ panicked' => Inv'
<1> SUFFICES ASSUME Inv, destroy_thread, panicked' PROVE Inv'
  OBVIOUS
<1>1. TypeOK /\ RunQueueExact /\ SleepQueueExact /\ StatusOK /\ AddressSpaceOK
      /\ ZombieListOK /\ NoLostWakeup
  BY DEF Inv
<1>2. /\ status' = status /\ pd' = pd /\ wake_at' = wake_at /\ pc' = pc
      /\ node' = node /\ reg' = reg /\ que' = que /\ sleep_que' = sleep_que
      /\ cur_thread' = cur_thread /\ cr3' = cr3 /\ tss_esp0' = tss_esp0
      /\ ticks' = ticks /\ next' = next /\ zombie_head' = zombie_head
      /\ zombie_tail' = zombie_tail /\ panicked' = TRUE
  BY Zenon DEF destroy_thread, At, threadVars, popVars, cpuVars, zombieVars
<1>3. TypeOK'
  BY <1>1, <1>2, ZenonT(60) DEF TypeOK
<1>4. RunQueueExact' /\ SleepQueueExact' /\ NoLostWakeup' /\ AddressSpaceOK'
  BY <1>1, <1>2, ZenonT(60) DEF RunQueueExact, SleepQueueExact, NoLostWakeup, AddressSpaceOK
<1>5. StatusOK'
  BY <1>1, <1>2, ZenonT(60) DEF StatusOK, CurrentOK, PcStatusOK, IdleOK
<1>6. ZombieListOK'
  BY <1>1, <1>2, ZenonT(60) DEF ZombieListOK
<1> QED
  BY <1>3, <1>4, <1>5, <1>6 DEF Inv

\* destroy_thread frees a zombie nothing leads to.
LEMMA InvDestroy == Inv /\ destroy_thread => Inv'
<1> SUFFICES ASSUME Inv, destroy_thread, ~panicked' PROVE Inv'
  BY InvDestroyFault
<1> USE SchedAssumption
<1>1. TypeOK /\ RunQueueExact /\ SleepQueueExact /\ StatusOK /\ AddressSpaceOK
      /\ ZombieListOK /\ NoLostWakeup
  BY DEF Inv
<1>2. /\ cur_thread = Reaper /\ pc[Reaper] = "destroy" /\ ~panicked
      /\ status' = [status EXCEPT ![node] = "NONE"]
      /\ pd' = [pd EXCEPT ![node] = KernelPd]
      /\ wake_at' = [wake_at EXCEPT ![node] = 0]
      /\ pc' = [pc EXCEPT ![node] = "none", ![Reaper] = "check"]
      /\ node' = NULL /\ reg' = NULL /\ que' = que /\ sleep_que' = sleep_que
      /\ cur_thread' = cur_thread /\ cr3' = cr3 /\ tss_esp0' = tss_esp0
      /\ ticks' = ticks /\ next' = next /\ zombie_head' = zombie_head
      /\ zombie_tail' = zombie_tail /\ panicked' = panicked
  BY DEF destroy_thread, At, cpuVars, zombieVars
<1>3. /\ node \in Tcb /\ node # Reaper /\ node # Idle /\ node # NULL
      /\ node \in Threads /\ Reaper \in Threads /\ Idle \in Threads
      /\ status[node] = "ZOMBIE" /\ node # zombie_head /\ node # zombie_tail
      /\ next[node] = NULL /\ \A u \in Threads : next[u] # node
  BY <1>1, <1>2 DEF ZombieListOK, PopPc, TypeOK, Threads
<1>4. /\ status'[node] = "NONE" /\ \A t \in Threads : t # node => status'[t] = status[t]
      /\ pc'[node] = "none" /\ pc'[Reaper] = "check"
      /\ \A t \in Threads : t # node /\ t # Reaper => pc'[t] = pc[t]
      /\ \A t \in Threads : t # node => wake_at'[t] = wake_at[t]
      /\ pd'[Reaper] = pd[Reaper]
  BY <1>1, <1>2, <1>3 DEF TypeOK
<1>5. TypeOK'
  <2>1. status' \in [Threads -> Status] /\ pd' \in [Threads -> Tcb \cup {KernelPd}]
    BY <1>1, <1>2, ZenonT(60) DEF TypeOK, Status
  <2>3. wake_at' \in [Threads -> 0..MaxTicks]
    <3>1. 0 \in 0..MaxTicks
      OBVIOUS
    <3> QED
      BY <1>1, <1>2, <3>1, ZenonT(60) DEF TypeOK
  <2>2. pc' \in [Threads -> PC] /\ \A t \in Threads : pc'[t] \in PcOf(t)
    BY <1>1, <1>2, <1>3, <1>4, ZenonT(60) DEF TypeOK, PC, PcOf
  <2> QED
    BY <1>1, <1>2, <2>1, <2>2, <2>3, ZenonT(60) DEF TypeOK
<1>6. RunQueueExact'
  BY <1>1, <1>2, <1>3, <1>4 DEF RunQueueExact
<1>7. SleepQueueExact'
  <2>1. \A i \in 1..Len(sleep_que) : sleep_que[i] \in Range(sleep_que)
    BY <1>1 DEF TypeOK, Range
  <2>2. Range(sleep_que) = {t \in Tcb : status'[t] = "SLEEPING"} /\ node \notin Range(sleep_que)
    BY <1>1, <1>3, <1>4 DEF SleepQueueExact, Threads
  <2>3. \A t \in Range(sleep_que) : wake_at'[t] = wake_at[t]
    BY <1>4, <2>2 DEF Threads
  <2> QED
    BY <1>1, <1>2, <2>1, <2>2, <2>3 DEF SleepQueueExact
<1>8. StatusOK'
  <2>1. status[Reaper] = "RUNNING"
    BY <1>1, <1>2, <1>3 DEF StatusOK, CurrentOK, PcStatusOK, IdleOK
  <2>2. PcStatusOK'
    BY <1>1, <1>3, <1>4, <2>1 DEF StatusOK, CurrentOK, PcStatusOK, IdleOK
  <2>3. pc'[Idle] = pc[Idle] /\ status'[Idle] = status[Idle] /\ status'[Reaper] = "RUNNING"
    BY <1>3, <1>4, <2>1, ZenonT(60)
  <2>4. \A t \in Threads : status'[t] = "RUNNING" => t = cur_thread'
    BY <1>1, <1>2, <1>4 DEF StatusOK, CurrentOK, PcStatusOK, IdleOK
  <2> QED
    BY <1>1, <1>2, <2>2, <2>3, <2>4, ZenonT(60) DEF StatusOK, CurrentOK, PcStatusOK, IdleOK
<1>9. AddressSpaceOK'
  BY <1>1, <1>2, <1>4, ZenonT(60) DEF AddressSpaceOK
<1>10. ZombieListOK'
  <2>1. \A p \in {zombie_head, zombie_tail} : p # NULL => p \in Threads /\ status'[p] = "ZOMBIE"
    BY <1>1, <1>3, <1>4, SMTT(60) DEF ZombieListOK, TypeOK, Threads
  <2>2. \A u \in Threads : next[u] # NULL => /\ status'[u] = "ZOMBIE"
                                            /\ status'[next[u]] = "ZOMBIE"
    <3> TAKE u \in Threads
    <3> HAVE next[u] # NULL
    <3>1. status[u] = "ZOMBIE" /\ status[next[u]] = "ZOMBIE" /\ next[u] \in Threads
      BY <1>1, SMTT(60) DEF ZombieListOK, TypeOK, Threads
    <3>2. u # node /\ next[u] # node
      BY <1>3
    <3> QED
      BY <1>4, <3>1, <3>2
  <2>3. \A u \in Threads : zombie_head # NULL => next[u] # zombie_head
    BY <1>1, <1>2 DEF ZombieListOK
  <2>4. /\ \A u, v \in Threads : next[u] # NULL /\ next[u] = next[v] => u = v
        /\ zombie_tail # NULL => next[zombie_tail] = NULL
    BY <1>1 DEF ZombieListOK
  <2>5. pc'[Reaper] \notin PopPc /\ pc'[Reaper] # "pop_head"
    BY <1>4 DEF PopPc
  <2>6. \A p \in {zombie_head', zombie_tail', reg'} : p # NULL => status'[p] = "ZOMBIE"
    BY <1>2, <2>1
  <2>7. /\ \A u \in Threads : next'[u] # NULL => status'[u] = "ZOMBIE" /\ status'[next'[u]] = "ZOMBIE"
        /\ \A u, v \in Threads : next'[u] # NULL /\ next'[u] = next'[v] => u = v
        /\ zombie_tail' # NULL => next'[zombie_tail'] = NULL
        /\ \A u \in Threads : zombie_head' # NULL => next'[u] # zombie_head'
    BY <1>2, <2>2, <2>3, <2>4
  <2> QED
    BY <1>2, <1>4, <2>5, <2>6, <2>7, ZenonT(60) DEF ZombieListOK
<1>11. NoLostWakeup'
  BY <1>1, <1>2, <1>3, <1>4 DEF NoLostWakeup
<1> QED
  BY <1>5, <1>6, <1>7, <1>8, <1>9, <1>10, <1>11 DEF Inv

\* A step that leaves the zombie queue and the reaper's pop alone keeps them in
\* order, provided it revives no zombie.
LEMMA ZombieFrame ==
    ASSUME TypeOK, ZombieListOK,
           next' = next, zombie_head' = zombie_head, zombie_tail' = zombie_tail,
           node' = node, reg' = reg, panicked' = panicked,
           \A t \in Threads : status[t] = "ZOMBIE" => status'[t] = "ZOMBIE",
           \/ pc'[Reaper] = pc[Reaper]
           \/ /\ pc[Reaper] \notin PopPc
              /\ pc'[Reaper] \notin PopPc
              /\ pc'[Reaper] = "pop_head" => zombie_head # NULL
    PROVE  ZombieListOK'
<1> USE SchedAssumption
<1>1. /\ \A p \in {zombie_head, zombie_tail, reg, node} : p # NULL => p \in Tcb
      /\ \A u \in Threads : next[u] # NULL => next[u] \in Tcb
      /\ \A u \in Threads : u # NULL
      /\ \A u \in Tcb : u \in Threads
  BY DEF TypeOK, Threads
<1>2. \A p \in {zombie_head', zombie_tail', reg'} : p # NULL => status'[p] = "ZOMBIE"
  BY <1>1 DEF ZombieListOK
<1>3. \A u \in Threads : next'[u] # NULL => status'[u] = "ZOMBIE" /\ status'[next'[u]] = "ZOMBIE"
  <2> SUFFICES ASSUME NEW u \in Threads, next[u] # NULL
               PROVE  status'[u] = "ZOMBIE" /\ status'[next[u]] = "ZOMBIE"
    OBVIOUS
  <2>1. status[u] = "ZOMBIE" /\ status[next[u]] = "ZOMBIE" /\ next[u] \in Tcb
    BY <1>1 DEF ZombieListOK
  <2> QED
    BY <2>1, <1>1
<1>4. /\ \A u, v \in Threads : next'[u] # NULL /\ next'[u] = next'[v] => u = v
      /\ zombie_tail' # NULL => next'[zombie_tail'] = NULL
  BY DEF ZombieListOK
<1>5. CASE pc'[Reaper] = pc[Reaper]
  <2>1. pc'[Reaper] \in PopPc => node' # NULL /\ status'[node'] = "ZOMBIE"
    BY <1>1, <1>5, SMTT(60) DEF ZombieListOK
  <2> QED
    BY <1>2, <1>3, <1>4, <1>5, <2>1, SMTT(60) DEF ZombieListOK
<1>6. CASE /\ pc[Reaper] \notin PopPc
           /\ pc'[Reaper] \notin PopPc
           /\ pc'[Reaper] = "pop_head" => zombie_head # NULL
  <2>1. /\ node' = NULL
        /\ \A u \in Threads : zombie_head' # NULL => next'[u] # zombie_head'
    BY <1>6, SMTT(60) DEF ZombieListOK, PopPc
  <2>2. pc'[Reaper] \notin {"pop_store", "pop_clear", "destroy"}
    BY <1>6 DEF PopPc
  <2> QED
    BY <1>2, <1>3, <1>4, <1>6, <2>1, <2>2, SMTT(60) DEF ZombieListOK
<1> QED
  BY <1>5, <1>6

\* reaper_main's atomic test: it goes to sleep only when the queue is empty.
LEMMA InvReaperCheck == Inv /\ reaper_check => Inv'
<1> SUFFICES ASSUME Inv, reaper_check PROVE Inv'
  OBVIOUS
<1> USE SchedAssumption
<1>1. TypeOK /\ RunQueueExact /\ SleepQueueExact /\ StatusOK /\ AddressSpaceOK
      /\ ZombieListOK /\ NoLostWakeup
  BY DEF Inv
<1>2. /\ cur_thread = Reaper /\ pc[Reaper] = "check" /\ ~panicked
      /\ IF zombie_head # NULL
           THEN status' = status /\ pc' = [pc EXCEPT ![Reaper] = "pop_head"]
           ELSE /\ status' = [status EXCEPT ![Reaper] = "SLEEPING"]
                /\ pc' = [pc EXCEPT ![Reaper] = "yield"]
      /\ pd' = pd /\ wake_at' = wake_at /\ que' = que /\ sleep_que' = sleep_que
      /\ cur_thread' = cur_thread /\ cr3' = cr3 /\ tss_esp0' = tss_esp0 /\ ticks' = ticks
      /\ next' = next /\ zombie_head' = zombie_head /\ zombie_tail' = zombie_tail
      /\ node' = node /\ reg' = reg /\ panicked' = panicked
  BY DEF reaper_check, At, GoTo, cpuVars, zombieVars, popVars
<1>3. /\ Reaper \in Threads /\ Idle \in Threads /\ Idle # Reaper /\ Reaper \notin Tcb
      /\ status[Reaper] = "RUNNING"
  BY <1>1, <1>2 DEF StatusOK, CurrentOK, PcStatusOK, Threads
<1>4. /\ \A t \in Threads : t # Reaper => pc'[t] = pc[t] /\ status'[t] = status[t]
      /\ \/ zombie_head # NULL /\ pc'[Reaper] = "pop_head" /\ status'[Reaper] = "RUNNING"
         \/ zombie_head = NULL /\ pc'[Reaper] = "yield" /\ status'[Reaper] = "SLEEPING"
  BY <1>1, <1>2, <1>3 DEF TypeOK
<1>5. TypeOK'
  <2>1. status' \in [Threads -> Status]
    BY <1>1, <1>2, ZenonT(60) DEF TypeOK, Status
  <2>2. pc' \in [Threads -> PC] /\ \A t \in Threads : pc'[t] \in PcOf(t)
    BY <1>1, <1>2, <1>3, <1>4, ZenonT(60) DEF TypeOK, PC, PcOf
  <2> QED
    BY <1>1, <1>2, <2>1, <2>2 DEF TypeOK
<1>6. RunQueueExact'
  BY <1>1, <1>2, <1>3, <1>4 DEF RunQueueExact
<1>7. SleepQueueExact'
  BY <1>1, <1>2, <1>3, <1>4 DEF SleepQueueExact, Threads
<1>8. StatusOK'
  <2>1. CurrentOK'
    BY <1>1, <1>2, <1>3, <1>4 DEF StatusOK, CurrentOK
  <2>2. PcStatusOK'
    BY <1>1, <1>2, <1>3, <1>4 DEF StatusOK, PcStatusOK
  <2>3. IdleOK'
    BY <1>1, <1>2, <1>3, <1>4 DEF StatusOK, IdleOK
  <2> QED
    BY <2>1, <2>2, <2>3 DEF StatusOK
<1>9. AddressSpaceOK'
  BY <1>1, <1>2, <1>3, <1>4 DEF AddressSpaceOK
<1>10. ZombieListOK'
  BY <1>1, <1>2, <1>3, <1>4, ZombieFrame DEF PopPc
<1>11. NoLostWakeup'
  BY <1>2, <1>4 DEF NoLostWakeup
<1> QED
  BY <1>5, <1>6, <1>7, <1>8, <1>9, <1>10, <1>11 DEF Inv
===============================================================================
