--------------------------- MODULE SchedInvThreads ----------------------------
(***************************************************************************)
(* The invariant of Sched is kept by the steps of a thread that do not     *)
(* call scheduler(), by thread creation and by boot.                       *)
(***************************************************************************)
EXTENDS SchedInvReaper

\* The running thread t, at label from, goes on to label l and at most sets its
\* own wake_at: first instructions of a thread, first half of thread_sleep.
LEMMA InvAdvance ==
    ASSUME Inv, NEW t \in Queued, NEW from, NEW l \in PcOf(t),
           At(t, from), GoTo(t, l),
           from \notin {"yield", "dead"},
           l \in {"check", "run", "user", "sleep"}, l = "user" => from = "launch",
           t = Reaper => from = "stub",
           NEW w \in 0..MaxTicks, wake_at' \in {wake_at, [wake_at EXCEPT ![t] = w]},
           UNCHANGED <<status, pd, que, sleep_que, cpuVars, ticks, zombieVars, popVars, panicked>>
    PROVE  Inv'
<1> USE SchedAssumption
<1>1. TypeOK /\ RunQueueExact /\ SleepQueueExact /\ StatusOK /\ AddressSpaceOK
      /\ ZombieListOK /\ NoLostWakeup
  BY DEF Inv
<1>2. /\ cur_thread = t /\ pc[t] = from /\ ~panicked /\ pc' = [pc EXCEPT ![t] = l]
      /\ status' = status /\ pd' = pd /\ que' = que /\ sleep_que' = sleep_que
      /\ cur_thread' = cur_thread /\ cr3' = cr3 /\ tss_esp0' = tss_esp0 /\ ticks' = ticks
      /\ next' = next /\ zombie_head' = zombie_head /\ zombie_tail' = zombie_tail
      /\ node' = node /\ reg' = reg /\ panicked' = panicked
  BY DEF At, GoTo, cpuVars, zombieVars, popVars
<1>3. t \in Threads /\ t # Idle /\ Idle \in Threads /\ status[t] = "RUNNING" /\ Reaper \in Threads
  BY <1>1, <1>2 DEF StatusOK, CurrentOK, PcStatusOK, Threads, Queued
<1>4. pc'[t] = l /\ \A u \in Threads : u # t => pc'[u] = pc[u] /\ wake_at'[u] = wake_at[u]
  BY <1>1, <1>2, <1>3, SMTT(60) DEF TypeOK
<1>5. TypeOK'
  <2>1. pc' \in [Threads -> PC] /\ \A u \in Threads : pc'[u] \in PcOf(u)
    BY <1>1, <1>2, <1>3, <1>4 DEF TypeOK, PC
  <2>2. wake_at' \in [Threads -> 0..MaxTicks]
    BY <1>1, <1>3, ZenonT(60) DEF TypeOK
  <2> QED
    BY <1>1, <1>2, <2>1, <2>2 DEF TypeOK
<1>6. RunQueueExact'
  BY <1>1, <1>2 DEF RunQueueExact
<1>7. SleepQueueExact'
  <2>1. \A i \in 1..Len(sleep_que) : sleep_que[i] \in Range(sleep_que)
    BY <1>1 DEF TypeOK, Range
  <2>2. \A u \in Range(sleep_que) : wake_at'[u] = wake_at[u]
    BY <1>1, <1>3, <1>4 DEF SleepQueueExact, Threads
  <2> QED
    BY <1>1, <1>2, <2>1, <2>2 DEF SleepQueueExact
<1>8. StatusOK'
  <2>1. CurrentOK'
    BY <1>1, <1>2, <1>3, <1>4 DEF StatusOK, CurrentOK
  <2>2. PcStatusOK'
    BY <1>1, <1>2, <1>3, <1>4 DEF StatusOK, PcStatusOK
  <2>3. IdleOK'
    BY <1>1, <1>2, <1>3, <1>4 DEF StatusOK, IdleOK
  <2> QED
    BY <2>1, <2>2, <2>3 DEF StatusOK
<1>9. AddressSpaceOK'
  BY <1>1, <1>2, <1>3, <1>4 DEF AddressSpaceOK
<1>10. ZombieListOK'
  <2>1. CASE t = Reaper
    <3>1. pc[Reaper] \notin PopPc /\ pc'[Reaper] \notin PopPc /\ pc'[Reaper] # "pop_head"
      BY <1>2, <1>4, <2>1 DEF PopPc
    <3> QED
      BY <1>1, <1>2, <3>1, ZombieFrame
  <2>2. CASE t # Reaper
    <3>1. pc'[Reaper] = pc[Reaper]
      BY <1>3, <1>4, <2>2
    <3> QED
      BY <1>1, <1>2, <3>1, ZombieFrame, SMTT(60)
  <2> QED
    BY <2>1, <2>2
<1>11. NoLostWakeup'
  BY <1>1, <1>2 DEF NoLostWakeup
<1> QED
  BY <1>5, <1>6, <1>7, <1>8, <1>9, <1>10, <1>11 DEF Inv

\* sti in kthread_stub, iret in launch_process.
LEMMA InvFresh ==
    ASSUME Inv, NEW t \in Threads, kthread_stub(t) \/ launch_process(t)
    PROVE  Inv'
<1> USE SchedAssumption
<1>1. PICK w \in 0..MaxTicks : TRUE
  <2>1. 0 \in 0..MaxTicks
    OBVIOUS
  <2> QED
    BY <2>1
<1>2. TypeOK
  BY DEF Inv
<1>3. CASE kthread_stub(t)
  <2>1. /\ At(t, "stub") /\ GoTo(t, IF t = Reaper THEN "check" ELSE "run")
        /\ wake_at' = wake_at
        /\ UNCHANGED <<status, pd, que, sleep_que, cpuVars, ticks, zombieVars, popVars, panicked>>
    BY <1>3 DEF kthread_stub, Advance
  <2>2. pc[t] = "stub"
    BY <2>1 DEF At
  <2>3. t \in Queued /\ (IF t = Reaper THEN "check" ELSE "run") \in PcOf(t)
    BY <1>2, <2>2, SMTT(60) DEF TypeOK, PcOf, BootPc, Threads, Queued
  <2> QED
    BY <1>1, <2>1, <2>3, InvAdvance
<1>4. CASE launch_process(t)
  <2>1. /\ At(t, "launch") /\ GoTo(t, "user") /\ wake_at' = wake_at
        /\ UNCHANGED <<status, pd, que, sleep_que, cpuVars, ticks, zombieVars, popVars, panicked>>
    BY <1>4 DEF launch_process, Advance
  <2>2. pc[t] = "launch"
    BY <2>1 DEF At
  <2>3. t \in Queued /\ t # Reaper /\ "user" \in PcOf(t)
    BY <1>2, <2>2, ZenonT(60) DEF TypeOK, PcOf, BootPc, PopPc, Threads, Queued
  <2> QED
    BY <1>1, <2>1, <2>3, InvAdvance
<1> QED
  BY <1>3, <1>4

\* thread_sleep up to the store of wake_at.
LEMMA InvSleep ==
    ASSUME Inv, NEW t \in Threads, NEW time \in SleepTimes, thread_sleep(t, time)
    PROVE  Inv'
<1> USE SchedAssumption
<1> DEFINE w == ticks + time * PitCrystal
<1>1. TypeOK
  BY DEF Inv
<1>2. /\ At(t, "run") /\ GoTo(t, "sleep") /\ w <= MaxTicks
      /\ wake_at' = [wake_at EXCEPT ![t] = w]
      /\ UNCHANGED <<status, pd, que, sleep_que, cpuVars, ticks, zombieVars, popVars, panicked>>
  BY DEF thread_sleep
<1>3. w \in 0..MaxTicks
  <2>1. time \in Nat /\ PitCrystal \in Nat /\ ticks \in Nat
    BY <1>1 DEF TypeOK
  <2>2. time * PitCrystal \in Nat
    BY <2>1
  <2> QED
    BY <1>2, <2>1, <2>2
<1>4. pc[t] = "run"
  BY <1>2 DEF At
<1>5. t \in Queued /\ t # Reaper /\ "sleep" \in PcOf(t)
  BY <1>1, <1>4, ZenonT(60) DEF TypeOK, PcOf, BootPc, PopPc, Threads, Queued
<1> HIDE DEF w
<1> QED
  BY <1>2, <1>3, <1>5, InvAdvance, ZenonT(60)

\* list_sorted_push keeps the sleep queue sorted and adds exactly t.
LEMMA SortedPushFacts ==
    ASSUME TypeOK, SleepQueueExact, NEW t \in Tcb, t \notin Range(sleep_que),
           NEW w \in 0..MaxTicks, list_sorted_push(t, w),
           wake_at'[t] = w, \A u \in Tcb : u # t => wake_at'[u] = wake_at[u]
    PROVE  /\ sleep_que' \in Seq(Tcb) /\ IsInjective(sleep_que')
           /\ Range(sleep_que') = Range(sleep_que) \cup {t}
           /\ \A i, j \in 1..Len(sleep_que') :
                 i < j => wake_at'[sleep_que'[i]] <= wake_at'[sleep_que'[j]]
<1> USE SchedAssumption
<1> DEFINE q == sleep_que
           n == Len(sleep_que)
<1>1. /\ q \in Seq(Tcb) /\ n \in Nat /\ \A i \in 1..n : q[i] \in Tcb
      /\ wake_at \in [Threads -> 0..MaxTicks]
  BY DEF TypeOK
<1>2. PICK k \in 0..n : /\ LeadingDue(q, wake_at, w, k)
                        /\ sleep_que' = InsertBehind(q, k, t)
  BY DEF list_sorted_push
<1>3. /\ sleep_que' \in Seq(Tcb) /\ Len(sleep_que') = n + 1
      /\ \A i \in 1..k : sleep_que'[i] = q[i]
      /\ sleep_que'[k + 1] = t
      /\ \A i \in (k + 2)..(n + 1) : sleep_que'[i] = q[i - 1]
      /\ Range(sleep_que') = Range(q) \cup {t} /\ IsInjective(sleep_que')
  <2>1. IsInjective(q) /\ t \notin Range(q)
    BY DEF SleepQueueExact
  <2> HIDE DEF q
  <2>2. /\ sleep_que' \in Seq(Tcb) /\ Len(sleep_que') = Len(q) + 1
        /\ \A i \in 1..k : sleep_que'[i] = q[i]
        /\ sleep_que'[k + 1] = t
        /\ \A i \in (k + 2)..(Len(q) + 1) : sleep_que'[i] = q[i - 1]
        /\ Range(sleep_que') = Range(q) \cup {t} /\ IsInjective(sleep_que')
    <3>1. /\ k \in 0..Len(q) /\ q \in Seq(Tcb) /\ t \in Tcb
          /\ sleep_que' = InsertBehind(q, k, t)
      BY <1>1, <1>2 DEF q
    <3>2. /\ InsertBehind(q, k, t) \in Seq(Tcb)
          /\ Len(InsertBehind(q, k, t)) = Len(q) + 1
      BY ONLY <3>1, InsertFacts, SMTT(60)
    <3>3. \A i \in 1..k : InsertBehind(q, k, t)[i] = q[i]
      BY ONLY <3>1, InsertFacts, SMTT(60)
    <3>5. InsertBehind(q, k, t)[k + 1] = t
      BY ONLY <3>1, InsertFacts, SMTT(60)
    <3>6. \A i \in (k + 2)..(Len(q) + 1) : InsertBehind(q, k, t)[i] = q[i - 1]
      BY ONLY <3>1, InsertFacts, SMTT(60)
    <3>4. Range(InsertBehind(q, k, t)) = Range(q) \cup {t}
      BY ONLY <3>1, InsertFacts, SMTT(60)
    <3>7. IsInjective(InsertBehind(q, k, t))
      BY ONLY <2>1, <3>1, InsertFacts, SMTT(60)
    <3> QED
      BY ONLY <2>1, <3>1, <3>2, <3>3, <3>4, <3>5, <3>6, <3>7, ZenonT(60)
  <2> QED
    BY <2>2, SMTT(60) DEF q
<1>4. \A i \in 1..n : q[i] # t /\ q[i] \in Tcb /\ wake_at'[q[i]] = wake_at[q[i]] /\ wake_at[q[i]] \in Nat
  <2> TAKE i \in 1..n
  <2>1. q[i] \in Range(q) /\ q[i] \in Tcb
    BY <1>1 DEF Range
  <2> QED
    BY <1>1, <2>1 DEF Threads
<1>5. /\ \A i \in 1..k : wake_at[q[i]] <= w
      /\ \A i \in (k + 1)..n : wake_at[q[i]] > w
  <2>1. /\ \A i \in 1..k : wake_at[q[i]] <= w
        /\ k < n => wake_at[q[k + 1]] > w
    BY <1>2 DEF LeadingDue
  <2>2. ASSUME NEW i \in (k + 1)..n PROVE wake_at[q[i]] > w
    <3>1. k \in Nat /\ k + 1 \in 1..n /\ i \in 1..n /\ k < n
      BY <1>1
    <3>2. wake_at[q[k + 1]] <= wake_at[q[i]]
      <4>1. CASE i = k + 1
        BY <1>4, <3>1, <4>1
      <4>2. CASE k + 1 < i
        BY <3>1, <4>2 DEF SleepQueueExact
      <4> QED
        BY <3>1, <4>1, <4>2
    <3> QED
      BY <1>4, <2>1, <3>1, <3>2
  <2> QED
    BY <2>1, <2>2
<1>6. ASSUME NEW i \in 1..(n + 1), NEW j \in 1..(n + 1), i < j
      PROVE  wake_at'[sleep_que'[i]] <= wake_at'[sleep_que'[j]]
  <2>1. k \in Nat /\ w \in Nat /\ k <= n
    BY <1>1
  <2>2. CASE j <= k
    <3>a. i \in 1..k /\ j \in 1..k /\ i \in 1..n /\ j \in 1..n
      BY ONLY <1>1, <1>6, <2>1, <2>2, i \in 1..(n + 1), j \in 1..(n + 1)
    <3>1. sleep_que'[i] = q[i] /\ sleep_que'[j] = q[j] /\ i \in 1..n /\ j \in 1..n
      BY <1>3, <3>a, ZenonT(60)
    <3> QED
      BY <1>4, <1>6, <3>1, ZenonT(60) DEF SleepQueueExact
  <2>3. CASE i <= k /\ j = k + 1
    <3>1. sleep_que'[i] = q[i] /\ sleep_que'[j] = t /\ i \in 1..n /\ i \in 1..k
      BY <1>1, <1>3, <2>1, <2>3, SMTT(60)
    <3> QED
      BY <1>4, <1>5, <3>1, SMTT(60)
  <2>4. CASE i <= k /\ j > k + 1
    <3>1. sleep_que'[i] = q[i] /\ sleep_que'[j] = q[j - 1] /\ i \in 1..n /\ j - 1 \in 1..n /\ i < j - 1
      BY <1>1, <1>3, <2>1, <2>4, SMTT(60)
    <3> QED
      BY <1>4, <3>1 DEF SleepQueueExact
  <2>5. CASE i = k + 1 /\ j > k + 1
    <3>1. sleep_que'[i] = t /\ sleep_que'[j] = q[j - 1] /\ j - 1 \in 1..n /\ j - 1 \in (k + 1)..n
      BY <1>1, <1>3, <2>1, <2>5
    <3> QED
      BY <1>4, <1>5, <2>1, <3>1, SMTT(60)
  <2>6. CASE i > k + 1
    <3>1. /\ sleep_que'[i] = q[i - 1] /\ sleep_que'[j] = q[j - 1]
          /\ i - 1 \in 1..n /\ j - 1 \in 1..n /\ i - 1 < j - 1
      BY <1>1, <1>3, <1>6, <2>1, <2>6
    <3> QED
      BY <1>4, <3>1 DEF SleepQueueExact
  <2> QED
    BY <1>1, <1>6, <2>1, <2>2, <2>3, <2>4, <2>5, <2>6
<1> QED
  BY <1>3, <1>6

\* The atomic block of thread_sleep.
LEMMA InvSleepPush ==
    ASSUME Inv, NEW t \in Threads, thread_sleep_push(t)
    PROVE  Inv'
<1> USE SchedAssumption
<1>1. TypeOK /\ RunQueueExact /\ SleepQueueExact /\ StatusOK /\ AddressSpaceOK
      /\ ZombieListOK /\ NoLostWakeup
  BY DEF Inv
<1>2. /\ cur_thread = t /\ pc[t] = "sleep" /\ ~panicked
      /\ status' = [status EXCEPT ![t] = "SLEEPING"]
      /\ list_sorted_push(t, wake_at[t]) /\ pc' = [pc EXCEPT ![t] = "yield"]
      /\ pd' = pd /\ wake_at' = wake_at /\ que' = que
      /\ cur_thread' = cur_thread /\ cr3' = cr3 /\ tss_esp0' = tss_esp0 /\ ticks' = ticks
      /\ next' = next /\ zombie_head' = zombie_head /\ zombie_tail' = zombie_tail
      /\ node' = node /\ reg' = reg /\ panicked' = panicked
  BY SMTT(60) DEF thread_sleep_push, At, GoTo, cpuVars, zombieVars, popVars
<1>3. /\ t \in Tcb /\ t # Idle /\ t # Reaper /\ status[t] = "RUNNING"
      /\ Idle \in Threads /\ Reaper \in Threads /\ \A u \in Tcb : u \in Threads
  <2>1. t \in Tcb
    BY <1>1, <1>2, ZenonT(60) DEF TypeOK, PcOf, BootPc, PopPc, Threads
  <2> QED
    BY <1>1, <1>2, <2>1 DEF StatusOK, CurrentOK, PcStatusOK, Threads
<1>4. /\ \A u \in Threads : u # t => pc'[u] = pc[u] /\ status'[u] = status[u]
      /\ pc'[t] = "yield" /\ status'[t] = "SLEEPING"
  BY <1>1, <1>2, <1>3 DEF TypeOK
<1>5. /\ sleep_que' \in Seq(Tcb) /\ IsInjective(sleep_que')
      /\ Range(sleep_que') = Range(sleep_que) \cup {t}
      /\ \A i, j \in 1..Len(sleep_que') :
            i < j => wake_at'[sleep_que'[i]] <= wake_at'[sleep_que'[j]]
  <2>1. wake_at[t] \in 0..MaxTicks
    BY <1>1, <1>3 DEF TypeOK
  <2>2. t \notin Range(sleep_que)
    BY <1>1, <1>3 DEF SleepQueueExact
  <2> QED
    BY <1>1, <1>2, <1>3, <2>1, <2>2, SortedPushFacts, ZenonT(60)
<1>6. TypeOK'
  <2>1. status' \in [Threads -> Status]
    BY <1>1, <1>2 DEF TypeOK, Status
  <2>2. pc' \in [Threads -> PC] /\ \A u \in Threads : pc'[u] \in PcOf(u)
    BY <1>1, <1>2, <1>3, <1>4 DEF TypeOK, PC, PcOf
  <2> QED
    BY <1>1, <1>2, <1>5, <2>1, <2>2, ZenonT(60) DEF TypeOK
<1>7. RunQueueExact'
  BY <1>1, <1>2, <1>3, <1>4 DEF RunQueueExact
<1>8. SleepQueueExact'
  BY <1>1, <1>3, <1>4, <1>5, ZenonT(60) DEF SleepQueueExact
<1>9. StatusOK'
  <2>1. CurrentOK'
    BY <1>1, <1>2, <1>3, <1>4 DEF StatusOK, CurrentOK
  <2>2. PcStatusOK'
    BY <1>1, <1>2, <1>3, <1>4 DEF StatusOK, PcStatusOK
  <2>3. IdleOK'
    BY <1>1, <1>2, <1>3, <1>4, SMTT(60) DEF StatusOK, IdleOK
  <2> QED
    BY <2>1, <2>2, <2>3 DEF StatusOK
<1>10. AddressSpaceOK'
  BY <1>1, <1>2, <1>3, <1>4 DEF AddressSpaceOK
<1>11. ZombieListOK'
  BY <1>1, <1>2, <1>3, <1>4, ZombieFrame
<1>12. NoLostWakeup'
  BY <1>1, <1>2, <1>3, <1>4 DEF NoLostWakeup
<1> QED
  BY <1>6, <1>7, <1>8, <1>9, <1>10, <1>11, <1>12 DEF Inv

\* A new thread t enters the run queue once; its TCB was in no queue.
LEMMA InvCreate ==
    ASSUME Inv, NEW t \in Queued, NEW dir \in Tcb \cup {KernelPd}, NEW l \in PcOf(t), NEW more,
           CreateThread(t, dir, l, more), ~panicked, l \in FreshPc,
           \/ cur_thread = Idle /\ pc[Idle] \in BootPc /\ more = "create"
              /\ (t # Reaper => pc[Idle] = "create")
           \/ cur_thread \in Tcb /\ pc[cur_thread] = "run" /\ more = "run"
    PROVE  Inv'
<1> USE SchedAssumption
<1>1. TypeOK /\ RunQueueExact /\ SleepQueueExact /\ StatusOK /\ AddressSpaceOK
      /\ ZombieListOK /\ NoLostWakeup
  BY DEF Inv
<1>2. /\ status[t] = "NONE" /\ status' = [status EXCEPT ![t] = "RUNNABLE"]
      /\ pd' = [pd EXCEPT ![t] = dir]
      /\ pc' = [pc EXCEPT ![t] = l, ![cur_thread] = more]
      /\ que' = Append(que, t)
      /\ wake_at' = wake_at /\ sleep_que' = sleep_que
      /\ cur_thread' = cur_thread /\ cr3' = cr3 /\ tss_esp0' = tss_esp0 /\ ticks' = ticks
      /\ next' = next /\ zombie_head' = zombie_head /\ zombie_tail' = zombie_tail
      /\ node' = node /\ reg' = reg /\ panicked' = panicked
  BY DEF CreateThread, cpuVars, zombieVars, popVars
<1>3. /\ t \in Threads /\ t # Idle /\ Idle \in Threads /\ Reaper \in Threads
      /\ cur_thread \in Threads /\ cur_thread # t /\ cur_thread # Reaper
      /\ status[cur_thread] = "RUNNING"
  BY <1>1, <1>2, SMTT(60) DEF TypeOK, StatusOK, CurrentOK, PcStatusOK, IdleOK, Threads, Queued, BootPc
<1>4. /\ status'[t] = "RUNNABLE" /\ pc'[t] = l /\ pc'[cur_thread] = more
      /\ \A u \in Threads : u # t => status'[u] = status[u] /\ pd'[u] = pd[u]
      /\ \A u \in Threads : u # t /\ u # cur_thread => pc'[u] = pc[u]
  BY <1>1, <1>2, <1>3 DEF TypeOK
<1>5. /\ que' \in Seq(Queued) /\ IsInjective(que') /\ Range(que') = Range(que) \cup {t}
  <2>1. que \in Seq(Queued) /\ IsInjective(que) /\ t \notin Range(que)
    BY <1>1, <1>2 DEF TypeOK, RunQueueExact, Queued
  <2> QED
    BY <1>2, <2>1, PushBackFacts
<1>6. TypeOK'
  <2>1. status' \in [Threads -> Status] /\ pd' \in [Threads -> Tcb \cup {KernelPd}]
    BY <1>1, <1>2, ZenonT(60) DEF TypeOK, Status
  <2>2. pc' \in [Threads -> PC]
    <3>1. l \in PC /\ more \in PC
      BY DEF PC, BootPc
    <3> QED
      BY <1>1, <1>2, <3>1, ZenonT(60) DEF TypeOK
  <2>3. \A u \in Threads : pc'[u] \in PcOf(u)
    BY <1>1, <1>3, <1>4, SMTT(60) DEF TypeOK, PcOf, BootPc, Threads
  <2> QED
    BY <1>1, <1>2, <1>5, <2>1, <2>2, <2>3, ZenonT(60) DEF TypeOK, Queued
<1>7. RunQueueExact'
  BY <1>1, <1>3, <1>4, <1>5, ZenonT(60) DEF RunQueueExact
<1>8. SleepQueueExact'
  <2>1. {u \in Tcb : status'[u] = "SLEEPING"} = {u \in Tcb : status[u] = "SLEEPING"}
    BY <1>2, <1>3, <1>4 DEF Threads
  <2> QED
    BY <1>1, <1>2, <2>1, ZenonT(60) DEF SleepQueueExact
<1>9. StatusOK'
  <2>1. CurrentOK'
    BY <1>1, <1>2, <1>3, <1>4 DEF StatusOK, CurrentOK
  <2>2. PcStatusOK'
    <3> SUFFICES ASSUME NEW u \in Threads \ {Idle}
                 PROVE  /\ status'[u] # "IDLE"
                        /\ status'[u] = "NONE" <=> pc'[u] = "none"
                        /\ status'[u] = "ZOMBIE" <=> pc'[u] \in {"dead", "gone"}
                        /\ status'[u] = "SLEEPING" => pc'[u] \in {"user", "yield", "run", "check"}
      BY DEF PcStatusOK
    <3>1. CASE u = t
      BY <1>4, <3>1 DEF FreshPc
    <3>2. CASE u = cur_thread
      BY <1>3, <1>4, <3>2
    <3>3. CASE u # t /\ u # cur_thread
      BY <1>1, <1>4, <3>3 DEF StatusOK, PcStatusOK
    <3> QED
      BY <3>1, <3>2, <3>3
  <2>3. IdleOK'
    BY <1>1, <1>2, <1>3, <1>4, ZenonT(60) DEF StatusOK, IdleOK, BootPc
  <2> QED
    BY ONLY <2>1, <2>2, <2>3 DEF StatusOK
<1>10. AddressSpaceOK'
  BY <1>1, <1>2, <1>3, <1>4, ZenonT(60) DEF AddressSpaceOK
<1>11. ZombieListOK'
  <2>1. CASE t = Reaper
    <3>1. pc[Reaper] = "none"
      BY <1>1, <1>2, <1>3, <2>1 DEF StatusOK, PcStatusOK
    <3>2. pc[Reaper] \notin PopPc /\ pc'[Reaper] \notin PopPc /\ pc'[Reaper] # "pop_head"
      BY ONLY <1>4, <2>1, <3>1, l \in FreshPc DEF PopPc, FreshPc
    <3> QED
      BY <1>1, <1>2, <1>4, <3>2, ZombieFrame
  <2>2. CASE t # Reaper
    BY <1>1, <1>2, <1>3, <1>4, <2>2, ZombieFrame
  <2> QED
    BY <2>1, <2>2
<1>12. NoLostWakeup'
  BY <1>1, <1>2, <1>3, <1>4 DEF NoLostWakeup
<1> QED
  BY <1>6, <1>7, <1>8, <1>9, <1>10, <1>11, <1>12 DEF Inv

\* init_reaper, the threads kmain creates, and those payloads create.
LEMMA InvCreators ==
    ASSUME Inv, init_reaper \/ BootCreate \/ \E t \in Threads : spawn(t)
    PROVE  Inv'
<1> USE SchedAssumption
<1>1. TypeOK
  BY DEF Inv
<1>2. /\ \A t \in Tcb : "launch" \in PcOf(t) /\ "stub" \in PcOf(t) /\ t \in Queued
      /\ "stub" \in PcOf(Reaper) /\ Reaper \in Queued
      /\ "launch" \in FreshPc /\ "stub" \in FreshPc
      /\ "create" \in BootPc /\ "init_reaper" \in BootPc
  BY DEF PcOf, FreshPc, Queued, BootPc
<1>3. CASE init_reaper
  <2>1. cur_thread = Idle /\ pc[Idle] = "init_reaper" /\ ~panicked
        /\ CreateThread(Reaper, KernelPd, "stub", "create")
    BY <1>3 DEF init_reaper, At
  <2> QED
    BY <1>2, <2>1, InvCreate
<1>4. CASE BootCreate
  <2>1. /\ cur_thread = Idle /\ pc[Idle] = "create" /\ ~panicked
        /\ \/ \E t \in BootUser : CreateThread(t, t, "launch", "create")
           \/ \E t \in BootKernel : CreateThread(t, KernelPd, "stub", "create")
    BY <1>4 DEF BootCreate, At
  <2>2. CASE \E t \in BootUser : CreateThread(t, t, "launch", "create")
    BY <1>2, <2>1, <2>2, InvCreate
  <2>3. CASE \E t \in BootKernel : CreateThread(t, KernelPd, "stub", "create")
    BY <1>2, <2>1, <2>3, InvCreate
  <2> QED
    BY <2>1, <2>2, <2>3
<1>5. CASE \E t \in Threads : spawn(t)
  <2>1. PICK t \in Threads : spawn(t)
    BY <1>5
  <2>2. PICK u \in Tcb : \/ CreateThread(u, KernelPd, "stub", "run")
                         \/ CreateThread(u, u, "launch", "run")
    BY <2>1 DEF spawn
  <2>3. cur_thread = t /\ pc[t] = "run" /\ ~panicked
    BY <2>1 DEF spawn, At
  <2>4. t \in Tcb
    BY <1>1, <2>3, ZenonT(60) DEF TypeOK, PcOf, BootPc, PopPc, Threads
  <2> QED
    BY <1>2, <2>2, <2>3, <2>4, InvCreate
<1> QED
  BY <1>3, <1>4, <1>5

\* The end of kmain: the boot thread becomes the idle thread.
LEMMA InvSti == Inv /\ kmain_sti => Inv'
<1> SUFFICES ASSUME Inv, kmain_sti PROVE Inv'
  OBVIOUS
<1> USE SchedAssumption
<1>1. TypeOK /\ RunQueueExact /\ SleepQueueExact /\ StatusOK /\ AddressSpaceOK
      /\ ZombieListOK /\ NoLostWakeup
  BY DEF Inv
<1>2. /\ cur_thread = Idle /\ pc[Idle] = "create" /\ ~panicked
      /\ status' = [status EXCEPT ![Idle] = "IDLE"] /\ pc' = [pc EXCEPT ![Idle] = "hlt"]
      /\ pd' = pd /\ wake_at' = wake_at /\ que' = que /\ sleep_que' = sleep_que
      /\ cur_thread' = cur_thread /\ cr3' = cr3 /\ tss_esp0' = tss_esp0 /\ ticks' = ticks
      /\ next' = next /\ zombie_head' = zombie_head /\ zombie_tail' = zombie_tail
      /\ node' = node /\ reg' = reg /\ panicked' = panicked
  BY DEF kmain_sti, At, GoTo, cpuVars, zombieVars, popVars
<1>3. Idle \in Threads /\ Reaper \in Threads /\ Idle # Reaper /\ status[Idle] = "RUNNING"
  BY <1>1, <1>2 DEF StatusOK, IdleOK, Threads, BootPc
<1>4. /\ status'[Idle] = "IDLE" /\ pc'[Idle] = "hlt"
      /\ \A u \in Threads : u # Idle => status'[u] = status[u] /\ pc'[u] = pc[u]
  BY <1>1, <1>2, <1>3 DEF TypeOK
<1>5. TypeOK'
  <2>1. status' \in [Threads -> Status]
    BY <1>1, <1>2, SMTT(60) DEF TypeOK, Status
  <2>2. pc' \in [Threads -> PC] /\ \A u \in Threads : pc'[u] \in PcOf(u)
    BY <1>1, <1>2, <1>3, <1>4, SMTT(60) DEF TypeOK, PC, PcOf
  <2> QED
    BY <1>1, <1>2, <2>1, <2>2, SMTT(60) DEF TypeOK
<1>6. RunQueueExact'
  BY <1>1, <1>2, <1>3, <1>4, SMTT(60) DEF RunQueueExact
<1>7. SleepQueueExact'
  BY <1>1, <1>2, <1>3, <1>4 DEF SleepQueueExact, Threads
<1>8. StatusOK'
  <2>1. CurrentOK'
    BY <1>1, <1>2, <1>3, <1>4 DEF StatusOK, CurrentOK
  <2>2. PcStatusOK'
    BY <1>1, <1>4 DEF StatusOK, PcStatusOK
  <2>3. IdleOK'
    BY <1>1, <1>2, <1>3, <1>4 DEF StatusOK, IdleOK, BootPc
  <2> QED
    BY <2>1, <2>2, <2>3 DEF StatusOK
<1>9. AddressSpaceOK'
  BY <1>1, <1>2, <1>4 DEF AddressSpaceOK
<1>10. ZombieListOK'
  BY <1>1, <1>2, <1>3, <1>4, ZombieFrame
<1>11. NoLostWakeup'
  BY <1>1, <1>2, <1>3, <1>4 DEF NoLostWakeup
<1> QED
  BY <1>5, <1>6, <1>7, <1>8, <1>9, <1>10, <1>11 DEF Inv
===============================================================================
