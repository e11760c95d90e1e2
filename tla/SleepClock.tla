----------------------------- MODULE SleepClock -----------------------------
(***************************************************************************)
(* The clock of the scheduler and the wake-up time of one sleeping thread. *)
(* ticks is 64 bits wide and the machine loads 32 at a time: the timer     *)
(* adds to both halves with interrupts off, and thread_sleep loads them    *)
(* one after the other.  A system call does so with interrupts off as      *)
(* well; a kernel thread does not.                                         *)
(***************************************************************************)
EXTENDS Integers

CONSTANTS Word,         \* values of one half: 2^32 in the code
          TickRate,     \* tick_rate, the divisor of the PIT
          PitCrystal,   \* PIT_CRYSTAL, counts per second
          SleepTimes,   \* seconds that threads ask for
          FirstLoad,    \* the half a compiler may load first: "lo", "hi"
          MaxTicks      \* bound on the time

VARIABLES now,          \* counts of the PIT since it was started
          hi, lo,       \* the halves of ticks
          pc,           \* where the thread is
          caller,       \* who called thread_sleep last, if anybody
          first,        \* the half loaded first, and its value
          half,
          time,         \* the seconds asked for
          wake_at,
          start, end,   \* now when the call begins, and when ticks is loaded
          woke          \* now when the thread becomes runnable again
vars == <<now, hi, lo, pc, caller, first, half, time, wake_at, start, end, woke>>

Ticks == hi * Word + lo

Init == /\ now = 0 /\ hi = 0 /\ lo = 0 /\ pc = "awake" /\ caller = "nobody"
        /\ first = "lo" /\ half = 0 /\ time = 0 /\ wake_at = 0
        /\ start = 0 /\ end = 0 /\ woke = 0

\* ticks += tick_rate, an addition with carry.
tick == /\ lo' = (lo + TickRate) % Word
        /\ hi' = (hi + (lo + TickRate) \div Word) % Word

\* The part of timer that this thread sees: the clock, then wake_up_threads.
timer == /\ now + TickRate <= MaxTicks
         /\ now' = now + TickRate
         /\ tick
         /\ IF pc = "asleep" /\ wake_at <= Ticks'
            THEN pc' = "awake" /\ woke' = now'
            ELSE UNCHANGED <<pc, woke>>
         /\ UNCHANGED <<caller, first, half, time, wake_at, start, end>>

\* Faulty: the product is truncated to one word.
WakeAt_narrow(base, t) == (base + ((t * PitCrystal) % Word)) % (Word * Word)

WakeAt(base, t) == (base + t * PitCrystal) % (Word * Word)

\* thread_sleep called by the handler of the system call: one step.
sys_sleep(t) == /\ pc = "awake" /\ pc' = "asleep"
                /\ caller' = "syscall" /\ time' = t
                /\ wake_at' = WakeAt(Ticks, t)
                /\ start' = now /\ end' = now
                /\ UNCHANGED <<now, hi, lo, first, half, woke>>

\* thread_sleep called by a kernel thread: the first load, in either order,
thread_sleep(t, h) == /\ pc = "awake" /\ pc' = "load"
                      /\ caller' = "kthread" /\ time' = t
                      /\ first' = h /\ half' = IF h = "lo" THEN lo ELSE hi
                      /\ start' = now
                      /\ UNCHANGED <<now, hi, lo, wake_at, end, woke>>

\* the second load and the addition,
load == /\ pc = "load" /\ pc' = "push"
        /\ wake_at' = WakeAt(IF first = "lo" THEN hi * Word + half
                                             ELSE half * Word + lo, time)
        /\ end' = now
        /\ UNCHANGED <<now, hi, lo, caller, first, half, time, start, woke>>

\* and the insertion into sleep_que, with interrupts off.
push == /\ pc = "push" /\ pc' = "asleep"
        /\ UNCHANGED <<now, hi, lo, caller, first, half, time, wake_at, start, end, woke>>

\* The clock has reached the bound.
Stopped == now + TickRate > MaxTicks /\ UNCHANGED vars

Next == \/ timer \/ load \/ push \/ Stopped
        \/ \E t \in SleepTimes : sys_sleep(t) \/ \E h \in FirstLoad : thread_sleep(t, h)

Spec == Init /\ [][Next]_vars

----------------------------------------------------------------------------
Due == start + time * PitCrystal

\* A process that sleeps for some seconds is woken by the first tick at which
\* they have passed, neither sooner nor later, across every carry of the clock.
SleepExact == caller = "syscall" =>
    CASE pc = "asleep" -> now < Due \/ now = start
      [] pc = "awake" -> woke \in Due..Due + TickRate
      [] OTHER -> FALSE

\* A kernel thread's wake-up time is right, or wrong by exactly one carry.
WrongByOneCarry == pc = "asleep" =>
    \E n \in start..end, e \in {-Word, 0, Word} : wake_at = WakeAt(n + e, time)
=============================================================================
