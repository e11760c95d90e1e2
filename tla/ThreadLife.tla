----------------------------- MODULE ThreadLife -----------------------------
(***************************************************************************)
(* What the kernel promises each thread, whatever the scheduler does: a    *)
(* thread is created once, shares one CPU with the others, sleeps at least *)
(* as long as it asked for, dies only by its own doing, and is given back  *)
(* only after its death.  One step of the kernel may move several threads. *)
(***************************************************************************)
EXTENDS Integers

CONSTANT Thread

VARIABLES
    phase,      \* what the thread is doing
    deadline,   \* when its sleep ends
    now         \* the kernel's clock

Phase == {"absent", "ready", "running", "asleep", "dead"}

Moves(t, from, to) == phase[t] = from /\ phase'[t] = to
KeepsDeadline(t) == deadline'[t] = deadline[t]

Stay(t)     == phase'[t] = phase[t] /\ (phase[t] = "running" \/ KeepsDeadline(t))
Create(t)   == Moves(t, "absent", "ready") /\ KeepsDeadline(t)
Dispatch(t) == Moves(t, "ready", "running") /\ KeepsDeadline(t)
Preempt(t)  == Moves(t, "running", "ready") /\ KeepsDeadline(t)
Sleep(t)    == Moves(t, "running", "asleep") /\ deadline'[t] >= 0
Exit(t)     == Moves(t, "running", "dead") /\ KeepsDeadline(t)
Reap(t)     == Moves(t, "dead", "absent")
\* The sleeper may be dispatched in the step that wakes it.
Wake(t)     == /\ Moves(t, "asleep", "ready") \/ Moves(t, "asleep", "running")
               /\ KeepsDeadline(t)
               /\ deadline[t] <= now'

Init ==
    /\ phase = [t \in Thread |-> "absent"]
    /\ deadline = [t \in Thread |-> 0]
    /\ now = 0

Next ==
    /\ now' >= now
    /\ \A t \in Thread : \/ Stay(t) \/ Create(t) \/ Dispatch(t) \/ Preempt(t)
                         \/ Sleep(t) \/ Exit(t) \/ Reap(t) \/ Wake(t)
    /\ \A t, u \in Thread : phase'[t] = "running" /\ phase'[u] = "running" => t = u

Spec == Init /\ [][Next]_<<phase, deadline, now>>
=============================================================================
