------------------------------ MODULE QueueSpec ------------------------------
(***************************************************************************)
(* The run queue and the sleep queue as the scheduler thinks of them:      *)
(* sequences of threads.  A thread is in one queue at most; it enters the  *)
(* run queue at the back and the sleep queue behind every thread that is   *)
(* due no later; threads leave at the front.                               *)
(***************************************************************************)
EXTENDS ThreadQueue

CONSTANTS Node, Keys
VARIABLES run, asleep, key, underflow

qvars == <<run, asleep, key, underflow>>

Outside(x) == x \in Node \ (Range(run) \cup Range(asleep))

Ready(x) ==
    /\ Outside(x)
    /\ run' = Append(run, x)
    /\ UNCHANGED <<asleep, key>>

Sleep(x, k) ==
    /\ Outside(x)
    /\ key' = [key EXCEPT ![x] = k]
    /\ \E n \in 0..Len(asleep) :
          /\ LeadingDue(asleep, key, k, n)
          /\ asleep' = InsertBehind(asleep, n, x)
    /\ UNCHANGED run

NextThread == run # <<>> /\ run' = Tail(run) /\ UNCHANGED <<asleep, key>>

Wake == asleep # <<>> /\ asleep' = Tail(asleep) /\ UNCHANGED <<run, key>>

Underflow == run = <<>> \/ asleep = <<>>

Init == run = <<>> /\ asleep = <<>> /\ key \in [Node -> Keys] /\ underflow = FALSE
Next ==
    \/ /\ UNCHANGED underflow
       /\ \/ \E x \in Node : Ready(x) \/ \E k \in Keys : Sleep(x, k)
          \/ NextThread \/ Wake
    \/ Underflow /\ underflow' = TRUE /\ UNCHANGED <<run, asleep, key>>
Spec == Init /\ [][Next]_qvars
=============================================================================
