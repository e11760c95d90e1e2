------------------------------ MODULE MCSched ------------------------------
(* Sched on small instances. *)
EXTENDS Sched, TLC

\* Threads created the same way, or not yet created, are interchangeable.
Symmetry == Permutations(Tcb \ BootKernel)
=============================================================================
