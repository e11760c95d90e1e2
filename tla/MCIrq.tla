------------------------------- MODULE MCIrq -------------------------------
(* Irq on small instances. *)
EXTENDS Irq
=============================================================================
