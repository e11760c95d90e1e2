-------------------------------- MODULE Irq --------------------------------
(***************************************************************************)
(* The path of a hardware interrupt: the two 8259 controllers, the         *)
(* processor that takes a request while its interrupt flag is on,          *)
(* interrupt_handler, the timer's handler and the driver of the            *)
(* controllers.  All gates are interrupt gates, so the flag is off from    *)
(* the acknowledgement until the thread that runs next turns it on: a      *)
(* handler is one step, between which the devices raise their lines.       *)
(***************************************************************************)
EXTENDS Integers, FiniteSets, FiniteSetsExt

CONSTANTS Thread,      \* the threads the timer may switch to
          Devices,     \* the lines that devices raise
          Drivers,     \* the lines with a handler beside the timer's line 0
          Spurious,    \* the lines, of 7 and 15, that may fire with no request
          MaskLines    \* the lines that drivers mask and unmask

Lines == 0..15
NoIrq == -1

ASSUME LinesAssumption == Devices \subseteq Lines /\ Spurious \subseteq {7, 15}

VARIABLES irr,         \* lines requested and not yet acknowledged
          isr,         \* lines in service
          imr,         \* lines the controllers hold back
          pic_mask,    \* the driver's copy of imr, as a set of lines
          vec,         \* the interrupt being handled; NoIrq: flag on
          cur,         \* the running thread
          cont,        \* how a thread that is not running was left
          panicked
vars == <<irr, isr, imr, pic_mask, vec, cur, cont, panicked>>

\* init_pic ends with no line masked: ICW1 clears both mask registers, and
\* pic_mask is then read back from them.
init_pic == imr = {} /\ pic_mask = {}

Init == /\ init_pic
        /\ irr = {} /\ isr = {} /\ vec = NoIrq
        /\ cur \in Thread
        /\ cont = [t \in Thread |-> IF t = cur THEN "running" ELSE "fresh"]
        /\ panicked = FALSE

----------------------------------------------------------------------------
(* The controllers: a lower line has priority, and the second one reaches  *)
(* the processor through line 2 of the first.                              *)
Chip(n) == IF n < 8 THEN 0..7 ELSE 8..15
Route(n) == IF n < 8 THEN n ELSE 2
Rank(n) == 16 * Route(n) + n
Free(n) == \A m \in isr \cap Chip(n) : n < m
Deliverable(n) == /\ n \in irr \ imr /\ Free(n)
                  /\ n >= 8 => Free(2) /\ 2 \notin imr

\* Register contents after the command "end of interrupt" to one controller.
EndOf(serv, chip) == serv \ (IF serv \cap chip = {} THEN {}
                             ELSE {Min(serv \cap chip)})

Raise == /\ ~panicked
         /\ \E n \in Devices \ irr : irr' = irr \cup {n}
         /\ UNCHANGED <<isr, imr, pic_mask, vec, cur, cont, panicked>>

Accept == /\ ~panicked /\ vec = NoIrq
          /\ \E n \in Lines :
               /\ Deliverable(n)
               /\ \A m \in Lines : Deliverable(m) => Rank(n) <= Rank(m)
               /\ irr' = irr \ {n}
               /\ isr' = isr \cup {n, Route(n)}
               /\ vec' = n
          /\ UNCHANGED <<imr, pic_mask, cur, cont, panicked>>

\* A request withdrawn before the acknowledgement: the last line of the chip
\* is reported and its service bit stays clear.
AcceptSpurious == /\ ~panicked /\ vec = NoIrq
                  /\ \E n \in Spurious : /\ Free(Route(n))
                                         /\ isr' = isr \cup ({Route(n)} \ {n})
                                         /\ vec' = n
                  /\ UNCHANGED <<irr, imr, pic_mask, cur, cont, panicked>>

----------------------------------------------------------------------------
(* The driver of the controllers.                                          *)
pic_read_isr == isr

\* Faulty: line 15 fires with no request and neither controller is told.
pic_send_eoi_quiet(n) ==
    IF n \in {7, 15} /\ n \notin pic_read_isr THEN isr
    ELSE EndOf(IF n >= 8 THEN EndOf(isr, 8..15) ELSE isr, 0..7)

pic_send_eoi(n) ==
    IF n \in {7, 15} /\ n \notin pic_read_isr
    THEN IF n >= 8 THEN EndOf(isr, 0..7) ELSE isr
    ELSE EndOf(IF n >= 8 THEN EndOf(isr, 8..15) ELSE isr, 0..7)

\* Faulty: each controller gets the other one's byte.
pic_write_mask_swapped == {n \in Lines : (n + 8) % 16 \in pic_mask'}

\* The byte for the second controller is (uint8_t)pic_mask >> 8, always 0.
pic_write_mask == {n \in 0..7 : n \in pic_mask'}

pic_mask_irq(n) == /\ pic_mask' = pic_mask \cup {n}
                   /\ imr' = pic_write_mask

pic_unmmask_rqp(n) ==
    /\ LET m == pic_mask \ {n} IN
       pic_mask' = IF 8..15 \subseteq m THEN m ELSE m \ {2}
    /\ imr' = pic_write_mask

\* A driver, in interruptible code, masks or unmasks a line.
DriverMasks == /\ ~panicked /\ vec = NoIrq
               /\ \E n \in MaskLines : pic_mask_irq(n) \/ pic_unmmask_rqp(n)
               /\ UNCHANGED <<irr, isr, vec, cur, cont, panicked>>

----------------------------------------------------------------------------
(* interrupt_handler and the handlers it calls.                            *)

\* scheduler leaves the running thread as how and resumes t: a fresh thread
\* starts with interrupts on, one left in the timer's handler returns through
\* iret, one left in its own call of scheduler restores its flags.
context_switch(how, t) == /\ cont' = [cont EXCEPT ![cur] = how, ![t] = "running"]
                          /\ cur' = t

\* Faulty: the end of interrupt after the callback, so that only a thread left
\* in this handler, or not switched away from, comes back to send it.
pit_irq_handler_late(t) ==
    /\ isr' = IF t = cur \/ cont[t] = "irq" THEN pic_send_eoi(0) ELSE isr
    /\ context_switch("irq", t)

pit_irq_handler(t) == /\ isr' = pic_send_eoi(0)
                      /\ context_switch("irq", t)

\* A driver's handler: its work, then pic_send_eoi for its line.
driver_handler == isr' = pic_send_eoi(vec) /\ UNCHANGED <<cur, cont>>

interrupt_handler ==
    /\ ~panicked /\ vec # NoIrq
    /\ \/ /\ vec = 0
          /\ \E t \in Thread : pit_irq_handler(t)
          /\ vec' = NoIrq /\ UNCHANGED panicked
       \/ /\ vec \in Drivers /\ driver_handler
          /\ vec' = NoIrq /\ UNCHANGED panicked
       \/ /\ vec \notin Drivers \cup {0} /\ panicked' = TRUE
          /\ UNCHANGED <<isr, vec, cur, cont>>
    /\ UNCHANGED <<irr, imr, pic_mask>>

\* A thread gives the processor up in a call of its own.
scheduler == /\ ~panicked /\ vec = NoIrq
             /\ \E t \in Thread : context_switch("call", t)
             /\ UNCHANGED <<irr, isr, imr, pic_mask, vec, panicked>>

Halted == panicked /\ UNCHANGED vars

Next == \/ Raise \/ Accept \/ AcceptSpurious
        \/ DriverMasks \/ interrupt_handler \/ scheduler \/ Halted

Spec == Init /\ [][Next]_vars

\* A handler runs to its end; with the flag on, the processor looks at its
\* interrupt pin between any two instructions.
FairSpec == Spec /\ WF_vars(interrupt_handler) /\ SF_vars(Accept)

----------------------------------------------------------------------------
\* Whenever interrupts are on, no line is in service on either controller:
\* every way through pic_send_eoi, and every thread the timer may switch to,
\* leaves the controllers ready for all the other lines.
NoneInService == vec = NoIrq => isr = {}

\* A request of the timer is always served in the end: no sequence of other
\* interrupts, context switches and spurious interrupts blocks line 0, except that
\* interrupt_handler stops the kernel at an interrupt for which there is no driver.
TimerServed == (0 \in irr) ~> (0 \notin irr \/ panicked)

\* A line of the first controller that pic_mask_irq masked does not interrupt,
\* and neither does any line of the second one while line 2 is masked.
MasterMaskHonoured == vec \in isr => Route(vec) \notin pic_mask
=============================================================================
