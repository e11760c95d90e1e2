----------------------------- MODULE IrqProofs -----------------------------
(***************************************************************************)
(* Theorems about Irq, for any threads, devices, drivers and masked lines. *)
(***************************************************************************)
EXTENDS Irq, TLAPS

\* What is in service while an interrupt is handled: its line and, on the second
\* controller, the cascade; for a spurious one only the cascade.
InService == /\ vec = NoIrq => isr = {}
             /\ vec # NoIrq => \/ isr = {vec, Route(vec)}
                               \/ vec = 7 /\ isr = {}
                               \/ vec = 15 /\ isr = {2}

\* The first controller holds back what the driver has masked, and the line
\* being handled was let through.
MaskInv == /\ \A n \in 0..7 : n \in imr <=> n \in pic_mask
           /\ vec \in isr => Route(vec) \notin pic_mask

Inv == vec \in Lines \cup {NoIrq} /\ InService /\ MaskInv

\* The end of interrupt clears the only line a controller has in service.
LEMMA EndOfOne == ASSUME NEW n \in Int, NEW chip, n \in chip
                  PROVE EndOf({n}, chip) = {}
<1>1. {n} \cap chip = {n}
  OBVIOUS
<1>2. Min({n}) = n
  BY DEF Min
<1> QED
  BY <1>1, <1>2 DEF EndOf

\* It leaves the lines of the other controller alone, and an idle one idle.
LEMMA EndOfSlave == ASSUME NEW n \in 8..15 PROVE EndOf({n, 2}, 8..15) = {2}
<1>1. n # 2 /\ 2 \notin 8..15
  OBVIOUS
<1>3. {n, 2} \cap 8..15 = {n} /\ {n, 2} \ {n} = {2}
  BY <1>1, Zenon
<1>2. Min({n}) = n
  BY DEF Min
<1> QED
  BY <1>2, <1>3 DEF EndOf

\* pic_send_eoi leaves nothing in service, for every line and for both kinds of
\* spurious interrupt.
LEMMA EoiClears == ASSUME Inv, vec # NoIrq PROVE pic_send_eoi(vec) = {}
<1>1. vec \in Lines
  BY DEF Inv
<1>2. CASE isr = {vec, Route(vec)}
  <2>1. vec \in pic_read_isr
    BY <1>2 DEF pic_read_isr
  <2>2. CASE vec < 8
    <3>1. isr = {vec} /\ vec \in 0..7 /\ ~ vec >= 8
      BY <1>1, <1>2, <2>2 DEF Route, Lines
    <3> QED
      BY <2>1, <3>1, EndOfOne DEF pic_send_eoi
  <2>3. CASE vec >= 8
    <3>1. isr = {vec, 2} /\ vec \in 8..15
      BY <1>1, <1>2, <2>3 DEF Route, Lines
    <3>2. EndOf({2}, 0..7) = {}
      BY EndOfOne
    <3> QED
      BY <2>1, <2>3, <3>1, <3>2, EndOfSlave DEF pic_send_eoi
  <2> QED
    BY <1>1, <2>2, <2>3 DEF Lines
<1>3. CASE vec = 7 /\ isr = {}
  BY <1>3 DEF pic_send_eoi, pic_read_isr
<1>4. CASE vec = 15 /\ isr = {2}
  <2>1. EndOf({2}, 0..7) = {}
    BY EndOfOne
  <2> QED
    BY <1>4, <2>1 DEF pic_send_eoi, pic_read_isr
<1> QED
  BY <1>2, <1>3, <1>4 DEF Inv, InService

\* Init establishes the invariant.
LEMMA InvInit == Init => Inv
BY DEF Init, init_pic, Inv, InService, MaskInv, NoIrq, Lines

\* Every step preserves it.
LEMMA InvNext == Inv /\ [Next]_vars => Inv'
<1> SUFFICES ASSUME Inv, [Next]_vars PROVE Inv'
  OBVIOUS
<1> USE DEF Inv
<1>1. CASE Raise
  BY <1>1 DEF Raise, InService, MaskInv, Route
<1>2. CASE Accept
  <2>1. PICK n \in Lines : /\ Deliverable(n)
                           /\ isr' = isr \cup {n, Route(n)}
                           /\ vec' = n
    BY <1>2 DEF Accept
  <2>2. isr' = {n, Route(n)} /\ imr' = imr /\ pic_mask' = pic_mask
    BY <1>2, <2>1 DEF Accept, InService
  <2>3. n # NoIrq
    BY DEF Lines, NoIrq
  <2>4. Route(n) \in 0..7 /\ Route(n) \notin imr
    BY <2>1 DEF Deliverable, Route, Lines
  <2>5. InService'
    BY <2>1, <2>2, <2>3 DEF InService, Route
  <2>6. MaskInv'
    BY <2>1, <2>2, <2>4 DEF MaskInv, Route
  <2> QED
    BY <2>1, <2>5, <2>6
<1>3. CASE AcceptSpurious
  <2>1. PICK n \in Spurious : isr' = isr \cup ({Route(n)} \ {n}) /\ vec' = n
    BY <1>3 DEF AcceptSpurious
  <2>2. imr' = imr /\ pic_mask' = pic_mask /\ isr = {}
    BY <1>3 DEF AcceptSpurious, InService
  <2>3. n = 7 \/ n = 15
    BY <2>1, LinesAssumption
  <2>4. CASE n = 7
    <3>1. vec' = 7 /\ isr' = {}
      BY <2>1, <2>2, <2>4 DEF Route
    <3> QED
      BY <2>2, <3>1 DEF InService, MaskInv, NoIrq, Lines, Route
  <2>5. CASE n = 15
    <3>1. vec' = 15 /\ isr' = {2}
      BY <2>1, <2>2, <2>5 DEF Route
    <3> QED
      BY <2>2, <3>1 DEF InService, MaskInv, NoIrq, Lines, Route
  <2> QED
    BY <2>3, <2>4, <2>5
<1>4. CASE DriverMasks
  <2>1. vec = NoIrq /\ vec' = NoIrq /\ isr = {} /\ isr' = {}
    BY <1>4 DEF DriverMasks, InService
  <2>2. imr' = {n \in 0..7 : n \in pic_mask'}
    BY <1>4 DEF DriverMasks, pic_mask_irq, pic_unmmask_rqp, pic_write_mask
  <2> QED
    BY <2>1, <2>2 DEF InService, MaskInv
<1>5. CASE interrupt_handler
  <2>1. CASE panicked'
    BY <1>5, <2>1 DEF interrupt_handler, InService, MaskInv, Route
  <2>2. CASE ~panicked'
    <3>1. vec # NoIrq /\ vec' = NoIrq /\ isr' = pic_send_eoi(vec)
      BY <1>5, <2>2 DEF interrupt_handler, pit_irq_handler, driver_handler
    <3>2. isr' = {} /\ imr' = imr /\ pic_mask' = pic_mask
      BY <1>5, <3>1, EoiClears DEF interrupt_handler
    <3> QED
      BY <3>1, <3>2 DEF InService, MaskInv
  <2> QED
    BY <2>1, <2>2
<1>6. CASE scheduler \/ Halted \/ UNCHANGED vars
  BY <1>6 DEF scheduler, Halted, vars, InService, MaskInv, Route
<1> QED
  BY <1>1, <1>2, <1>3, <1>4, <1>5, <1>6 DEF Next

\* The controllers are ready whenever interrupts are on, whichever thread the
\* timer's handler switches to and whichever drivers there are.
THEOREM ControllersReady == Spec => []NoneInService
<1>1. Inv => NoneInService
  BY DEF Inv, InService, NoneInService
<1> QED
  BY <1>1, InvInit, InvNext, PTL DEF Spec

\* A line that is masked on the first controller, or the cascade, lets nothing
\* through, for every sequence of masking and unmasking.
THEOREM MasksHold == Spec => []MasterMaskHonoured
<1>1. Inv => MasterMaskHonoured
  BY DEF Inv, MaskInv, MasterMaskHonoured
<1> QED
  BY <1>1, InvInit, InvNext, PTL DEF Spec
=============================================================================
