-------------------------- MODULE KernelIrq_proofs --------------------------
(***************************************************************************)
(* KernelIrq for every size of the FIFOs and the port's buffer, every set  *)
(* of lines, loads and nesting of traps: the composition's steps are the   *)
(* trap shim's, and the slot never loses an edge.                          *)
(***************************************************************************)
EXTENDS KernelIrq, TrapShim_proofs, WellFoundedInduction

\* The steps of transmit_buffer.
Sending == {"fill", "disarm", "clear", "arm", "recheck", "reclear"}

\* The flow handler runs with interrupts off and for its own device; a slot is
\* masked only by a level handler, between its start and its end.
HandlerOK ==
  /\ hpc # "none" => ~mie /\ ~IsLoad("none")
  /\ hpc \in {"none", "enter"} \/ load.edge => ie
  /\ ~IsLoad("uart") => upc = "idle"
  /\ ~IsLoad("gpio") => gpc = "idle"
  /\ gpc \in {"action", "unmask"} => pending # {}

\* Who is in the UART's driver: start_tx with interrupts off, or the handler,
\* whose snapshot of INT_ENA misses nothing that its own transmitting enables.
PortOK ==
  /\ hpc \in {"enter", "start", "leave"} => upc = "idle"
  /\ hpc = "none" /\ upc # "idle" => ~mie /\ upc \in Sending /\ caller = "start"
  /\ hpc = "run" /\ IsLoad("uart") =>
       upc # "idle" /\ ena \subseteq snap /\ (upc \in Sending => caller = "int" /\ "tx" \in snap)
  /\ upc = "rx" => status \subseteq snap

\* But for a handler between its acknowledge and its last look at INT_ST, a
\* line that is high has its edge latched.
LatchOK ==
  IsLoad("uart") /\ load.edge /\ hpc \notin {"start", "run"} => (UartLine => ip)

\* The inductive invariant.
IInv == TypeOK /\ TrapIInv /\ HandlerOK /\ PortOK /\ LatchOK

----------------------------------------------------------------------------
(* The two devices.                                                        *)

\* A set of lines has a first one.
LEMMA LeastElement ==
  ASSUME NEW T \in SUBSET Nat, T # {}
  PROVE  \E l \in T : \A m \in T : l <= m
  <1>1. PICK l \in T : \A m \in T : <<m, l>> \notin OpToRel(<, Nat)
    BY WFMin, NatLessThanWellFounded, Zenon
  <1>2. \A m \in T : ~(m < l)
    BY <1>1, Zenon DEF OpToRel
  <1> QED
    BY <1>2

LEMMA LineIsPending ==
  ASSUME GpioTypeOK, pending # {}
  PROVE  Line \in pending /\ Line \in Lines
  <1>1. pending \in SUBSET Nat
    BY GpioAssumption DEF GpioTypeOK
  <1>2. \E l \in pending : \A m \in pending : l <= m
    BY <1>1, LeastElement
  <1>3. Line \in pending
    BY <1>2, Zenon DEF Line
  <1> QED
    BY <1>3 DEF GpioTypeOK

GpioOK == GpioTypeOK /\ (gpc \in {"action", "unmask"} => pending # {})

LEMMA GpioStep ==
  ASSUME GpioOK,
         \/ \E l \in Lines : Rise(l) \/ Fall(l)
         \/ ReadStatus \/ GpioHandling \/ HandlerEnd \/ UNCHANGED gpioVars
  PROVE  GpioOK'
  <1> USE GpioAssumption DEF GpioOK, GpioTypeOK
  <1>1. ASSUME NEW l \in Lines, Rise(l) \/ Fall(l)
        PROVE  GpioOK'
    BY <1>1 DEF Rise, Fall
  <1>2. CASE ReadStatus
    BY <1>2 DEF ReadStatus, GPIO_STATUS
  <1>3. CASE Flow
    BY <1>3 DEF Flow, Ack
  <1>4. CASE Action
    BY <1>4 DEF Action
  <1>5. CASE Unmask
    BY <1>5, LineIsPending DEF Unmask
  <1>6. CASE HandlerEnd
    BY <1>6 DEF HandlerEnd
  <1>7. CASE UNCHANGED gpioVars
    BY <1>7 DEF gpioVars
  <1> QED
    BY <1>1, <1>2, <1>3, <1>4, <1>5, <1>6, <1>7 DEF GpioHandling

LatchKept == (UartLine => ip) => (UartLine' => ip')

\* Whatever the registers come to, a line that was latched if it was high still
\* is: an edge is only missed while the line stays high, and then it was latched
\* before.
LEMMA SettleOK ==
  ASSUME UartTypeOK, NEW f \in 0 .. FifoSize, NEW r \in 0 .. MaxRx,
         NEW kept \in SUBSET Bits, NEW en \in SUBSET Bits, Settle(f, r, kept, en)
  PROVE  /\ fifo' \in 0 .. FifoSize /\ rx' \in 0 .. MaxRx
         /\ raw' \subseteq Bits /\ ena' \subseteq Bits /\ ena' = en /\ ip' \in BOOLEAN
         /\ LatchKept
  <1>1. fifo' = f /\ rx' = r /\ ena' = en /\ raw' = kept \cup Conditions(f, r)
    BY DEF Settle
  <1>2. ip' \in BOOLEAN
    BY Zenon DEF Settle
  <1>3. ip' <=> ip \/ (raw' \cap en # {} /\ (~UartLine \/ kept \cap en = {}))
    BY Zenon DEF Settle
  <1>4. UartLine' <=> raw' \cap en # {}
    BY <1>1 DEF UartLine, INT_ST
  <1>5. LatchKept
    BY <1>3, <1>4, Zenon DEF LatchKept
  <1>6. raw' \subseteq Bits
    BY <1>1 DEF Conditions
  <1> QED
    BY <1>1, <1>2, <1>5, <1>6

PortStep ==
  Drain \/ Arrive \/ Write \/ Transmitting \/ IntEnter \/ UartHandling \/ IntEnd

\* The driver's locals and the port's buffer.
LocalsOK ==
  /\ snap \subseteq Bits /\ status \subseteq Bits
  /\ txbuf \in 0 .. MaxBuf /\ caller \in {"none", "start", "int"}
  /\ upc \in {"idle", "fill", "disarm", "clear", "arm", "recheck", "reclear",
              "status", "rx", "handled"}

\* The port's own variables and the latch over any of its steps.
LEMMA UartStep ==
  ASSUME UartTypeOK, PortStep
  PROVE  UartTypeOK' /\ LatchKept
  <1>1. /\ fifo \in 0 .. FifoSize /\ rx \in 0 .. MaxRx /\ raw \in SUBSET Bits
        /\ ena \in SUBSET Bits /\ LocalsOK /\ unarmed \in BOOLEAN /\ FifoSize \in Nat
        /\ MaxRx \in Nat /\ MaxBuf \in Nat
    BY UartAssumption DEF UartTypeOK, LocalsOK
  <1>2. LocalsOK'
    <2>1. CASE Drain \/ Arrive
      BY <1>1, <2>1 DEF Drain, Arrive, LocalsOK
    <2>2. CASE Write
      BY <1>1, <2>2 DEF Write, LocalsOK
    <2>3. CASE FillFull
      BY <1>1, <2>3 DEF FillFull, Sent, LocalsOK
    <2>4. CASE Fill
      BY <1>1, <2>4 DEF Fill, LocalsOK
    <2>5. CASE Disarm
      BY <1>1, <2>5 DEF Disarm, Sent, LocalsOK
    <2>6. CASE ClearStale \/ Arm
      BY <1>1, <2>6 DEF ClearStale, Arm, LocalsOK
    <2>7. CASE Recheck
      BY <1>1, <2>7 DEF Recheck, Sent, LocalsOK
    <2>8. CASE Reclear
      BY <1>1, <2>8 DEF Reclear, Sent, LocalsOK
    <2>9. CASE IntEnter \/ IntEnd
      BY <1>1, <2>9 DEF IntEnter, IntEnd, LocalsOK
    <2>10. CASE IntStatus
      BY <1>1, <2>10 DEF IntStatus, INT_ST, LocalsOK
    <2>11. CASE IntRx
      BY <1>1, <2>11 DEF IntRx, LocalsOK
    <2>12. CASE IntHandled
      BY <1>1, <2>12 DEF IntHandled, LocalsOK
    <2> QED
      BY <2>1, <2>2, <2>3, <2>4, <2>5, <2>6, <2>7, <2>8, <2>9, <2>10, <2>11, <2>12
         DEF PortStep, Transmitting, UartHandling
  <1>3. unarmed' \in BOOLEAN
    <2>1. unarmed' = unarmed \/ unarmed' = FALSE \/ unarmed' = (txbuf > 0 /\ "tx" \notin ena)
      BY DEF PortStep, Transmitting, UartHandling, Drain, Arrive, Write, FillFull, Fill, Disarm,
             ClearStale, Arm, Recheck, Reclear, IntEnter, IntStatus, IntRx, IntHandled, IntEnd
    <2> QED
      BY <1>1, <2>1, Zenon
  <1>4. \/ UNCHANGED <<ip, fifo, rx, raw, ena>>
        \/ \E f \in 0 .. FifoSize, r \in 0 .. MaxRx, kept, en \in SUBSET Bits :
             Settle(f, r, kept, en)
    <2>1. CASE Write \/ FillFull \/ Recheck \/ IntEnter \/ IntStatus \/ IntEnd
      BY <2>1 DEF Write, FillFull, Recheck, IntEnter, IntStatus, IntEnd
    <2>2. CASE Drain
      BY <1>1, <2>2 DEF Drain
    <2>3. CASE Arrive
      BY <1>1, <2>3 DEF Arrive
    <2>4. CASE Fill
      <3> DEFINE n == IF txbuf < FifoSize - fifo THEN txbuf ELSE FifoSize - fifo
      <3>1. fifo + n \in 0 .. FifoSize
        BY <1>1, <2>4 DEF Fill, LocalsOK
      <3>2. Settle(fifo + n, rx, raw, ena)
        BY <2>4 DEF Fill
      <3> QED
        BY <1>1, <3>1, <3>2
    <2>5. CASE Disarm \/ Arm
      <3>1. ena \ {"tx"} \in SUBSET Bits /\ ena \cup {"tx"} \in SUBSET Bits
        BY <1>1 DEF Bits
      <3> QED
        BY <1>1, <2>5, <3>1 DEF Disarm, Arm
    <2>6. CASE ClearStale \/ Reclear
      <3>1. raw \ {"tx"} \in SUBSET Bits
        BY <1>1
      <3> QED
        BY <1>1, <2>6, <3>1 DEF ClearStale, Reclear
    <2>7. CASE IntRx
      <3>1. (IF "rx" \in status THEN 0 ELSE rx) \in 0 .. MaxRx
        BY <1>1
      <3> QED
        BY <1>1, <2>7, <3>1 DEF IntRx
    <2>8. CASE IntHandled
      <3>1. raw \ (status \ {"tx"}) \in SUBSET Bits
        BY <1>1
      <3> QED
        BY <1>1, <2>8, <3>1 DEF IntHandled
    <2> QED
      BY <2>1, <2>2, <2>3, <2>4, <2>5, <2>6, <2>7, <2>8 DEF PortStep, Transmitting, UartHandling
  <1>5. CASE UNCHANGED <<ip, fifo, rx, raw, ena>>
    BY <1>2, <1>3, <1>5 DEF UartTypeOK, LocalsOK, LatchKept, UartLine, INT_ST
  <1>6. ASSUME NEW f \in 0 .. FifoSize, NEW r \in 0 .. MaxRx,
               NEW kept \in SUBSET Bits, NEW en \in SUBSET Bits, Settle(f, r, kept, en)
        PROVE  UartTypeOK' /\ LatchKept
    BY <1>2, <1>3, <1>6, SettleOK DEF UartTypeOK, LocalsOK, LatchKept
  <1> QED
    BY <1>4, <1>5, <1>6

----------------------------------------------------------------------------
(* The composition.                                                        *)

\* Every step is one of the trap shim's, or leaves the traps alone.
LEMMA StepTraps == [Next]_vars => [TrapNext]_trapVars
  BY DEF Next, vars, Kernel, TakeIrq, SystemCall, FlowEnter, DriverStart, DriverStep, FlowLeave,
         Transmit, KernelRuns, StartTx, TrapsOnly, UartMoves, LinesMove, TrapNext, KernelStep

LEMMA InitIInv == Init => IInv
  <1> SUFFICES ASSUME Init PROVE IInv
    OBVIOUS
  <1>1. TrapIInv
    BY InitTrap DEF Init
  <1>2. UartTypeOK
    <2>1. ip \in BOOLEAN /\ unarmed \in BOOLEAN
      BY Zenon DEF Init, UartInit
    <2> QED
      BY <2>1, UartAssumption DEF Init, UartInit, UartTypeOK, Bits
  <1>3. GpioTypeOK
    BY DEF Init, GpioInit, GpioTypeOK
  <1>4. TypeOK
    <2>1. ie \in BOOLEAN
      BY Zenon DEF Init
    <2> QED
      BY <1>1, <1>2, <1>3, <2>1 DEF Init, TypeOK, TrapIInv
  <1>5. HandlerOK /\ PortOK
    BY DEF Init, UartInit, GpioInit, HandlerOK, PortOK
  <1>6. LatchOK
    BY DEF Init, UartInit, LatchOK, UartLine, INT_ST
  <1> QED
    BY <1>1, <1>4, <1>5, <1>6 DEF IInv

\* What every step has in common: the traps, the devices' types, and an edge
\* that is latched unless the slot's latch is cleared for a handler to begin.
LEMMA StepCommon ==
  ASSUME IInv, Next
  PROVE  /\ TrapIInv' /\ UartTypeOK' /\ GpioOK' /\ UNCHANGED load
         /\ LatchKept \/ FlowEnter
  <1>1. TrapIInv'
    BY StepTraps, TrapNextIInv DEF IInv
  <1>2. GpioOK'
    <2>1. GpioOK
      BY DEF IInv, TypeOK, HandlerOK, GpioOK
    <2>2. \/ \E l \in Lines : Rise(l) \/ Fall(l)
          \/ ReadStatus \/ GpioHandling \/ HandlerEnd \/ UNCHANGED gpioVars
      BY DEF Next, Kernel, TakeIrq, SystemCall, FlowEnter, DriverStart, DriverStep,
         FlowLeave, Transmit, KernelRuns, StartTx, TrapsOnly, UartMoves, LinesMove
    <2> QED
      BY <2>1, <2>2, GpioStep
  <1>3. UartTypeOK' /\ (LatchKept \/ FlowEnter)
    <2>1. UartTypeOK
      BY DEF IInv, TypeOK
    <2>2. PortStep \/ UNCHANGED <<ip, uartVars>> \/ FlowEnter
      BY DEF Next, Kernel, TakeIrq, SystemCall, DriverStart, DriverStep, FlowLeave, Transmit,
         KernelRuns, StartTx, TrapsOnly, UartMoves, LinesMove, PortStep
    <2>3. CASE PortStep
      BY <2>1, <2>3, UartStep
    <2>4. CASE UNCHANGED <<ip, uartVars>>
      BY <2>1, <2>4 DEF uartVars, UartTypeOK, LatchKept, UartLine, INT_ST
    <2>5. CASE FlowEnter
      <3>1. ip' \in BOOLEAN
        BY <2>5, Zenon DEF FlowEnter, clic_irq_ack
      <3> QED
        BY <2>1, <2>5, <3>1 DEF FlowEnter, uartVars, UartTypeOK
    <2> QED
      BY <2>2, <2>3, <2>4, <2>5
  <1>4. UNCHANGED load
    BY DEF Next, Kernel, TakeIrq, SystemCall, FlowEnter, DriverStart, DriverStep,
       FlowLeave, Transmit, KernelRuns, StartTx, TrapsOnly, UartMoves, LinesMove, irqVars
  <1> QED
    BY <1>1, <1>2, <1>3, <1>4

\* The latch while its clause applies: only a flow handler that begins clears
\* it, and one that ends has seen INT_ST clear of all that INT_ENA lets through.
LEMMA StepLatch ==
  ASSUME IInv, Next
  PROVE  LatchOK'
  <1>1. UNCHANGED load /\ (LatchKept \/ FlowEnter)
    BY StepCommon
  <1>2. CASE FlowEnter
    BY <1>2 DEF FlowEnter, LatchOK
  <1>3. CASE LatchKept /\ (hpc' \notin {"start", "run"} => hpc \notin {"start", "run"})
    BY <1>1, <1>3 DEF IInv, LatchOK, LatchKept, IsLoad
  <1>4. CASE hpc \in {"start", "run"} /\ hpc' \notin {"start", "run"}
    <2>1. DriverStep /\ hpc = "run"
      <3>1. ~TakeIrq
        BY <1>4 DEF IInv, HandlerOK, TakeIrq, Trap
      <3> QED
        BY <1>4, <3>1 DEF Next, Kernel, SystemCall, FlowEnter, DriverStart, DriverStep,
           FlowLeave, Transmit, KernelRuns, StartTx, TrapsOnly, UartMoves, LinesMove, irqVars
    <2>2. CASE IntEnd
      <3>1. ~UartLine'
        <4>1. UNCHANGED <<raw, ena>> /\ raw \cap ena \cap snap = {}
          BY <2>2 DEF IntEnd, INT_ST
        <4>2. IsLoad("uart")
          BY <2>2 DEF IInv, HandlerOK, IntEnd
        <4>3. ena \subseteq snap
          BY <2>1, <4>2 DEF IInv, PortOK
        <4> QED
          BY <4>1, <4>3 DEF UartLine, INT_ST
      <3> QED
        BY <3>1 DEF LatchOK
    <2>3. CASE HandlerEnd
      <3>1. IsLoad("gpio")
        BY <2>3 DEF IInv, HandlerOK, HandlerEnd
      <3>2. ~IsLoad("uart")'
        BY <1>1, <3>1 DEF IsLoad
      <3> QED
        BY <3>2 DEF LatchOK
    <2> QED
      BY <1>4, <2>1, <2>2, <2>3 DEF DriverStep
  <1> QED
    BY <1>1, <1>2, <1>3, <1>4

\* The flow handler goes from step to step with interrupts off.
LEMMA StepHandler ==
  ASSUME IInv, Next
  PROVE  HandlerOK'
  <1> USE DEF IInv, IsLoad
  <1>1. UNCHANGED load /\ (gpc' \in {"action", "unmask"} => pending' # {})
    BY StepCommon DEF GpioOK
  <1>2. CASE TakeIrq
    BY <1>1, <1>2 DEF TakeIrq, Trap, HandlerOK, uartVars, gpioVars
  <1>3. CASE FlowEnter
    BY <1>1, <1>3 DEF FlowEnter, clic_irq_mask, HandlerOK, trapVars, uartVars, gpioVars
  <1>4. CASE DriverStart
    BY <1>1, <1>4 DEF DriverStart, IntEnter, ReadStatus, HandlerOK, trapVars, uartVars, gpioVars
  <1>5. CASE DriverStep
    <2>1. hpc = "run" /\ hpc' # "none" /\ hpc' # "enter" /\ UNCHANGED <<trapVars, load, ie>>
      BY <1>5 DEF DriverStep
    <2>2. ~IsLoad("uart") => upc' = "idle"
      BY <1>5 DEF DriverStep, HandlerOK, UartHandling, IntStatus, IntRx, IntHandled, IntEnd, uartVars
    <2>3. ~IsLoad("gpio") => gpc' = "idle"
      BY <1>5 DEF DriverStep, HandlerOK, GpioHandling, Flow, Action, Unmask, HandlerEnd, gpioVars
    <2> QED
      BY <1>1, <2>1, <2>2, <2>3 DEF HandlerOK, trapVars
  <1>6. CASE FlowLeave
    BY <1>1, <1>6 DEF FlowLeave, clic_irq_unmask, HandlerOK, uartVars, gpioVars
  <1>7. CASE Transmit
    <2>1. ~IsLoad("uart") => FALSE
      BY <1>7 DEF HandlerOK, Transmit, Transmitting, FillFull, Fill, Disarm, ClearStale, Arm,
                  Recheck, Reclear
    <2> QED
      BY <1>1, <1>7, <2>1 DEF Transmit, HandlerOK, trapVars, gpioVars, irqVars
  <1>8. CASE KernelRuns
    BY <1>1, <1>8 DEF KernelRuns, HandlerOK, uartVars, gpioVars, irqVars
  <1>9. CASE StartTx
    BY <1>1, <1>9 DEF StartTx, LockIrqs, Write, HandlerOK, gpioVars, irqVars
  <1>10. CASE TrapsOnly
    BY <1>1, <1>10 DEF TrapsOnly, HandlerOK, uartVars, gpioVars, irqVars
  <1>11. CASE SystemCall
    BY <1>1, <1>11 DEF SystemCall, Trap, HandlerOK, uartVars, gpioVars, irqVars
  <1>12. CASE UartMoves
    BY <1>1, <1>12 DEF UartMoves, Drain, Arrive, HandlerOK, trapVars, gpioVars, irqVars
  <1>13. CASE LinesMove
    BY <1>1, <1>13 DEF LinesMove, Rise, Fall, HandlerOK, trapVars, uartVars, irqVars
  <1> QED
    BY <1>2, <1>3, <1>4, <1>5, <1>6, <1>7, <1>8, <1>9, <1>10, <1>11, <1>12, <1>13 DEF Next, Kernel

\* The port is the handler's or start_tx's, never both, and what the handler
\* enables it also looks for.
LEMMA StepPort ==
  ASSUME IInv, Next
  PROVE  PortOK'
  <1> USE DEF IInv, IsLoad
  <1>1. UNCHANGED load
    BY StepCommon
  <1>2. CASE TakeIrq
    BY <1>1, <1>2 DEF TakeIrq, Trap, HandlerOK, PortOK, uartVars
  <1>3. CASE FlowEnter
    BY <1>1, <1>3 DEF FlowEnter, PortOK, uartVars
  <1>4. CASE DriverStart
    BY <1>1, <1>4 DEF DriverStart, IntEnter, PortOK, Sending, uartVars
  <1>5. CASE DriverStep
    <2>1. hpc = "run" /\ UNCHANGED <<mie, load>>
      BY <1>5 DEF DriverStep, trapVars
    <2>2. CASE IntStatus /\ hpc' = hpc
      BY <2>1, <2>2 DEF IntStatus, HandlerOK, PortOK, Sending
    <2>3. CASE IntRx /\ hpc' = hpc
      BY <2>1, <2>3 DEF IntRx, Settle, HandlerOK, PortOK, Sending
    <2>4. CASE IntHandled /\ hpc' = hpc
      BY <2>1, <2>4 DEF IntHandled, Settle, HandlerOK, PortOK, Sending
    <2>5. CASE IntEnd /\ hpc' = "leave"
      BY <2>1, <2>5 DEF IntEnd, PortOK
    <2>6. CASE GpioHandling /\ UNCHANGED <<ip, uartVars, hpc>>
      BY <2>1, <2>6 DEF PortOK, uartVars
    <2>7. CASE HandlerEnd /\ UNCHANGED <<ip, uartVars>> /\ hpc' = "leave"
      <3>1. IsLoad("gpio")
        BY <2>7 DEF HandlerOK, HandlerEnd
      <3>2. upc' = "idle"
        BY <2>7, <3>1 DEF HandlerOK, uartVars
      <3> QED
        BY <2>7, <3>2 DEF PortOK
    <2> QED
      BY <1>5, <2>1, <2>2, <2>3, <2>4, <2>5, <2>6, <2>7 DEF DriverStep, UartHandling
  <1>6. CASE FlowLeave
    BY <1>1, <1>6 DEF FlowLeave, PortOK, uartVars
  <1>7. CASE Transmit
    <2>1. /\ IsLoad("uart") /\ upc \in Sending /\ Transmitting /\ UNCHANGED <<mie, hpc>>
          /\ hpc \in {"none", "run"}
      BY <1>7 DEF HandlerOK, Transmit, Transmitting, FillFull, Fill, Disarm, ClearStale, Arm,
                  Recheck, Reclear, Sending, trapVars, irqVars
    <2>2. UNCHANGED <<snap, status>> /\ upc' # "rx"
      BY <2>1 DEF Transmitting, FillFull, Fill, Disarm, ClearStale, Arm, Recheck, Reclear, Sent
    <2>3. \/ upc' \in Sending /\ caller' = caller
          \/ upc' = (IF caller = "start" THEN "idle" ELSE "handled")
      BY <2>1 DEF Transmitting, FillFull, Fill, Disarm, ClearStale, Arm, Recheck, Reclear, Sent,
                  Sending
    <2>4. ena' \subseteq ena \cup {"tx"}
      BY <2>1 DEF Transmitting, FillFull, Fill, Disarm, ClearStale, Arm, Recheck, Reclear, Settle
    <2>5. CASE hpc = "none"
      <3>1. ~mie /\ caller = "start"
        BY <2>1, <2>5 DEF PortOK, Sending
      <3> QED
        BY <2>1, <2>2, <2>3, <2>5, <3>1 DEF PortOK
    <2>6. CASE hpc = "run"
      <3>1. ena \subseteq snap /\ caller = "int" /\ "tx" \in snap
        BY <2>1, <2>6 DEF PortOK
      <3>2. ena' \subseteq snap'
        BY <2>2, <2>4, <3>1
      <3>3. upc' # "idle"
        BY <2>3, <3>1 DEF Sending
      <3>4. upc' \in Sending => caller' = "int"
        BY <2>3, <3>1 DEF Sending
      <3> QED
        BY <2>1, <2>2, <2>6, <3>1, <3>2, <3>3, <3>4 DEF PortOK
    <2> QED
      BY <2>1, <2>5, <2>6
  <1>8. CASE KernelRuns
    BY <1>1, <1>8 DEF KernelRuns, PortOK, uartVars, irqVars
  <1>9. CASE StartTx
    BY <1>1, <1>9 DEF StartTx, LockIrqs, Write, HandlerOK, PortOK, Sending, irqVars
  <1>10. CASE TrapsOnly
    BY <1>1, <1>10 DEF TrapsOnly, HandlerOK, PortOK, uartVars, irqVars
  <1>11. CASE SystemCall
    BY <1>1, <1>11 DEF SystemCall, Trap, PortOK, uartVars, irqVars
  <1>12. CASE UartMoves
    BY <1>1, <1>12 DEF UartMoves, Drain, Arrive, Settle, PortOK, trapVars, irqVars
  <1>13. CASE LinesMove
    BY <1>1, <1>13 DEF LinesMove, PortOK, trapVars, uartVars, irqVars
  <1> QED
    BY <1>2, <1>3, <1>4, <1>5, <1>6, <1>7, <1>8, <1>9, <1>10, <1>11, <1>12, <1>13 DEF Next, Kernel

LEMMA StepIInv == IInv /\ [Next]_vars => IInv'
  <1> SUFFICES ASSUME IInv, [Next]_vars PROVE IInv'
    OBVIOUS
  <1>1. CASE Next
    <2>1. /\ TrapIInv' /\ UartTypeOK' /\ GpioTypeOK' /\ UNCHANGED load
          /\ HandlerOK' /\ PortOK' /\ LatchOK'
      BY <1>1, StepCommon, StepHandler, StepPort, StepLatch DEF GpioOK
    <2>2. hpc' \in {"none", "enter", "start", "run", "leave"}
      BY <1>1 DEF Next, Kernel, TakeIrq, SystemCall, FlowEnter, DriverStart, DriverStep,
         FlowLeave, Transmit, KernelRuns, StartTx, TrapsOnly, UartMoves, LinesMove, irqVars,
         IInv, TypeOK
    <2>3. ie' \in BOOLEAN
      <3>1. ie' = ie \/ ie' = TRUE \/ ie' = FALSE
        BY <1>1 DEF Next, Kernel, TakeIrq, SystemCall, FlowEnter, DriverStart, DriverStep,
           FlowLeave, Transmit, KernelRuns, StartTx, TrapsOnly, UartMoves, LinesMove, irqVars,
           clic_irq_mask, clic_irq_unmask
      <3>2. ie \in BOOLEAN
        BY DEF IInv, TypeOK
      <3> QED
        BY <3>1, <3>2, Zenon
    <2> QED
      BY <2>1, <2>2, <2>3 DEF IInv, TypeOK, TrapIInv
  <1>2. CASE UNCHANGED vars
    <2>1. TrapIInv'
      BY <1>2, StepTraps, TrapNextIInv DEF IInv
    <2>2. TypeOK'
      BY <1>2, <2>1 DEF IInv, TypeOK, TrapIInv, vars, uartVars, gpioVars, irqVars, UartTypeOK, GpioTypeOK
    <2>3. HandlerOK' /\ PortOK' /\ LatchOK'
      BY <1>2 DEF IInv, vars, uartVars, gpioVars, irqVars, trapVars, HandlerOK, PortOK, LatchOK,
                  UartLine, INT_ST, IsLoad
    <2> QED
      BY <2>1, <2>2, <2>3 DEF IInv
  <1> QED
    BY <1>1, <1>2

----------------------------------------------------------------------------

\* The invariant holds for every load.
THEOREM Safety == Spec => []IInv
  <1>1. IInv /\ [Next]_vars => IInv'
    BY StepIInv
  <1> QED
    BY InitIInv, <1>1, PTL DEF Spec

\* Every variable stays in its type.
THEOREM TypeCorrect == Spec => []TypeOK
  <1>1. IInv => TypeOK
    BY DEF IInv
  <1> QED
    BY Safety, <1>1, PTL

\* The interrupt path traps and returns only as the shims do: what holds of
\* them alone holds of the composition.
THEOREM ImplementsTraps == Spec => TrapSpec
  <1>1. Init => TrapInit
    BY DEF Init
  <1>2. [Next]_vars => [TrapNext]_trapVars
    BY StepTraps
  <1> QED
    BY <1>1, <1>2, PTL DEF Spec, TrapSpec

\* Whatever interrupts what, the outermost trap and no other is taken for one
\* from user space.
THEOREM Classified == Spec => []ClassifiesTraps
  <1>1. IInv => ClassifiesTraps
    BY TrapProperties DEF IInv
  <1> QED
    BY Safety, <1>1, PTL

\* No signal, handler or return from one makes a system call restart twice, or
\* restarts what was none.
THEOREM Restarts == Spec => []RestartJustified
  <1>1. IInv => RestartJustified
    BY TrapProperties DEF IInv
  <1> QED
    BY Safety, <1>1, PTL

\* Every mret restores the interrupt enable of what was interrupted.
THEOREM Returns == Spec => ReturnsAsTrapped
  BY ImplementsTraps, TrapReturns, PTL

\* Outside its handler the slot is enabled, and a line that is high has its
\* edge latched.
THEOREM EdgesKept == Spec => []NoLostEdge
  <1>1. ASSUME IInv, hpc = "none", load.edge, Line_High
        PROVE  ip
    <2>1. load.device # "gpio"
      BY <1>1, LoadsAssumption DEF IInv, TypeOK
    <2>2. IsLoad("uart") /\ UartLine
      BY <1>1, <2>1 DEF Line_High, IsLoad
    <2> QED
      BY <1>1, <2>2 DEF IInv, LatchOK
  <1>2. IInv => NoLostEdge
    BY <1>1 DEF IInv, HandlerOK, NoLostEdge
  <1> QED
    BY Safety, <1>2, PTL
=============================================================================
