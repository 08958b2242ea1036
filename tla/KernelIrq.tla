----------------------------- MODULE KernelIrq -----------------------------
(***************************************************************************)
(* The interrupt path from a device's line to its driver and back to the   *)
(* interrupted code: the CLIC slot and its irqchip (drivers/irqchip/       *)
(* irq-esp32p4-clic.c), the dispatch in irq-riscv-intc.c, and the flow     *)
(* handlers, composed with the traps (TrapShim) and two devices (UartIrq,  *)
(* GpioIrq).  One core: a handler runs on top of what it interrupted, with *)
(* interrupts off.  A behaviour has one load, picked at the start, which   *)
(* says whose interrupts arrive and how its slot triggers.                 *)
(***************************************************************************)
EXTENDS TrapShim, UartIrq, GpioIrq

CONSTANT
  Loads  \* the loads: [device : {"none", "uart", "gpio"}, edge : BOOLEAN]

\* The GPIO slot triggers on the level: the bank's latches are its edges.
ASSUME LoadsAssumption ==
  /\ Loads \subseteq [device : {"none", "uart", "gpio"}, edge : BOOLEAN]
  /\ \A l \in Loads : l.device = "gpio" => ~l.edge

VARIABLES
  load,  \* the load; its edge is clic_trig_edge of the slot
  ie,    \* the slot's INTIE
  hpc    \* the step the slot's flow handler is at

irqVars == <<load, ie, hpc>>

vars == <<trapVars, ip, uartVars, gpioVars, irqVars>>

IsLoad(d) == load.device = d

----------------------------------------------------------------------------
(* The CLIC slot.                                                          *)

Line_High == IF IsLoad("uart") THEN UartLine ELSE IsLoad("gpio") /\ GpioLine

\* A level slot's INTIP mirrors the line; an edge slot's is a latch.
Pending == IF load.edge THEN ip ELSE Line_High

clic_irq_mask == ie' = FALSE

clic_irq_unmask == ie' = TRUE

\* Only an edge slot's latch is cleared.
clic_irq_ack == ip' = (ip /\ ~load.edge)

\* The interrupt of a device the model leaves out comes and goes as it likes.
TakeIrq ==
  /\ Trap("irq")
  /\ IF IsLoad("none") THEN UNCHANGED hpc ELSE ie /\ Pending /\ hpc' = "enter"
  /\ UNCHANGED <<ip, uartVars, gpioVars, load, ie>>

----------------------------------------------------------------------------
(* The flow handler: handle_edge_irq acknowledges, runs the action and is  *)
(* done; handle_level_irq and chained_irq_enter mask and acknowledge.      *)

FlowEnter ==
  /\ hpc = "enter" /\ hpc' = "start"
  /\ clic_irq_ack
  /\ IF load.edge THEN UNCHANGED ie ELSE clic_irq_mask
  /\ UNCHANGED <<trapVars, uartVars, gpioVars, load>>

DriverStart ==
  /\ hpc = "start" /\ hpc' = "run"
  /\ \/ IsLoad("uart") /\ IntEnter /\ UNCHANGED gpioVars
     \/ IsLoad("gpio") /\ ReadStatus /\ UNCHANGED <<ip, uartVars>>
  /\ UNCHANGED <<trapVars, load, ie>>

DriverStep ==
  /\ hpc = "run"
  /\ \/ UartHandling /\ UNCHANGED <<gpioVars, hpc>>
     \/ IntEnd /\ hpc' = "leave" /\ UNCHANGED gpioVars
     \/ GpioHandling /\ UNCHANGED <<ip, uartVars, hpc>>
     \/ HandlerEnd /\ hpc' = "leave" /\ UNCHANGED <<ip, uartVars>>
  /\ UNCHANGED <<trapVars, load, ie>>

\* What it must not be: a level slot stays masked.
FlowLeaveMasked ==
  /\ hpc = "leave" /\ hpc' = "none"
  /\ IrqDone
  /\ UNCHANGED <<ip, uartVars, gpioVars, load, ie>>

FlowLeave ==
  /\ hpc = "leave" /\ hpc' = "none"
  /\ IrqDone
  /\ IF load.edge THEN UNCHANGED ie ELSE clic_irq_unmask
  /\ UNCHANGED <<ip, uartVars, gpioVars, load>>

----------------------------------------------------------------------------
(* The rest of the kernel, and what runs above it.                         *)

\* uart_write takes the port's lock; the lock is held for transmit_buffer.
StartTx ==
  /\ IsLoad("uart") /\ LockIrqs /\ Write
  /\ UNCHANGED <<gpioVars, irqVars>>

\* transmit_buffer, for the system call or for the interrupt.
Transmit ==
  /\ hpc \in {"none", "run"} /\ Transmitting
  /\ UNCHANGED <<trapVars, gpioVars, irqVars>>

\* No system call ends, and interrupts do not come back, within the lock.
KernelRuns ==
  /\ KernelStep /\ upc = "idle" /\ hpc = "none"
  /\ UNCHANGED <<ip, uartVars, gpioVars, irqVars>>

\* Locks, signals, faults, and a user whose registers change: without a device.
TrapsOnly ==
  /\ IsLoad("none")
  /\ LockIrqs \/ Signal \/ MpieLost \/ UserRuns \/ Trap("fault")
  /\ UNCHANGED <<ip, uartVars, gpioVars, irqVars>>

SystemCall ==
  /\ ~IsLoad("gpio")
  /\ Trap("ecall")
  /\ UNCHANGED <<ip, uartVars, gpioVars, irqVars>>

\* The hardware.
UartMoves ==
  /\ IsLoad("uart")
  /\ Drain \/ Arrive
  /\ UNCHANGED <<trapVars, gpioVars, irqVars>>

LinesMove ==
  /\ IsLoad("gpio")
  /\ \E l \in Lines : Rise(l) \/ Fall(l)
  /\ UNCHANGED <<trapVars, ip, uartVars, irqVars>>

----------------------------------------------------------------------------

Init ==
  /\ TrapInit /\ UartInit /\ GpioInit
  /\ load \in Loads /\ ie = TRUE /\ hpc = "none"

\* What the core does in the kernel.
Kernel == FlowEnter \/ DriverStart \/ DriverStep \/ FlowLeave \/ Transmit \/ KernelRuns

Next ==
  \/ TakeIrq \/ SystemCall \/ Kernel \/ StartTx \/ TrapsOnly \/ UartMoves \/ LinesMove

UartSends == UartMoves /\ fifo' < fifo

\* The core goes on in the kernel, an interrupt that stays pending is taken
\* when they come back on however often, and the UART sends.
Fairness == WF_vars(Kernel) /\ SF_vars(TakeIrq) /\ WF_vars(UartSends)

Spec == Init /\ [][Next]_vars /\ Fairness

----------------------------------------------------------------------------

\* Every variable stays in its type.
TypeOK ==
  /\ TrapTypeOK /\ UartTypeOK /\ GpioTypeOK
  /\ load \in Loads /\ ie \in BOOLEAN
  /\ hpc \in {"none", "enter", "start", "run", "leave"}

\* Whenever the slot's handler is not running the slot can raise the next
\* interrupt: it is enabled and, when it triggers on edges, a line that is high
\* has its edge still latched.  A UART line that stays high across the handler
\* without one would silence the port for good.
NoLostEdge ==
  hpc = "none" => ie /\ (load.edge /\ Line_High => ip)

\* The port's buffer never sticks at a number of characters: interrupts alone
\* move them on when no further write does, and a full buffer accepts none.  The
\* exception is a write that found the FIFO full with TXFIFO_EMPTY disabled:
\* nothing is armed for that one until the next write.
TxMoves == \A n \in 1 .. MaxBuf : txbuf = n ~> (txbuf # n \/ unarmed)

\* Every line that fires has an action that begins after it, though the handler
\* reads GPIO_STATUS only once and lines fire again while it runs.
GpioServed == \A l \in Lines : l \in owed ~> l \notin owed
=============================================================================
