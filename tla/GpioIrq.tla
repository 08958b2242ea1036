------------------------------ MODULE GpioIrq ------------------------------
(***************************************************************************)
(* A GPIO bank and its irqchip (patches/linux/0002): the lines of the bank *)
(* share one interrupt.  The chained handler reads GPIO_STATUS once and    *)
(* runs each pending line's flow handler, which acknowledges an edge before *)
(* its action and masks a level around it.                                 *)
(***************************************************************************)
EXTENDS Integers, FiniteSets

CONSTANTS
  Lines,      \* the lines with a user: numbers, handled in that order
  EdgeLines   \* those of type IRQ_TYPE_EDGE_RISING, the others LEVEL_HIGH

ASSUME GpioAssumption == Lines \subseteq Nat /\ EdgeLines \subseteq Lines

VARIABLES
  pad,      \* the lines that are high
  latch,    \* GPIO_STATUS: the edges that are latched
  int_ena,  \* PIN_INT_ENA of each line
  pending,  \* the handler's local copy of GPIO_STATUS
  gpc,      \* the step the handler is at
  owed      \* history: the lines that fired since their action began

gpioVars == <<pad, latch, int_ena, pending, gpc, owed>>

----------------------------------------------------------------------------

\* External: a level line is pending as long as it is high.
GPIO_STATUS == latch \cup (pad \ EdgeLines)

GpioLine == GPIO_STATUS \cap int_ena # {}

Rise(l) ==
  /\ l \notin pad
  /\ pad' = pad \cup {l}
  /\ latch' = IF l \in EdgeLines THEN latch \cup {l} ELSE latch
  /\ owed' = owed \cup {l}
  /\ UNCHANGED <<int_ena, pending, gpc>>

\* An edge line may drop at any time; a level is held until it is served.
Fall(l) ==
  /\ l \in pad /\ l \in EdgeLines
  /\ pad' = pad \ {l}
  /\ UNCHANGED <<latch, int_ena, pending, gpc, owed>>

----------------------------------------------------------------------------

\* esp32p4_gpio_irq_handler: the one read.
ReadStatus ==
  /\ gpc = "idle"
  /\ pending' = GPIO_STATUS
  /\ gpc' = "next"
  /\ UNCHANGED <<pad, latch, int_ena, owed>>

\* for_each_set_bit
Line == CHOOSE l \in pending : \A m \in pending : l <= m

Ack(l) == latch' = latch \ {l}

\* handle_edge_irq acknowledges, handle_level_irq masks and acknowledges.
Flow ==
  /\ gpc = "next" /\ pending # {}
  /\ Ack(Line)
  /\ int_ena' = IF Line \in EdgeLines THEN int_ena ELSE int_ena \ {Line}
  /\ gpc' = "action"
  /\ UNCHANGED <<pad, pending, owed>>

\* External: the action serves what has happened until now, which makes the
\* source of a level drop it.
Action ==
  /\ gpc = "action"
  /\ owed' = owed \ {Line}
  /\ pad' = IF Line \in EdgeLines THEN pad ELSE pad \ {Line}
  /\ gpc' = "unmask"
  /\ UNCHANGED <<latch, int_ena, pending>>

\* What it must not be: the edge is acknowledged once it has been handled.
UnmaskAcking ==
  /\ gpc = "unmask"
  /\ Ack(Line)
  /\ int_ena' = int_ena \cup {Line}
  /\ pending' = pending \ {Line}
  /\ gpc' = "next"
  /\ UNCHANGED <<pad, owed>>

Unmask ==
  /\ gpc = "unmask"
  /\ int_ena' = int_ena \cup {Line}
  /\ pending' = pending \ {Line}
  /\ gpc' = "next"
  /\ UNCHANGED <<pad, latch, owed>>

HandlerEnd ==
  /\ gpc = "next" /\ pending = {}
  /\ gpc' = "idle"
  /\ UNCHANGED <<pad, latch, int_ena, pending, owed>>

----------------------------------------------------------------------------

\* probe has cleared every stale latch; each user's request has unmasked its line.
GpioInit ==
  /\ pad = {} /\ latch = {} /\ int_ena = Lines
  /\ pending = {} /\ gpc = "idle" /\ owed = {}

GpioHandling == Flow \/ Action \/ Unmask

GpioTypeOK ==
  /\ pad \subseteq Lines /\ latch \subseteq EdgeLines /\ int_ena \subseteq Lines
  /\ pending \subseteq Lines /\ gpc \in {"idle", "next", "action", "unmask"}
  /\ owed \subseteq Lines
=============================================================================
