----------------------------- MODULE Clockevent -----------------------------
(***************************************************************************)
(* The one-shot alarm of the SYSTIMER and the tick that re-arms it         *)
(* (patches/linux/0001, drivers/clocksource/timer-esp32p4-systimer.c, with *)
(* the lateness check of 0016 and the level-triggered slot of 0022).       *)
(*                                                                         *)
(* The kernel is built HZ_PERIODIC without high-resolution timers, so the  *)
(* alarm is programmed in one place only: the tick's own handler, with     *)
(* interrupts off.  An alarm that is armed behind the counter never fires, *)
(* and nothing else would ever arm another.                                *)
(*                                                                         *)
(* Every register access is a step, and the counter may advance between    *)
(* any two of them.  Instants are kept as what is left until them: a       *)
(* target of 3 is three counter ticks ahead, -1 is one tick behind.        *)
(***************************************************************************)
EXTENDS Integers

CONSTANTS
  Period,    \* counter ticks in one jiffy
  Rounding,  \* counter ticks a converted delta may come out short
  Floor,     \* lateness beyond this is not told apart: bounds the model
  MinDelta,  \* the smallest delta the device is registered with
  MaxSlow,   \* counter ticks one pass through set_next may take
  Wraps      \* whether the 52-bit counter may wrap while it is read

ASSUME TickAssumption ==
  /\ Period \in Nat /\ Rounding \in Nat /\ Floor \in Nat
  /\ Rounding < Period /\ Floor > 0
  /\ MinDelta \in 1 .. Period
  /\ MaxSlow \in Nat
  /\ Wraps \in BOOLEAN

VARIABLES
  pc,          \* where the CPU is: outside ("run") or at a step of the driver
  due,         \* dev->next_event, less the counter
  delta,       \* the argument of set_next
  target,      \* its local variable, less the counter
  comparator,  \* the target the hardware compares with, less the counter
  target0_en,  \* ST_CONF: the alarm is armed
  int_ena,     \* ST_INT_ENA
  int_raw,     \* ST_INT_RAW: the latched match
  intie,       \* the CLIC slot is enabled
  late,        \* what the lateness check has computed
  slow,        \* counter ticks this pass of set_next has taken
  wrapped      \* the counter wrapped since target was computed

vars == <<pc, due, delta, target, comparator, target0_en, int_ena, int_raw,
          intie, late, slow, wrapped>>

alarm == <<comparator, target0_en, int_ena, int_raw, intie>>

----------------------------------------------------------------------------

SetNext == {"disable", "latch", "load", "enable", "arm", "check", "check_raw"}

Location == {"boot", "run", "isr", "clear", "handler", "program"} \cup SetNext

Down(left) == IF left > -Floor THEN left - 1 ELSE left

\* The slot is level-triggered: it is pending for as long as the status is.
Pending == int_raw /\ int_ena /\ intie

----------------------------------------------------------------------------

\* The counter advances, and an armed comparator matches when it gets there.
\* Until the device registers there is no deadline to be ahead of or behind.
Clock ==
  /\ pc # "boot"
  /\ pc \in SetNext => slow < MaxSlow
  /\ due' = Down(due) /\ target' = Down(target) /\ comparator' = Down(comparator)
  /\ int_raw' = (int_raw \/ (target0_en /\ comparator = 1))
  /\ slow' = IF pc \in SetNext THEN slow + 1 ELSE slow
  /\ wrapped' \in IF Wraps THEN {wrapped, TRUE} ELSE {wrapped}
  /\ UNCHANGED <<pc, delta, target0_en, int_ena, intie, late>>

\* esp32p4_systimer_init: whatever the ROM left latched is cleared ...
SystimerInit ==
  /\ pc = "boot"
  /\ int_raw' = FALSE /\ int_ena' = FALSE
  /\ pc' = "program"
  /\ UNCHANGED <<due, delta, target, comparator, target0_en, intie, late, slow, wrapped>>

\* ... and the slot is enabled once the first tick has been programmed.
EnablePercpuIrq ==
  /\ pc = "run" /\ ~intie
  /\ intie' = TRUE
  /\ UNCHANGED <<pc, due, delta, target, comparator, target0_en, int_ena, int_raw,
                 late, slow, wrapped>>

----------------------------------------------------------------------------

TakeIrq ==
  /\ pc = "run" /\ Pending
  /\ pc' = "isr"
  /\ UNCHANGED <<due, delta, target, late, slow, wrapped>> /\ UNCHANGED alarm

IsrDisable ==
  /\ pc = "isr"
  /\ target0_en' = FALSE
  /\ pc' = "clear"
  /\ UNCHANGED <<due, delta, target, comparator, int_ena, int_raw, intie, late,
                 slow, wrapped>>

\* What it must not be: the latched status is left behind.
IsrClearNothing ==
  /\ pc = "clear"
  /\ pc' = "handler"
  /\ UNCHANGED <<due, delta, target, late, slow, wrapped>> /\ UNCHANGED alarm

IsrClear ==
  /\ pc = "clear"
  /\ int_raw' = FALSE
  /\ pc' = "handler"
  /\ UNCHANGED <<due, delta, target, comparator, target0_en, int_ena, intie, late,
                 slow, wrapped>>

\* tick_handle_periodic: the tick, and the next deadline.
EventHandler ==
  /\ pc = "handler"
  /\ due' = due + Period
  /\ pc' = "program"
  /\ UNCHANGED <<delta, target, late, slow, wrapped>> /\ UNCHANGED alarm

\* clockevents_program_event: a deadline that has passed is given up for the
\* next one; the others become a delta, no smaller than the device's least.
ProgramPassed ==
  /\ pc = "program" /\ due <= 0
  /\ due' = due + Period
  /\ UNCHANGED <<pc, delta, target, late, slow, wrapped>> /\ UNCHANGED alarm

ProgramEvent ==
  /\ pc = "program" /\ due > 0
  /\ \E lost \in 0 .. Rounding :
       delta' = IF due - lost > MinDelta THEN due - lost ELSE MinDelta
  /\ slow' = 0
  /\ pc' = "disable"
  /\ UNCHANGED <<due, target, late, wrapped>> /\ UNCHANGED alarm

----------------------------------------------------------------------------

\* esp32p4_clkevt_set_next, one register access after the other.
Disable ==
  /\ pc = "disable"
  /\ target0_en' = FALSE
  /\ pc' = "latch"
  /\ UNCHANGED <<due, delta, target, comparator, int_ena, int_raw, intie, late,
                 slow, wrapped>>

\* target = read64() + delta.
Latch ==
  /\ pc = "latch"
  /\ target' = delta /\ wrapped' = FALSE
  /\ pc' = "load"
  /\ UNCHANGED <<due, delta, late, slow>> /\ UNCHANGED alarm

\* What it must not be: COMP0_LOAD is forgotten.
LoadNothing ==
  /\ pc = "load"
  /\ pc' = "enable"
  /\ UNCHANGED <<due, delta, target, late, slow, wrapped>> /\ UNCHANGED alarm

\* TARGET0_HI, TARGET0_LO and then COMP0_LOAD, which alone reaches the
\* comparator.
Load ==
  /\ pc = "load"
  /\ comparator' = target
  /\ pc' = "enable"
  /\ UNCHANGED <<due, delta, target, target0_en, int_ena, int_raw, intie, late,
                 slow, wrapped>>

Enable ==
  /\ pc = "enable"
  /\ int_ena' = TRUE
  /\ pc' = "arm"
  /\ UNCHANGED <<due, delta, target, comparator, target0_en, int_raw, intie, late,
                 slow, wrapped>>

\* An alarm armed at the very tick it is for may fire or not.
Arm ==
  /\ pc = "arm"
  /\ target0_en' = TRUE
  /\ int_raw' \in IF comparator = 0 THEN {int_raw, TRUE} ELSE {int_raw}
  /\ pc' = "check"
  /\ UNCHANGED <<due, delta, target, comparator, int_ena, intie, late, slow, wrapped>>

\* (s64)(target - read64()) <= 0, in 64 bits: target was never reduced to the
\* counter's 52, so once the counter has wrapped the difference is positive.
Check ==
  /\ pc = "check"
  /\ late' = (target <= 0 /\ ~wrapped)
  /\ pc' = "check_raw"
  /\ UNCHANGED <<due, delta, target, slow, wrapped>> /\ UNCHANGED alarm

\* What it must not be: the driver before 0016, which never answers -ETIME ...
CheckRawNever ==
  /\ pc = "check_raw"
  /\ pc' = "run"
  /\ UNCHANGED <<due, delta, target, late, slow, wrapped>> /\ UNCHANGED alarm

\* ... or one that answers -ETIME although the alarm has fired.
CheckRawAlways ==
  /\ pc = "check_raw"
  /\ IF late
     THEN due' = due + Period /\ pc' = "program"
     ELSE pc' = "run" /\ UNCHANGED due
  /\ UNCHANGED <<delta, target, late, slow, wrapped>> /\ UNCHANGED alarm

\* Late, and not fired either: -ETIME, and the tick tries its next deadline.
CheckRaw ==
  /\ pc = "check_raw"
  /\ IF late /\ ~int_raw
     THEN due' = due + Period /\ pc' = "program"
     ELSE pc' = "run" /\ UNCHANGED due
  /\ UNCHANGED <<delta, target, late, slow, wrapped>> /\ UNCHANGED alarm

----------------------------------------------------------------------------

\* The ROM may leave a status latched and enabled.  The alarm itself is taken to
\* be off, as the chip resets it: esp32p4_systimer_init clears the status and
\* INT_ENA but not TARGET0_EN (0001:821-827).
Init ==
  /\ pc = "boot" /\ due = 0
  /\ delta = 0 /\ target = 0 /\ comparator = 0
  /\ target0_en = FALSE /\ int_ena \in BOOLEAN /\ int_raw \in BOOLEAN /\ intie = FALSE
  /\ late = FALSE /\ slow = 0 /\ wrapped = FALSE

Isr == IsrDisable \/ IsrClear \/ EventHandler \/ ProgramPassed \/ ProgramEvent

Reprogram == Disable \/ Latch \/ Load \/ Enable \/ Arm \/ Check \/ CheckRaw

Cpu == SystimerInit \/ EnablePercpuIrq \/ TakeIrq \/ Isr \/ Reprogram

Next == Clock \/ Cpu

\* Time goes on, and the CPU, which runs with interrupts on again and again
\* for as long as the kernel lives, goes on too.
Spec == Init /\ [][Next]_vars /\ WF_vars(Clock) /\ WF_vars(Cpu)

----------------------------------------------------------------------------

\* Every variable stays in its type: no deadline is ever further ahead than a
\* period and what rounding adds.
TypeOK ==
  /\ pc \in Location
  /\ due \in -Floor .. Period + Rounding
  /\ delta \in 0 .. Period + Rounding
  /\ target \in -Floor .. Period + Rounding
  /\ comparator \in -Floor .. Period + Rounding
  /\ target0_en \in BOOLEAN /\ int_ena \in BOOLEAN /\ int_raw \in BOOLEAN
  /\ intie \in BOOLEAN /\ late \in BOOLEAN /\ wrapped \in BOOLEAN
  /\ slow \in 0 .. MaxSlow

\* The tick is never dead: whenever the CPU is outside the driver, an alarm
\* has fired and is being delivered, or one is armed ahead of the counter.
TickAlive ==
  pc = "run" => int_ena /\ (int_raw \/ (target0_en /\ comparator > 0))

\* An interrupt is a period that has elapsed: the status of one alarm is
\* never left behind to be taken for the next, which would count a jiffy twice.
NoEarlyTick == pc \in {"run", "isr"} /\ int_raw => due <= Rounding

Ticker == INSTANCE PeriodicTick WITH
  Period <- Period, Rounding <- Rounding, Floor <- Floor, due <- due

\* The driver and its handler keep the promise of PeriodicTick: no period is
\* accounted for before it has elapsed, and every one that elapses is.
KeepsTime == Ticker!Spec
=============================================================================
