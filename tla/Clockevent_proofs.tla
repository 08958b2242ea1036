-------------------------- MODULE Clockevent_proofs --------------------------
(***************************************************************************)
(* The safety of Clockevent for every period, rounding, smallest delta and *)
(* speed of the CPU, and the steps of its refinement of PeriodicTick.      *)
(***************************************************************************)
EXTENDS Clockevent, TLAPS

\* Where set_next has computed its target, and where it is loaded.
HasTarget == {"load", "enable", "arm", "check", "check_raw", "run", "isr"}
Loaded == {"enable", "arm", "check", "check_raw", "run", "isr"}

\* The alarm that an interrupt was taken for is off until it is armed again,
\* or is behind the counter and has been given up.
AlarmOff ==
  /\ pc \in {"clear", "handler", "latch", "load", "enable", "arm"} => ~target0_en
  /\ pc \in {"program", "disable"} /\ target0_en => comparator <= 0
  /\ pc \in {"handler", "program", "disable", "latch", "load", "enable", "arm"} => ~int_raw

\* The alarm in force, from the arming on.
AlarmOn ==
  /\ pc \in {"check", "check_raw", "run"} => target0_en
  /\ pc \in {"arm", "check", "check_raw", "run"} => int_ena
  /\ pc \in Loaded => comparator = target

\* It is never for a moment before the deadline, but for what rounding loses.
NotEarly ==
  /\ pc = "boot" => due = 0 /\ ~target0_en
  /\ pc \in {"disable", "latch"} => due <= delta + Rounding
  /\ pc \in HasTarget => due <= target + Rounding
  /\ pc \in {"check", "check_raw", "run", "isr"} /\ int_raw => comparator <= 0
  /\ pc \in {"isr", "clear", "handler"} => due <= Rounding
  /\ pc = "check_raw" /\ late => target <= 0

\* The inductive invariant, of TypeOK and NoEarlyTick.
IInv == TypeOK /\ AlarmOff /\ AlarmOn /\ NotEarly

\* What the lateness check settles, if the counter does not wrap: an alarm that
\* is not late is ahead of the counter, or has fired.
Settled ==
  /\ ~wrapped
  /\ pc = "check_raw" /\ ~late => int_raw \/ comparator > 0
  /\ pc = "run" => int_raw \/ comparator > 0

----------------------------------------------------------------------------

\* The ranges the instants are in are not empty.
LEMMA Ranges ==
  /\ Period \in Nat /\ Rounding \in Nat /\ Floor \in Nat /\ Floor > 0
  /\ MinDelta \in Nat /\ 0 < MinDelta /\ MinDelta <= Period
  /\ MaxSlow \in Nat /\ Wraps \in BOOLEAN
  BY TickAssumption

LEMMA InitIInv == Init => IInv
  <1> SUFFICES ASSUME Init PROVE IInv
    OBVIOUS
  <1>1. TypeOK
    <2>1. pc \in Location /\ {due, delta, target, comparator} = {0} /\ slow = 0
      BY DEF Init, Location
    <2>2. {target0_en, int_ena, int_raw, intie, late, wrapped} \subseteq BOOLEAN
      BY DEF Init
    <2> QED
      BY <2>1, <2>2, Ranges DEF TypeOK
  <1>2. AlarmOff /\ AlarmOn /\ NotEarly
    BY DEF Init, AlarmOff, AlarmOn, NotEarly, HasTarget, Loaded
  <1> QED
    BY <1>1, <1>2 DEF IInv

\* Every step keeps the invariant.
LEMMA StepIInv == IInv /\ [Next]_vars => IInv'
  <1> SUFFICES ASSUME IInv, [Next]_vars PROVE IInv'
    OBVIOUS
  <1> USE Ranges DEF IInv, TypeOK, AlarmOff, AlarmOn, NotEarly, Location, SetNext,
                    HasTarget, Loaded, alarm
  <1>1. CASE Clock
    <2>1. TypeOK'
      <3>1. /\ pc' \in Location
            /\ due' \in -Floor .. Period + Rounding
            /\ delta' \in 0 .. Period + Rounding
            /\ target' \in -Floor .. Period + Rounding
            /\ comparator' \in -Floor .. Period + Rounding
            /\ slow' \in 0 .. MaxSlow
        BY <1>1 DEF Clock, Down
      <3>2. /\ target0_en' \in BOOLEAN /\ int_ena' \in BOOLEAN /\ int_raw' \in BOOLEAN
            /\ intie' \in BOOLEAN /\ late' \in BOOLEAN /\ wrapped' \in BOOLEAN
        BY <1>1 DEF Clock
      <3> QED
        BY <3>1, <3>2
    <2>2. AlarmOff'
      BY <1>1 DEF Clock, Down
    <2>3. AlarmOn'
      BY <1>1 DEF Clock, Down
    <2>4. NotEarly'
      BY <1>1 DEF Clock, Down
    <2> QED
      BY <2>1, <2>2, <2>3, <2>4
  <1>2. CASE SystimerInit
    BY <1>2 DEF SystimerInit
  <1>3. CASE EnablePercpuIrq
    BY <1>3 DEF EnablePercpuIrq
  <1>4. CASE TakeIrq
    BY <1>4 DEF TakeIrq, Pending
  <1>5. CASE IsrDisable
    BY <1>5 DEF IsrDisable
  <1>6. CASE IsrClear
    BY <1>6 DEF IsrClear
  <1>7. CASE EventHandler
    BY <1>7 DEF EventHandler
  <1>8. CASE ProgramPassed
    BY <1>8 DEF ProgramPassed
  <1>9. CASE ProgramEvent
    BY <1>9 DEF ProgramEvent
  <1>10. CASE Disable
    BY <1>10 DEF Disable
  <1>11. CASE Latch
    <2>1. TypeOK'
      <3>1. target' \in -Floor .. Period + Rounding
        BY <1>11 DEF Latch
      <3>2. wrapped' \in BOOLEAN
        BY <1>11, Zenon DEF Latch
      <3> QED
        BY <1>11, <3>1, <3>2 DEF Latch
    <2>2. AlarmOff'
      BY <1>11 DEF Latch
    <2>3. AlarmOn'
      BY <1>11 DEF Latch
    <2>4. NotEarly'
      BY <1>11 DEF Latch
    <2> QED
      BY <2>1, <2>2, <2>3, <2>4
  <1>12. CASE Load
    BY <1>12 DEF Load
  <1>13. CASE Enable
    BY <1>13 DEF Enable
  <1>14. CASE Arm
    <2>1. TypeOK'
      BY <1>14 DEF Arm
    <2>2. AlarmOff'
      BY <1>14 DEF Arm
    <2>3. AlarmOn'
      BY <1>14 DEF Arm
    <2>4. NotEarly'
      <3>1. comparator # 0 => ~int_raw'
        BY <1>14 DEF Arm
      <3>2. int_raw' => comparator <= 0
        BY <3>1
      <3> QED
        BY <1>14, <3>2 DEF Arm
    <2> QED
      BY <2>1, <2>2, <2>3, <2>4
  <1>15. CASE Check
    BY <1>15 DEF Check
  <1>16. CASE CheckRaw
    BY <1>16 DEF CheckRaw
  <1>17. CASE UNCHANGED vars
    BY <1>17 DEF vars
  <1> QED
    BY <1>1, <1>2, <1>3, <1>4, <1>5, <1>6, <1>7, <1>8, <1>9, <1>10, <1>11, <1>12, <1>13, <1>14, <1>15, <1>16, <1>17 DEF Next, Cpu, Isr, Reprogram

----------------------------------------------------------------------------

\* The invariant holds in every state the driver and the counter can reach.
THEOREM Safety == Spec => []IInv
  <1>1. IInv /\ [Next]_vars => IInv'
    BY StepIInv
  <1> QED
    BY InitIInv, <1>1, PTL DEF Spec

\* Every variable stays in its type: no deadline is further ahead than a period
\* and what rounding adds, however slow the CPU is.
THEOREM TypeCorrect == Spec => []TypeOK
  <1>1. IInv => TypeOK
    BY DEF IInv
  <1> QED
    BY Safety, <1>1, PTL

\* An interrupt is a period that has elapsed, with whatever delta, rounding and
\* delay the alarm was programmed, and even if the counter wraps meanwhile.
THEOREM EarlyTick == Spec => []NoEarlyTick
  <1>1. IInv => NoEarlyTick
    <2> SUFFICES ASSUME IInv, pc \in {"run", "isr"}, int_raw PROVE due <= Rounding
      BY DEF NoEarlyTick
    <2>1. due <= target + Rounding /\ comparator = target /\ comparator <= 0
      BY DEF IInv, AlarmOn, NotEarly, HasTarget, Loaded
    <2> QED
      BY <2>1, Ranges DEF IInv, TypeOK
  <1> QED
    BY Safety, <1>1, PTL

----------------------------------------------------------------------------

\* While the counter does not wrap, the lateness check settles every alarm.
LEMMA StepSettled ==
  ASSUME ~Wraps, IInv, Settled, [Next]_vars
  PROVE  Settled'
  <1> USE DEF Settled, alarm
  <1>1. CASE Clock
    <2>1. ~wrapped' /\ pc' = pc /\ late' = late
      <3>1. wrapped' = wrapped
        BY <1>1 DEF Clock
      <3> QED
        BY <1>1, <3>1 DEF Clock
    <2>2. (int_raw \/ comparator > 0) /\ target0_en => (int_raw' \/ comparator' > 0)
      <3>1. comparator > 1 => comparator' > 0
        BY <1>1, Ranges DEF Clock, Down, IInv, TypeOK
      <3>2. comparator > 0 => comparator = 1 \/ comparator > 1
        BY Ranges DEF IInv, TypeOK
      <3>3. int_raw' <=> int_raw \/ (target0_en /\ comparator = 1)
        BY <1>1 DEF Clock
      <3> QED
        BY <3>1, <3>2, <3>3
    <2> QED
      BY <2>1, <2>2 DEF IInv, AlarmOn
  <1>2. CASE SystimerInit
    BY <1>2 DEF SystimerInit
  <1>3. CASE EnablePercpuIrq
    BY <1>3 DEF EnablePercpuIrq
  <1>4. CASE TakeIrq
    BY <1>4 DEF TakeIrq
  <1>5. CASE IsrDisable
    BY <1>5 DEF IsrDisable
  <1>6. CASE IsrClear
    BY <1>6 DEF IsrClear
  <1>7. CASE EventHandler
    BY <1>7 DEF EventHandler
  <1>8. CASE ProgramPassed
    BY <1>8 DEF ProgramPassed
  <1>9. CASE ProgramEvent
    BY <1>9 DEF ProgramEvent
  <1>10. CASE Disable
    BY <1>10 DEF Disable
  <1>11. CASE Latch
    BY <1>11 DEF Latch
  <1>12. CASE Load
    BY <1>12 DEF Load
  <1>13. CASE Enable
    BY <1>13 DEF Enable
  <1>14. CASE Arm
    BY <1>14 DEF Arm
  <1>15. CASE Check
    <2>1. ~late' => target > 0
      <3>1. late' <=> target <= 0 /\ ~wrapped
        BY <1>15 DEF Check
      <3> QED
        BY <3>1, Ranges DEF IInv, TypeOK
    <2>2. comparator = target
      BY <1>15 DEF Check, IInv, AlarmOn, Loaded
    <2> QED
      BY <1>15, <2>1, <2>2 DEF Check
  <1>16. CASE CheckRaw
    BY <1>16 DEF CheckRaw
  <1>17. CASE UNCHANGED vars
    BY <1>17 DEF vars
  <1> QED
    BY <1>1, <1>2, <1>3, <1>4, <1>5, <1>6, <1>7, <1>8, <1>9, <1>10, <1>11, <1>12, <1>13, <1>14, <1>15, <1>16, <1>17 DEF Next, Cpu, Isr, Reprogram

\* The tick is never dead: with the lateness check of 0016, and as long as the
\* counter does not wrap, no speed of the CPU and no period leaves the system
\* outside the driver without an alarm ahead or an interrupt on its way.
THEOREM Alive == ASSUME ~Wraps PROVE Spec => []TickAlive
  <1>1. Init => Settled
    BY DEF Init, Settled
  <1>2. IInv /\ Settled /\ [Next]_vars => Settled'
    BY StepSettled
  <1>3. IInv /\ Settled => TickAlive
    BY DEF IInv, AlarmOn, Settled, TickAlive
  <1> QED
    BY Safety, <1>1, <1>2, <1>3, PTL DEF Spec

----------------------------------------------------------------------------

\* Every step of the driver, the handler and the counter is one of
\* PeriodicTick's, or leaves its deadline alone.
LEMMA StepTicker == IInv /\ [Next]_vars => [Ticker!Next]_due
  <1> SUFFICES ASSUME IInv, [Next]_vars, due' # due PROVE Ticker!Next
    OBVIOUS
  <1> USE DEF Ticker!Next, Ticker!Elapse, Ticker!Account, Ticker!Down
  <1>1. CASE Clock
    BY <1>1 DEF Clock, Down
  <1>2. CASE EventHandler
    BY <1>2 DEF EventHandler, IInv, NotEarly
  <1>3. CASE ProgramPassed
    BY <1>3, Ranges DEF ProgramPassed, IInv, TypeOK
  <1>4. CASE CheckRaw
    <2>1. late /\ due <= target + Rounding /\ target <= 0
      BY <1>4 DEF CheckRaw, IInv, NotEarly, HasTarget
    <2> QED
      BY <1>4, <2>1, Ranges DEF CheckRaw, IInv, TypeOK
  <1> QED
    BY <1>1, <1>2, <1>3, <1>4
    DEF Next, Cpu, Isr, Reprogram, vars, SystimerInit, EnablePercpuIrq, TakeIrq, IsrDisable,
        IsrClear, ProgramEvent, Disable, Latch, Load, Enable, Arm, Check

\* The safety of KeepsTime: no period is accounted for before it has elapsed,
\* and the deadline moves on by exactly one period each time, so that no delay
\* or lost alarm lets the jiffies drift.
THEOREM TicksOnTime == Spec => Ticker!Init /\ [][Ticker!Next]_due
  <1>1. Init => Ticker!Init
    BY DEF Init, Ticker!Init
  <1>2. IInv /\ [Next]_vars => [Ticker!Next]_due
    BY StepTicker
  <1> QED
    BY Safety, <1>1, <1>2, PTL DEF Spec
=============================================================================
