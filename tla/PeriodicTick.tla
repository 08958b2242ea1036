---------------------------- MODULE PeriodicTick ----------------------------
(***************************************************************************)
(* What the kernel is promised by its tick device: a period is accounted   *)
(* for when it has elapsed, never before, and every period that elapses is *)
(* accounted for.                                                          *)
(*                                                                         *)
(* Time is what is left until the next period ends.  Rounding is how many  *)
(* counter ticks early a conversion from nanoseconds may make a deadline;  *)
(* the lateness that is told apart ends at Floor.                          *)
(***************************************************************************)
EXTENDS Integers

CONSTANTS
  Period,    \* counter ticks in one jiffy
  Rounding,  \* counter ticks a converted deadline may come out early
  Floor      \* lateness beyond this is not told apart

VARIABLE due  \* counter ticks left until the next period ends

\* One counter tick.
Down(left) == IF left > -Floor THEN left - 1 ELSE left

\* tick_setup_device: the first deadline is the moment the device registers.
Init == due = 0

Elapse == due' = Down(due)

\* do_timer(1), and the deadline moves on by exactly one period.
Account == due <= Rounding /\ due' = due + Period

Next == Elapse \/ Account

Spec == Init /\ [][Next]_due /\ WF_due(Account)
=============================================================================
