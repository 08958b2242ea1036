---------------------------- MODULE MCKernelIrq ----------------------------
EXTENDS KernelIrq

\* Traps, signals and restarts without a device; the UART on the slot its code
\* is written for and on the one the device tree gives it; the GPIO bank.
MCLoads ==
  {[device |-> "none", edge |-> FALSE],
   [device |-> "uart", edge |-> TRUE], [device |-> "uart", edge |-> FALSE],
   [device |-> "gpio", edge |-> FALSE]}

MCLines == 0 .. 2

MCEdgeLines == {1, 2}
=============================================================================
