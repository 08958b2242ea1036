------------------------------ MODULE UartIrq ------------------------------
(***************************************************************************)
(* The UART and its driver (drivers/tty/serial/esp32_uart.c as changed by  *)
(* patches/linux/0001): characters wait in the port's buffer until the     *)
(* TXFIFO_EMPTY interrupt finds room in the FIFO, and those that arrive    *)
(* raise RXFIFO_FULL.  Both share one line into one CLIC slot, which is    *)
(* made for edges as much as for levels; every access to a register that   *)
(* the hardware may change under the driver is a step.                     *)
(***************************************************************************)
EXTENDS Integers

CONSTANTS
  FifoSize,   \* ESP32_UART_TX_FIFO_SIZE
  Threshold,  \* TXFIFO_EMPTY holds below this
  MaxBuf,     \* characters the port's buffer takes: bounds the model
  MaxRx       \* characters the RX FIFO takes: bounds the model

ASSUME UartAssumption ==
  FifoSize \in Nat /\ Threshold \in 1 .. FifoSize /\ MaxBuf \in Nat /\ MaxRx \in Nat

VARIABLES
  ip,      \* the CLIC slot's INTIP: a rising edge has been seen
  fifo,    \* characters in the TX FIFO
  rx,      \* characters in the RX FIFO
  raw,     \* INT_RAW
  ena,     \* INT_ENA
  txbuf,   \* characters in the port's buffer
  upc,     \* the step the driver is at
  caller,  \* who called transmit_buffer
  snap,    \* INT_ENA as the handler read it
  status,  \* INT_ST as its loop read it
  unarmed  \* history: start_tx found the FIFO full and INT_ENA off

uartVars == <<fifo, rx, raw, ena, txbuf, upc, caller, snap, status, unarmed>>

Bits == {"tx", "rx"}

----------------------------------------------------------------------------
(* External: the interrupt registers.                                      *)

INT_ST == raw \cap ena

UartLine == INT_ST # {}

\* The conditions that hold set their bits again as soon as they are cleared.
Conditions(f, r) ==
  {b \in Bits : (b = "tx" /\ f < Threshold) \/ (b = "rx" /\ r > 0)}

\* The FIFOs hold f and r, INT_ENA is en, INT_RAW has been cut down to kept:
\* the line rises if it was low, or was low for a moment between.
Settle(f, r, kept, en) ==
  /\ fifo' = f /\ rx' = r /\ ena' = en
  /\ raw' = kept \cup Conditions(f, r)
  /\ ip' = (ip \/ (raw' \cap en # {} /\ (~UartLine \/ kept \cap en = {})))

\* A character leaves the TX FIFO, or one arrives.
Drain ==
  /\ fifo > 0
  /\ Settle(fifo - 1, rx, raw, ena)
  /\ UNCHANGED <<txbuf, upc, caller, snap, status, unarmed>>

Arrive ==
  /\ rx < MaxRx
  /\ Settle(fifo, rx + 1, raw, ena)
  /\ UNCHANGED <<txbuf, upc, caller, snap, status, unarmed>>

----------------------------------------------------------------------------
(* esp32_uart_transmit_buffer, under the port's lock.                      *)

\* uart_write and esp32_uart_start_tx.
Write ==
  /\ upc = "idle" /\ txbuf < MaxBuf
  /\ \E n \in 1 .. MaxBuf - txbuf : txbuf' = txbuf + n
  /\ upc' = "fill" /\ caller' = "start"
  /\ UNCHANGED <<ip, fifo, rx, raw, ena, snap, status, unarmed>>

Sent == upc' = (IF caller = "start" THEN "idle" ELSE "handled") /\ caller' = "none"

\* The early return leaves INT_ENA as it is.
FillFull ==
  /\ upc = "fill" /\ fifo >= FifoSize
  /\ Sent
  /\ unarmed' = (txbuf > 0 /\ "tx" \notin ena)
  /\ UNCHANGED <<ip, fifo, rx, raw, ena, txbuf, snap, status>>

\* What it must not be: the FIFO's room is not looked at.
FillBlind ==
  /\ upc = "fill" /\ fifo < FifoSize
  /\ Settle(fifo + txbuf, rx, raw, ena)
  /\ txbuf' = 0 /\ unarmed' = FALSE
  /\ upc' = "disarm"
  /\ UNCHANGED <<caller, snap, status>>

Fill ==
  /\ upc = "fill" /\ fifo < FifoSize
  /\ LET room == FifoSize - fifo
         n == IF txbuf < room THEN txbuf ELSE room
     IN /\ Settle(fifo + n, rx, raw, ena)
        /\ txbuf' = txbuf - n
        /\ upc' = IF n < txbuf THEN "clear" ELSE "disarm"
  /\ unarmed' = FALSE
  /\ UNCHANGED <<caller, snap, status>>

Disarm ==
  /\ upc = "disarm"
  /\ Settle(fifo, rx, raw, ena \ {"tx"})
  /\ Sent
  /\ UNCHANGED <<txbuf, snap, status, unarmed>>

ClearStale ==
  /\ upc = "clear"
  /\ Settle(fifo, rx, raw \ {"tx"}, ena)
  /\ upc' = "arm"
  /\ UNCHANGED <<txbuf, caller, snap, status, unarmed>>

\* What it must not be: the interrupt is not enabled for what is left.
ArmNot ==
  /\ upc = "arm"
  /\ upc' = "recheck"
  /\ UNCHANGED <<ip, fifo, rx, raw, ena, txbuf, caller, snap, status, unarmed>>

Arm ==
  /\ upc = "arm"
  /\ Settle(fifo, rx, raw, ena \cup {"tx"})
  /\ upc' = "recheck"
  /\ UNCHANGED <<txbuf, caller, snap, status, unarmed>>

\* INT_ST already reflects the condition, or not.
Recheck ==
  /\ upc = "recheck"
  /\ IF "tx" \in INT_ST THEN upc' = "reclear" /\ UNCHANGED caller ELSE Sent
  /\ UNCHANGED <<ip, fifo, rx, raw, ena, txbuf, snap, status, unarmed>>

Reclear ==
  /\ upc = "reclear"
  /\ Settle(fifo, rx, raw \ {"tx"}, ena)
  /\ Sent
  /\ UNCHANGED <<txbuf, snap, status, unarmed>>

----------------------------------------------------------------------------
(* esp32_uart_int.                                                         *)

IntEnter ==
  /\ upc = "idle"
  /\ snap' = ena
  /\ upc' = "status"
  /\ UNCHANGED <<ip, fifo, rx, raw, ena, txbuf, caller, status, unarmed>>

IntStatus ==
  /\ upc = "status" /\ INT_ST \cap snap # {}
  /\ status' = INT_ST \cap snap
  /\ upc' = "rx"
  /\ UNCHANGED <<ip, fifo, rx, raw, ena, txbuf, caller, snap, unarmed>>

IntEnd ==
  /\ upc = "status" /\ INT_ST \cap snap = {}
  /\ upc' = "idle" /\ snap' = {}
  /\ UNCHANGED <<ip, fifo, rx, raw, ena, txbuf, caller, status, unarmed>>

\* esp32_uart_rxint empties the FIFO.
IntRx ==
  /\ upc = "rx"
  /\ Settle(fifo, IF "rx" \in status THEN 0 ELSE rx, raw, ena)
  /\ IF "tx" \in status
     THEN upc' = "fill" /\ caller' = "int"
     ELSE upc' = "handled" /\ UNCHANGED caller
  /\ UNCHANGED <<txbuf, snap, status, unarmed>>

\* What it must not be: the status is read once, as upstream does.
IntHandledOnce ==
  /\ upc = "handled"
  /\ Settle(fifo, rx, raw \ status, ena)
  /\ status' = {} /\ snap' = {}
  /\ upc' = "status"
  /\ UNCHANGED <<txbuf, caller, unarmed>>

\* All but TXFIFO_EMPTY is cleared, and INT_ST read once more.
IntHandled ==
  /\ upc = "handled"
  /\ Settle(fifo, rx, raw \ (status \ {"tx"}), ena)
  /\ status' = {}
  /\ upc' = "status"
  /\ UNCHANGED <<txbuf, caller, snap, unarmed>>

----------------------------------------------------------------------------

\* esp32_uart_startup has enabled RX; the FIFO and the buffer are empty.
UartInit ==
  /\ ip = FALSE /\ fifo = 0 /\ rx = 0 /\ raw = {"tx"} /\ ena = {"rx"}
  /\ txbuf = 0 /\ upc = "idle" /\ caller = "none" /\ snap = {} /\ status = {}
  /\ unarmed = FALSE

Transmitting == FillFull \/ Fill \/ Disarm \/ ClearStale \/ Arm \/ Recheck \/ Reclear

UartHandling == IntStatus \/ IntRx \/ IntHandled

UartTypeOK ==
  /\ ip \in BOOLEAN /\ fifo \in 0 .. FifoSize /\ rx \in 0 .. MaxRx
  /\ raw \subseteq Bits /\ ena \subseteq Bits /\ snap \subseteq Bits /\ status \subseteq Bits
  /\ txbuf \in 0 .. MaxBuf /\ caller \in {"none", "start", "int"}
  /\ upc \in {"idle", "fill", "disarm", "clear", "arm", "recheck", "reclear",
              "status", "rx", "handled"}
  /\ unarmed \in BOOLEAN
=============================================================================
