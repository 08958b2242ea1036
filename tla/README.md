# A verification model of the ESP32-P4 Linux port

The repository brings native, MMU-less Linux up on an ESP32-P4: a second-stage
bootloader, a set of kernel patches (clock, interrupts, cache, SD card, memory)
and the user-space and host tools around them. This directory models the parts
whose correctness depends on the order in which things happen, checks them with
TLC on small instances, and proves all of the safety properties the passing runs check, and the
steps of the refinements, with TLAPS for every instance.

Paths below are relative to `src/`; `0010` and the like are the patches in
`patches/linux/`, cited by the line of the patch file.

## 1. The system

| Part | State it keeps | Operations | What is hard | What must hold |
|---|---|---|---|---|
| NOMMU pool (`0010`) | `user_pool`'s bitmap, the buddy allocator, `struct vm_region` with `vm_from_pool`, `nommu_region_sem` | mmap, a failed file read, munmap of all, of an end or of a hole, exit | pages are freed after the semaphore is dropped; three release paths must pick the right one of two allocators; pool mappings are exact, buddy mappings rounded | no page in two hands, none lost, each back to its own allocator |
| SYSTIMER read (`0001`, `0016`) | one latch pair shared by all readers | `read64`, `get_cycles`, `get_cycles_hi` | an interrupt re-latches between two register reads | an answer is a value the counter had during the call |
| SYSTIMER clockevent (`0001`, `0016`, `0022`) | comparator, `TARGET0_EN`, `INT_ENA`, `INT_RAW`, the CLIC slot | set_next, the interrupt, init | code runs cache-cold from PSRAM and may take longer than the delta; the alarm is re-armed only by its own tick | the tick never dies, and counts each period once |
| IDMAC ring (`0007`, `0036`, `0039`) | descriptors in memory and in the cache | prepare, kick, complete, timeout | no hardware coherency; several descriptors in a line; IDMAC's writes land late | IDMAC runs this transfer's descriptors only; a request ends |
| Boot chain (`bootloader/main.c`, `p4/p4_flash.c`, `p4/p4_psram.c`) | MSPI timing, core clock, PSRAM, cache, checksums | read, checksum, train, test, copy, verify, jump | warm resets keep MSPI timing, and the call that restores it may not be enough; flash and PSRAM share it; dirty lines; a write channel that can die | the kernel is entered only with intact payloads; only a faulty board is refused |
| Bootloader bring-up (`start.S`, `trap.S`, `p4_clk`, `p4_ldo`, `p4_analog`, `p4_wdt`, `p4_uart`, ...) | registers | straight-line programming | hangs without a message | order of steps |
| SDMMC and EMAC bring-up | registers, MDIO | init, scan | polls that must be bounded | failure is not fatal |
| CLIC and trap entry (`0001`, `0014`, `0023`, `0031`) | mcause, mstatus, the pt_regs of nested traps, a slot's enable, latch and trigger | entry, exit, signal, sigreturn, restart; mask, ack, unmask, dispatch | MPP and MPIE live in mcause and must follow status through every path; the same cause decides on restarting a system call; user tasks run in machine mode | a return resumes the right mode with interrupts as they were; a call is restarted once or not at all |
| UART (`0001`) | FIFOs, `INT_RAW`, `INT_ENA`, the port's buffer | start_tx, the interrupt | registers that change between two accesses; an edge slot sees only rises | no edge is lost; characters keep moving |
| GPIO irq (`0002`) | latched edges, pads, per-line enable | mask, unmask, ack, chained handler | the status is read once while lines go on firing | every line that fires is served |
| MWDT (`0019`, `0034`) | device registers | start, stop, ping, restart | hardware armed before the core feeds it | the watchdog fires only on a dead system |
| Cache operations, DMA alias (`0001`, `0015`, `0039`) | cache | writeback, invalidate through ROM | interrupts off in ROM | |
| hget (`board/hget/hget.c`) | the sockets of the race, the connection with its buffers, the output file, the exit code | race of connects, TLS handshake, request, header, redirect, plain and chunked body | sockets answer, fail and are reset while the poll set is compacted; the answer is cut anywhere into reads; the peer may stop anywhere | one connection survives the race and none the fetch; success means a whole body; it ends |
| mkflt.lua | ELF objects to bFLT | layout, symbols, relocation | ranges, addends | relocated code equals a linked one |
| Tools, scripts, device trees, vendored ESP-IDF | | | | |

How they meet: the bootloader leaves PSRAM, caches and registers for the
kernel. The SYSTIMER's reader is called by its clockevent, whose interrupt
arrives through the CLIC and the trap entry. The IDMAC ring is the client of the
cache operations and of the DMA alias, which `p4_psram_alias_test` showed to be
there. Every program, hget among them, is loaded into the NOMMU pool. The UART and
the GPIO bank, like the SYSTIMER, reach their drivers through a slot of the CLIC and a trap. A watchdog reset, which is
also `reboot`, takes everything back to the bootloader.

`PROJECT.json` lists every component with its status, and under `hazards` the
places where the code can go wrong in a way a test would hardly reach.

## 2. Modules

| Module | Models | Run |
|---|---|---|
| `NommuPool`, implements `PageLedger` | the pool, the buddy allocator and the region bookkeeping | `nommu_pool` |
| `NommuPoolContract`, extends it | what the pool's header asks of a free, over a history of the blocks returned | `nommu_partial_free` |
| `SystimerRead`, implements `ClockRead` | the readers, one register access a step | `systimer_read` |
| `Clockevent`, implements `PeriodicTick` | the alarm and the tick | `clockevent` |
| `IdmacRing` | the descriptor ring | `idmac_ring`, `idmac_ring_drop` |
| `TrapShim` | traps, signals and returns over mcause and pt_regs | `kernel_irq` |
| `UartIrq` | the UART's transmit buffer and interrupt handler, one register access a step | `kernel_irq` |
| `GpioIrq` | a GPIO bank's irqchip | `kernel_irq` |
| `KernelIrq`, composes the last three | the CLIC slot, its irqchip and the flow handlers between trap and driver | `kernel_irq` |
| `HgetConnect` | hget's race of connects | `hget` |
| `Hget`, composes it with the rest of a fetch | from the URL to the exit code | `hget`, `hget_lost_slice`, `hget_tls_silent` |
| `BootChain` | reset to jump | `boot_chain`, `boot_handover` |

`NommuPool_proofs`, `SystimerRead_proofs`, `Clockevent_proofs`, `IdmacRing_proofs`,
`BootChain_proofs`, `TrapShim_proofs`, `KernelIrq_proofs` and `Hget_proofs` hold the theorems
about the module they are named after (section 4).

Each `MC` module gives the constants of one component values for TLC. An
operator whose comment begins with "What it must not be" is a definition with a
mistake in it that the code could have; with it in place of the right one, the
property it belongs to is violated (`mutants` in `PROJECT.json`).

### NommuPool

`pool_free` and `buddy_free` are the allocators; `region[r]` is a slot of
`vm_region_jar` with the source's fields and a state for where it is in its
life; `job[p]` is what address space `p` is in the middle of. `do_mmap` holds
`nommu_region_sem` until the region is in the tree, so it is two steps,
`MmapFromPool` or `MmapFromBuddy` and then `MmapDone` or `MmapReadError` (the
`error_free` label). Unmapping takes pages off the region under the semaphore
(`CutTail`, `CutHead`, `PutRegion`) and frees them later (`ShrinkFree`,
`PutRegionFree`): the interleavings are between the two. `GiveBack` is the `if
(region->vm_from_pool)` that the patch puts in three places. `RoundUp[n]` is `1
<< get_order(n)`, or `n` when `sysctl_nr_trim_pages` trims: the proofs only need
`RoundUp[n] >= n`. `gen_pool_alloc` is first-fit; `alloc_pages_exact` returns
any free run, which covers what the buddy allocator may do. Shared mappings of
one region (`vm_usage > 1`) are not private copies and do not go through the
patch's code. An address space is inside one mmap or munmap at a time, as
`mmap_lock` has it.

`PageLedger` is what the owners of mappings are promised, without regions or
jobs: a page is lent out of one allocator in a run, unmapped by its owner, taken
back, and only then lent again. `KeepsLedger` maps `owner[x]` to the address
space of the region or of the cut that page `x` is in, and `leaving` to the
pages of dying regions and cuts; splitting a mapping is a stutter. `TakeBack` lets
any run of a mapping come back by itself, as the comment at `0010`:165-169 says that
gen_pool does. The header of the pool (`0010`:37-38) asks for the block that was
returned instead: `NommuPoolContract` adds a history variable, `handed`, of those
blocks, and `ExactFree` is the header's contract.

### SystimerRead

The port is `PREEMPT_NONE` on one CPU, so contexts are a stack: a context runs
only when those that interrupted it are done. Each register access of
`read64`, `get_cycles` and `get_cycles_hi` is an action, the counter may advance
and the capture complete between any two. `ClockRead` says what a caller may
rely on; `Linearizable` is that specification under the identity mapping of
`counter`, `call` and `answer`.

### Clockevent

Instants are kept as what is left until them, so that the state space is finite
without a bound on time. `SetNext` are the register accesses of
`esp32p4_clkevt_set_next` with the check of `0016`; the interrupt handler is
that of `0022`. `EventHandler`, `ProgramPassed` and `ProgramEvent` are
`tick_handle_periodic` and `clockevents_program_event` of the kernel core: the
configuration is `HZ_PERIODIC` without high-resolution timers
(`config/kernel.config`), so only the tick programs the alarm. (The comment at
`0022`:20 speaks of hrtimer paths that reprogram it as well; this configuration
has none.) `Rounding` is the loss of the nanosecond conversion. `PeriodicTick`
promises that a period is accounted for when it has elapsed and that every one
that elapses is; `KeepsTime` includes the liveness of that promise. A status that the
ROM left latched or enabled is in `Init`; an alarm that it left armed is not:
`TARGET0_EN` is taken to be as the chip resets it, and init does not clear it
(`0001`:821-827).

### IdmacRing

`mem` and `cache` are two copies of the ring, `line` says which the CPU reads.
`sg_cpu_cached` chooses between `0007`'s cached fallback and the coherent
allocation that `0039` makes possible. `PollTimeout` needs `landing = {}`: IDMAC
is given 100 ms to land its writes, and does. `Reinit` is the `memset` and
`dw_mci_idmac_init`, which since `0036` ends by writing the ring back. `drops`
counts transfers dropped in a row, up to two, which is all the property needs.

### BootChain

Flash, PSRAM and partitions are counted in units; a CRC is the sequence read,
so collisions are left out. `mspi` is how the shared timing registers stand:
`"rom"` at power-on, `"tuned"` or `"off"` after training, and `"off"` after a warm
reset of a board that had been tuned, as the comment in `p4_flash_init` reports.
`FlashInit` calls `mspi_timing_enter_low_speed_mode`, which may put it back or not:
`docs/STATUS-2026-09-08.md`:124 found that it "was not sufficient", and `README.md`:278
lists the instability as open. The history variable `restored` says which it was. With `"off"`
each unit read may be right or a `Misread`, so that two reads differ or are wrong in the
same way, and each function that reads flash may fail or hang in the ROM (`FlashStalls`), in the
copy too. The walk of the table does not misread, being 32 bytes at a time
(p4_flash.c:118). A PSRAM trained `"marginal"` may lose any load or burst. `Evict` may
happen at any moment, and a burst from a slow core wedges the write channel, as
main.c:246-266 describes. `HandOver` writes back any set of lines: main.c:72 declares the ROM's
`Cache_WriteBack_All` without the parameter that selects the caches
(`bootloader/vendor/include/rom/cache.h`:738), and what the register holds is chance. The walk of the
table is `Matching`: MD5 entries are skipped, anything else without the magic ends it,
the first match counts. A hang is the same state as a halt. That the ROM does
not take the chip size, the last halt of `p4_flash_init`, is left out. Resets are unlimited.

### TrapShim

`frames` are the pt_regs of the traps being handled, one within another, with
the bits of `status` and `cause` that the two shims translate. `Trap` is the
hardware's part and the entry shim (`0001` as changed by `0031`: MPP from the
thread pointer), `Return` the exit shim (`0023`, `0031`) and `mret`. `MpieLost` is
what the comment of `0023` reports of context switches and signals, at any
moment. `Signal` is `arch_do_signal_or_restart` after `0014`; it may run several times
in one exit, and may stack a handler whose `Sigreturn` restores an `a0` that
reads like a restart error. There is one task, and the exit loop runs with
interrupts off where the kernel turns them on for the signal work: a trap
there is a kernel trap like those in the body of a system call.

### UartIrq, GpioIrq, KernelIrq

`UartIrq` is `esp32_uart_transmit_buffer` and `esp32_uart_int` of `0001`, one
register access a step, with `Drain` and `Arrive` between any two. `Settle` is
the hardware: a condition that holds sets its `INT_RAW` bit again at once,
and a line that rises, or was low for a moment within one write, is an edge in
`ip`. RXFIFO_FULL is raised from the first character. `GpioIrq` has the
chained handler's one read of `GPIO_STATUS` and the flow handler of each line:
edges are acknowledged before the action, levels masked around it. A user's
action serves what has happened when it begins, and the source of a level then
drops it.

`KernelIrq` adds the slot. `Pending` is the latch on an edge slot and the line
on a level slot; `FlowEnter` and `FlowLeave` are `handle_edge_irq`, or
`handle_level_irq` and `chained_irq_enter`, as `clic_domain_map` picks them. The
interrupt is taken by `TrapShim`'s `Trap`, so only with MIE on, and `StartTx` runs
in a system call with interrupts off as the port's lock has it. A behaviour has
one load: traps and signals without a device, the UART on an edge slot, which its
comments are written for, the UART on a level slot, which is what the device
tree says (`0012`:230), or the GPIO bank on a level slot (`0012`:349).

### HgetConnect, Hget

An address stands for its socket. `Connect` is one turn of the first loop with
its four outcomes; `PollReady`, `PollSlept` (a timeout), `PollWoken` (EINTR) and `PollFailed` (any
other error, which ends the race whatever is left of the budget) are `poll`; the scan is a step an
entry, so that sockets fail between the poll and the look at SO_ERROR. `deadline` counts
slices, and the history variable `polls` how they were spent. `Hget` has one connection after another: each hop of a redirect runs the
race again. An answer is a header of `head` units and a body of tokens, so that
"a read returns any number of them" covers every way of cutting the stream between
tokens; a chunk-size line is one token, so one that is cut between `hdrbuf` and the
socket is not in the model (data are, being any number of tokens);
`got` is what has arrived, `pos` what has been parsed, and between them is what
is pending in `hdrbuf`. `peer` is how the server stands; it may stop at any point.
Each of `open`, `write`, the TLS set-up and the CA bundle may fail. Recursion of `fetch` is a
loop with `depth`.

## 3. Runs

| Run | Bounds | Why they are enough |
|---|---|---|
| `nommu_pool` | 4 + 4 pages, lengths 1 to 3, 2 address spaces, 3 regions; symmetric in both | length 3 is the least that is rounded; the pool is too small for two of them, so both allocators serve; a hole needs two regions and a third lets the other process map meanwhile |
| `clockevent` | period 8, rounding 1, smallest delta 2, a pass of set_next takes up to 3 | a pass can be longer than the delta, so arming behind the counter happens, and shorter than a period, without which no driver keeps time |
| `systimer_read` | 2 contexts, low word of 2 values, counter to 5 | the high word changes twice, in both contexts |
| `idmac_ring` | 3 descriptors, 2 to a line | one line is shared and one is not; transfers of 1 to 3 leave descriptors of earlier ones behind |
| `kernel_irq` | 3 traps deep, 2 signal handlers; FIFO of 3 with threshold 2, buffer of 5, 2 received; 3 GPIO lines, 2 of them edges | a nested trap has one around it and one on top; a write can fill the FIFO exactly, overfill it, or come when it is full; an edge line is handled before another edge, after a level |
| `hget` | 4 to 6 addresses for 3 places, a budget of 2 slices, 2 redirects, buffers of 3 and 2 units, 11 answers, 3 option sets | an odd cap with two families, so that they compete for it; a header that fits with body behind it, exactly, or not at all; a body longer than a read and a chunk cut by one |
| `hget_tls_silent` | 1 address, no redirect | one handshake is enough |
| `hget_lost_slice` | 2 addresses, a budget of 2 slices, no redirect | one address fails and the other is still being tried |
| `nommu_partial_free` | 4 + 4 pages, lengths 1 and 2 | a mapping of two pages can lose one |
| `boot_chain`, `boot_handover` | flash of 2 units, PSRAM of 4, five tables | a kernel of one unit and one as large as the chip, overlapping partitions, missing and oversized ones |

What they show. `nommu_pool`: the three release paths and every interleaving
around the semaphore keep pages apart (`NoAliasing`), at home (`HomeAllocator`)
and accounted for (`NoLeak`). `systimer_read`: the retry of `0016` is
sufficient, also when the retried value comes from the interrupting reader's
capture, and no old latch is returned. `clockevent`: with the lateness check
there is no reachable state in which the tick is dead (`TickAlive`), no alarm
counts twice (`NoEarlyTick`), and the promise of `PeriodicTick` is kept.
`idmac_ring`: whatever the cache evicts and whenever IDMAC's writes land, IDMAC
is led only to descriptors of this transfer, invalidation loses nothing, a
dropped transfer leaves a ring that works, the uncached ring never drops one.
`boot_chain`: after any sequence of warm resets, what the kernel finds in PSRAM
itself is what was checksummed in flash, and is what flash holds if its timing was put back
(`JumpGood`); a board without a fault is never refused (`HaltJustified`). `kernel_irq`: with MPIE lost at any moment, each return still
puts back what the trap interrupted (`ReturnsAsTrapped`); the kernel tells user
from kernel traps though hardware does not (`ClassifiesTraps`); a call is
restarted once per restart error (`RestartJustified`); on an edge slot no line
stays high with its edge consumed (`NoLostEdge`), which is what re-reading
INT_ST in a loop is for; transmission does not stall (`TxMoves`) and no line
is forgotten (`GpioServed`). `hget`: the race leaks nothing and returns a connection that was
up when looked at (`OneSurvivor`, `NothingLeft`), shares its places (`FamiliesShare`); the output
is a beginning of the body however the stream is cut (`OutputIsPrefix`); success
is a whole body or a close that plain framing does not tell from its end
(`OkIsWhole`); the old file survives what fails before the body (`FileKept`; a
failure after the open loses it, as `O_TRUNC` does); as long as poll itself works, an
address that has not answered loses at most a slice for each one that failed and the rest of one for
each signal (`GivesUpLate`; see `hget_lost_slice` for what the source claims).

Two things the models show that contradict no text of the repository:

* `body_plain` reports success when the peer closes before Content-Length bytes
  have come (hget.c:877, "EOF-delimited body, or short"); `OkIsWhole` allows it.
* `start_tx` that finds the FIFO full returns before it looks at INT_ENA
  (`0001`:1175). When the write before it filled the FIFO exactly, TXFIFO_EMPTY
  has just been disabled, and the new characters wait for the next write.
  `TxMoves` excludes this (`unarmed`); the rest of the stalls the comments
  describe do not occur, on either kind of slot.

Five runs end in a violation, and that is their point:

* `idmac_ring_drop` — `0036` invalidates the ring once, before the polls. A poll
  that is too early caches the descriptor and then re-reads its own copy for
  100 ms: a transfer may be dropped although the descriptor is free.
  `RetrySucceeds` shows that the next transfer is not affected, and
  `CoherentNeverDrops` that the alias of `0039` removes the case.
* `boot_handover` — main.c:417 calls the writeback before the jump "the total, cheap
  version of a guarantee we cannot afford to get subtly wrong". It is called without the argument
  that says which caches it is for, so lines that the PSRAM tests left dirty may reach
  memory when the kernel owns it. Both payloads are safe: each copy was written back by itself
  (`JumpGood`).
* `hget_lost_slice` — each poll costs a whole slice of the budget although a refusal
  ends it at once (hget.c:298), so with dead addresses about `-T` runs out before
  its time, against hget.c:182 (polling "keeps -T honest"), hget.c:203 ("The dead
  family now costs nothing") and the usage text (hget.c:1002).
* `hget_tls_silent` — `bio_recv` makes WANT_READ of the receive timeout and both
  loops over it try again, so `-T` does not bound a TLS connection.
* `nommu_partial_free` — the header of the pool asks for "the exact pointer returned" and
  "the exact size passed" (`0010`:38); a munmap of part of a mapping frees part of the
  block (`0010`:171), and the comment there says why a bitmap allocator does not mind.

Four more configurations are not runs of their own. Each ends in a violation as well:

* `MCBootChainMisread.cfg` (`NeverBootsCorrupt`) — main.c:164 has the self-test turn "boots a
  corrupted kernel and dies somewhere strange" into a line of console. It compares two
  reads of one stretch: a misread that repeats itself passes it and both checksums, and a
  corrupted kernel is entered. `JumpGood` has the exact condition.
* `MCBootChainSlow.cfg` (`NoBurstWhileSlow`) — main.c:246 forbids bursts at 40 MHz; the branch
  for a refused clock raise (main.c:292) goes on to write all of PSRAM.
* `MCBootChainOrder.cfg` (`RaisedBeforeTraining`) — the comment at `bootloader/p4/p4_clk.h`:22 still asks
  for the order that main.c:271 explains does not work.
* `MCClockeventWrap.cfg` (`TickAlive`) — the target is never reduced to the counter's 52 bits, so
  a counter that wraps while an alarm is programmed late makes the lateness
  check of `0016`:61 miss it. It takes nine years of uptime and bad luck.

**Fairness.** `Clockevent`: `Clock` and `Cpu`, each weak: time passes, and the
CPU, whose interrupts are on outside the handler, makes progress. In
`SystimerRead` the capture is weakly fair (hardware), and every context strongly:
one that is interrupted again and again still runs between interrupts. The
counter is bounded there, so `ReadReturns` shows that a retry ends once the high
word is at rest, which it is for 268 s at a time. `IdmacRing`: the driver goes on with
what it has begun and IDMAC with what it was given, each action weakly;
`FillDesc` is strongly fair since evictions may come between two looks at a
descriptor. Requests and evictions are not fair. `KernelIrq`: the
core goes on while it is in the kernel (weak), a pending interrupt is taken when interrupts
are on again and again (strong: hardware takes it at the first such instant), and
the UART sends what is in its FIFO (weak). Writes, received characters, pads and the user
are not fair. `Hget`: the process is scheduled and its kernel answers or times out
(weak), and a server that has sent everything does not stay connected and busy for
ever, having been asked to close (weak on `PeerStops`); it may still fall silent, which a plain
connection bounds by `-T`. `BootChain` and `NommuPool` have safety properties only.

`CHECK_DEADLOCK` is left on in every run.

## 4. Proofs

Each `_proofs` module proves that an inductive invariant, `IInv` (`TrapIInv` of the trap
entry), holds in every reachable state (`Safety`), and from it the properties below, for
every value of the module's constants. None of these properties is inductive on its own;
what had to be added says why the code works. TLC checks each invariant on the instance of
the run before it is proved.

| Module | Proved of every reachable state or step | Left to TLC |
|---|---|---|
| `NommuPool_proofs` | `TypeOK`, `NoAliasing`, `HomeAllocator`, `NoLeak`, and the refinement `KeepsLedger` | |
| `SystimerRead_proofs` | `TypeOK`, `FreshLatch`, and the refinement `Linearizable`; retries are finitely many (`RetriesEnd`) | `ReadReturns` |
| `Clockevent_proofs` | `TypeOK`, `NoEarlyTick`, `TickAlive` (if the counter does not wrap), the steps of `PeriodicTick` | the liveness in `KeepsTime` |
| `IdmacRing_proofs` | `TypeOK`, `RunsThisTransfer`, `InvalidateLossless`, `RetrySucceeds`, `CoherentNeverDrops`; a transfer is finitely many steps besides the polls (`TransferBounded`) | `RequestEnds` |
| `BootChain_proofs` | `TypeOK`, `JumpGood`, `HaltJustified` | |
| `TrapShim_proofs` | `ReturnsAsTrapped`, of the trap entry alone | |
| `KernelIrq_proofs` | `TypeOK`, that the composition implements `TrapSpec`, `ClassifiesTraps`, `RestartJustified`, `ReturnsAsTrapped`, `NoLostEdge` | `TxMoves`, `GpioServed` |
| `Hget_proofs` | `TypeOK`, `OneSurvivor`, `FamiliesShare`, `GivesUpLate`, `NothingLeft`, `FileKept`, `NeverUnverified`; `OutputIsPrefix` and `OkIsWhole` (of answers that are framed); a fetch is finitely many steps (`EveryStepSpends`) | `Ends` |

What is left to TLC is liveness under fairness, which the prover cannot reason about:
`ReadReturns`, `RequestEnds`, `TxMoves`, `GpioServed`, `Ends` and half of `KeepsTime`. Of `ReadReturns`,
`RequestEnds` and `Ends` the half that is about steps is proved: a measure in naturals, or in tuples of them ordered
lexicographically, that every step of the one who is to finish makes smaller and no step of the others makes larger.
The other half, that as long as it has not finished such a step is ENABLED and fairness makes it happen, is what
TLC's runs show on their instances. None of this says how long a step takes.

**Assumptions.** They are those of the modules: sizes are natural numbers, and positive where
the C has an array or a divisor; null values are not members of their sets; what
rounds up rounds up. Three say something of the code. `TablesAssumption`: the offsets and
sizes of a partition entry are unsigned. `LoadsAssumption`: a GPIO bank has a
level slot (`0012`:349). `BootAssumption`: flash fits below the place of the device tree,
and both into PSRAM. Two hypotheses are of theorems. `Alive`
has `~Wraps`, without which `MCClockeventWrap.cfg` shows `TickAlive` violated. `BodyCounted`, `PrefixWritten` and `WholeBody`
have `AnswersFramed`: in a chunked body the data are exactly what the sizes announce, and none come behind a
size of 0; in any other, all is data. It is the server's to keep and not hget's to check; `MCHget` assumes it of the
answers of the run and, of the chunked body, of every beginning. A server that sends more than its
Content-Length does not keep it in hget's terms, and hget writes the excess (hget.c:864, a hazard).
Nothing is assumed of where the server stops, which is a state of `peer`, or of how the reads cut the stream. An answer
is finite (`Seq`).

**The memory pool.** That a freed page is not also mapped
depends on where a job's cut lies inside its region, and that a region is
not touched by two jobs on its belonging to the job's address space. `IInv` adds
`Bookkeeping`: region bounds are in order, and a job is about a region of its
own address space, in the state the job left it in, with the cut inside it. From
it follows `OneJobPerRegion`, which every case needs. The lemmas take the steps
by what they do to pages: `AllocIInv` (pages leave an allocator for a new
region), `DropIInv` (a whole region goes back), `ShrinkFreeIInv` (a cut goes
back), `RelabelIInv` (a state or a job changes and no page moves), `CutIInv` and
`SplitIInv` (pages move from a region to a job, or to another region).
`StepIInv` has one case per action and reduces each to one of them. `SpanBounds`
and `SpanCut` are the facts about intervals all of them use.

For `KeepsLedger`, `Hand(x, m)` says that page `x` is in a region or in a cut of address space `m`,
and `Gone(x)` that it is on its way back. `Owners`: by `NoAliasing` a page is in one hand
at most, so that `Hand` determines what the refinement chooses as its owner. The same
classes of steps then are `Lend` (`AllocLedger`), `Unmap` (`PutLedger`, `CutLedger`), `TakeBack`
(`DropLedger`, `ShrinkFreeLedger`) or a stutter (`RelabelLedger`, `SplitLedger`).

**The counter.** A read is torn only if two latches meet in one answer. `Fresh`:
once a context has seen VALID, what is latched is no older than its call, and VALID can go
off again only while a context above it waits. `WordsOK`: the high word a read has is
never of a later value than the low one, so that after the retry of `0016`, when the high words
agree, both are of one value latched since the call. That value is the
witness for `Linearizable`. `HighOK` follows: no read holds a higher word than the latch has, so
that a second look that differs is a latch that has risen. `Cost(c)` is how far the word held is from the
highest there is, and then the accesses left; a retry pays with the first.

**The tick.** `AlarmOff` and `AlarmOn` say at which steps of `set_next` the alarm is off, and that
the comparator then in force is the target. `NotEarly` bounds the deadline by
the target and the rounding. `Settled` is the lateness check: an alarm that it found
not late is ahead of the counter or has fired.

**The ring.** `Given(d)` are the descriptors filled and not carried out. `GivenOK`: they are
filled as this transfer wants them, in memory unless their line is dirty, and
no late write will clear their OWN bit. `LandingOK`: until its write lands a descriptor
looks owned wherever it is read, so that it is not filled. `Accounted` is why a retry works:
behind the cache, and after a drop, no other OWN bit is set. `Left` counts what a transfer still needs, two for
each descriptor IDMAC has to carry out, since one more clear OWN bit is then to land.

**The boot chain.** `FlashOK`: the checksums are of sequences in which each unit is the one in flash or a
misread, and of what is in flash if `restored`, because then flash is read with the ROM's timing until they
are taken; what is read later, after training, counts only as far as it equals them. `CopiedOK`: a payload that
was verified with its lines invalidated is what was checksummed and stays in PSRAM, whatever is copied, evicted or written back
later; this needs that the two places do not overlap, and nothing of the last writeback. `HealthyOK` is for `HaltJustified`: while nothing has gone
wrong, what was stored is what is read, so that no comparison fails.

**Traps.** `FrameOK` says what each pt_regs holds: only the outermost is of user mode, and
the bit of `status` that its return needs is right although MPIE may be gone from the hardware.
`RestartOK`: while `cause` says system call, an `a0` that reads like a restart
error is that call's own. In `KernelIrq`, `HandlerOK`, `PortOK` and `LatchOK` say who is in the driver, that the
handler's copy of INT_ENA misses nothing, and that a line that is high has its edge
latched, but between the acknowledge and the last look at INT_ST.

**hget.** The race and the fetch are proved apart (`RaceInv`, `FetchInv`), joined by `FetchOK`: outside the
connect the race is at rest. `RaceOK`: candidates are opened in the order of their ranks, so that
a candidate has no place in the poll set yet; this takes lemmas about
ranks and cardinalities (`RankOrder`, `RankOnto`), from which `FamiliesShare` follows as well. `PaidOK`: each
slice of the budget that is gone was waited out, was ended by a signal or belongs to a socket that was closed,
but for the one of a poll whose first report the scan has not come to, and the one of a poll that failed. `PolicyOK`: the
handshake asks for the check the options want, and the file is whole before the body.

`BodyOK` counts the body: of its first `Done` tokens the data are what is written (`Begins`), in a
chunk the size before it says what is `Ahead`, and whoever calls the body whole has seen its end. It is
inductive only with all three, because what makes the next token data, or framing, is a size
read long before. `DataOf` enumerates a body's data, so that one more token is one more datum (`DataGrows`) without
induction over the body: a count that rises by at most one takes every value on the way (`DataAt`).
`Measure` is for `EveryStepSpends`: hops of redirects left, the stage of the hop, slices of the budget,
candidates, sockets and units of the answer, and last what the network and the peer may still do. A peer
that has fallen silent on TLS is a state without a step, and the one `Ends` excludes.

## 5. Not modelled, and the plan

Not modelled: hardware bring-up that is straight-line register programming,
vendored code, device trees, build scripts and host tools (see the component
list). The ring's neighbours in `0007` and `0035` (card number, divider, FIFO
mode) have no behaviour beyond a register value.

Of the modelled parts: fork and the switch between tasks, of which `TrapShim` has only
what they do to MPIE; the loss of interrupts in silicon that docs/RUNTIME-WEDGE.md
describes, which is not in the code; the pin configuration of `0002`; hget's parsing of
URLs and header lines byte by byte, and a body longer than its Content-Length.
The watchdog is not modelled: the driver's own steps are single register writes, and
what matters about them (who feeds it, and when) is the watchdog core's, which is
not in the repository.

Next, in this order:

1. Proofs: the bounds for `Clockevent` (each -ETIME moves the deadline on by a period, while a pass of
   set_next takes at most `MaxSlow`; outside set_next the model has no such limit yet) and for `KernelIrq` (what a handler does between two looks
   at INT_ST), on which the rest of the liveness stands.
2. `Mwdt` with a model of the watchdog core: a live system is never reset, a
   stopped watchdog stays stopped.
3. `PartTable` — `flashmap.py`'s packing against the bootloader's walk; `Mkflt`
   — layout and relocation against a reference.
