------------------------------ MODULE BootChain ------------------------------
(***************************************************************************)
(* The second-stage bootloader from reset to the jump (bootloader/main.c,  *)
(* p4/p4_flash.c and p4/p4_psram.c): find the kernel and the device tree   *)
(* in flash, checksum them, train PSRAM, raise the core clock, test PSRAM, *)
(* copy both payloads into it, checksum the copies, write the cache back   *)
(* and jump.                                                               *)
(*                                                                         *)
(* What can go wrong is the hardware.  The MSPI timing registers, shared   *)
(* by flash and PSRAM, survive a warm reset, and the call that is to put   *)
(* them back is not always enough: reads of flash may then come back wrong *)
(* (differently, or the same way twice) or stall.  Training may disturb    *)
(* them too, or leave a marginal PSRAM; a dirty line may leave the cache   *)
(* at any moment; and one written back while the core is slow kills        *)
(* PSRAM's write channel.  A reset may come at any step, and from the      *)
(* running kernel.                                                         *)
(*                                                                         *)
(* Flash and PSRAM are counted in units of which a partition is a whole    *)
(* number, and a CRC is the sequence of what was read: collisions are      *)
(* abstracted away.  The walk of the partition table reads 32 bytes at a   *)
(* time, which survives a warm reset: it is right, or it does not return.  *)
(***************************************************************************)
EXTENDS Integers

CONSTANTS
  FlashSize,  \* P4_FLASH_SIZE, in units
  PsramSize,  \* the PSRAM chip, in units
  DtbPa,      \* DTB_PA, in units from KERNEL_PA
  Tables      \* the partition tables a board may carry

ASSUME BootAssumption ==
  /\ FlashSize \in Nat \ {0} /\ DtbPa \in Nat /\ PsramSize \in Nat
  /\ DtbPa >= FlashSize /\ PsramSize >= DtbPa + FlashSize

\* A table is a list of entries whose offset and size are unsigned.
ASSUME TablesAssumption ==
  \A t \in Tables : /\ DOMAIN t \subseteq Nat
                    /\ \A n \in DOMAIN t : t[n].off \in Nat /\ t[n].size \in Nat

VARIABLES
  table,   \* the partition table in flash
  mspi,    \* timing of flash reads: as the ROM had it, tuned, or off
  cpu,     \* the core clock, 40 MHz or the ceiling
  psram,   \* what training made of PSRAM
  wedged,  \* whether its write channel is dead
  mem,     \* what PSRAM holds
  cache,   \* what the cache holds of it
  line,    \* the state of each line
  pc,      \* where main() is
  job,     \* the payload being copied
  k,       \* units done by the loop main() is in
  crc,     \* the checksums taken over flash
  restored \* history: p4_flash_init put flash back as the ROM had it

vars == <<table, mspi, cpu, psram, wedged, mem, cache, line, pc, job, k, crc, restored>>

memory == <<wedged, mem, cache, line>>

----------------------------------------------------------------------------

Units == 0 .. PsramSize - 1
Payloads == {"kernel", "dtb"}

\* What a unit may hold: a unit of flash, the test pattern, what a garbled read
\* of flash gave, or anything else.
Payload(s) == [of |-> "flash", at |-> s]
Pattern(u) == [of |-> "test", at |-> u]
Misread == [of |-> "misread", at |-> 0]
Junk == [of |-> "junk", at |-> 0]
Contents == {Junk, Misread} \cup {Payload(s) : s \in 0 .. FlashSize - 1} \cup {Pattern(u) : u \in Units}

\* The entries a walk of the table visits: MD5 entries are skipped and
\* anything else without the magic ends the table.
Matching(type) ==
  {n \in DOMAIN table : /\ table[n].magic = "part" /\ table[n].type = type
                        /\ \A m \in 1 .. n : table[m].magic # "other"}

Found(type) == Matching(type) # {}
Partition(type) == table[CHOOSE n \in Matching(type) : \A m \in Matching(type) : n <= m]

\* A read past the end of the chip fails.
Readable(type) == Partition(type).off + Partition(type).size <= FlashSize

\* Where a payload goes in PSRAM, and which units it takes.
Place(type) == IF type = "kernel" THEN 0 ELSE DtbPa
Span(type) == {Place(type) + n : n \in 0 .. Partition(type).size - 1}

----------------------------------------------------------------------------

\* What reading len units of flash may return.
FlashReads(off, len) ==
  {got \in [0 .. len - 1 -> {Misread} \cup {Payload(off + n) : n \in 0 .. len - 1}] :
     \A n \in 0 .. len - 1 : got[n] = Payload(off + n) \/ (mspi = "off" /\ got[n] = Misread)}

\* What a load of unit u may return, and what it then leaves in the cache.
Loads(u) ==
  IF line[u] # "absent" THEN {cache[u]}
  ELSE {mem[u]} \cup (IF psram = "good" THEN {} ELSE {Junk})

Loaded(got) ==
  /\ cache' = [u \in Units |-> IF u \in DOMAIN got THEN got[u] ELSE cache[u]]
  /\ line' = [u \in Units |-> IF u \in DOMAIN got /\ line[u] = "absent" THEN "clean" ELSE line[u]]

Store(u, v) ==
  /\ cache' = [cache EXCEPT ![u] = v] /\ line' = [line EXCEPT ![u] = "dirty"]

DirtyIn(S) == {u \in S : line[u] = "dirty"}

\* Bursts that write the dirty units of S to PSRAM.  A slow core cannot feed
\* one: it stops half way, and nothing is written from then on.
WriteBack(S) ==
  \E bad \in SUBSET DirtyIn(S) :
    /\ bad # {} => ~wedged /\ (psram = "marginal" \/ cpu = "slow")
    /\ mem' = [u \in Units |-> IF u \in bad THEN Junk
                               ELSE IF u \in DirtyIn(S) /\ ~wedged /\ cpu = "fast" THEN cache[u]
                               ELSE mem[u]]
    /\ wedged' = (wedged \/ (cpu = "slow" /\ DirtyIn(S) # {}))

----------------------------------------------------------------------------

Halt == pc' = "halted"

\* With its timing off a read of flash may also fail, or hang in the ROM.
FlashStalls == mspi = "off" /\ Halt

\* Up to p4_flash_init: watchdogs, analog, console, and the MSPI asked back to
\* what the ROM had, which it may not obey.
FlashInit ==
  /\ pc = "reset"
  /\ mspi' \in {"rom", mspi} /\ restored' = (mspi' = "rom")
  /\ pc' = "selftest"
  /\ UNCHANGED <<table, cpu, psram, job, k, crc>> /\ UNCHANGED memory

\* The same stretch read twice.
SelfTest ==
  /\ pc = "selftest"
  /\ \/ \E a, b \in FlashReads(0, 1) : IF a = b THEN pc' = "find" ELSE Halt
     \/ FlashStalls
  /\ UNCHANGED <<table, restored, mspi, cpu, psram, job, k, crc>> /\ UNCHANGED memory

FindParts ==
  /\ pc = "find"
  /\ \/ IF \A type \in Payloads : Found(type) THEN pc' = "crc" ELSE Halt
     \/ FlashStalls
  /\ UNCHANGED <<table, restored, mspi, cpu, psram, job, k, crc>> /\ UNCHANGED memory

\* p4_flash_crc32 over both partitions, then the clock and cache HALs.
FlashCrc ==
  /\ pc = "crc"
  /\ \/ /\ \A type \in Payloads : Readable(type)
        /\ \E kernel \in FlashReads(Partition("kernel").off, Partition("kernel").size),
              dtb \in FlashReads(Partition("dtb").off, Partition("dtb").size) :
             crc' = [type \in Payloads |-> IF type = "kernel" THEN kernel ELSE dtb]
        /\ pc' = "psram"
     \/ (\E type \in Payloads : ~Readable(type)) /\ Halt /\ UNCHANGED crc
     \/ FlashStalls /\ UNCHANGED crc
  /\ UNCHANGED <<table, restored, mspi, cpu, psram, job, k>> /\ UNCHANGED memory

\* Training writes the timing registers that flash shares; it may fail or
\* hang, and it may succeed with a PSRAM that does not always hold.
PsramInit ==
  /\ pc = "psram"
  /\ mspi' \in {"tuned", "off"}
  /\ psram' \in {"dead", "marginal", "good"}
  /\ line' = [u \in Units |-> "absent"]
  /\ IF psram' = "dead" THEN Halt ELSE pc' = "raise"
  /\ UNCHANGED <<table, restored, cpu, wedged, mem, cache, job, k, crc>>

\* The clock is raised, or the request refused and main() goes on.
RaiseCpu ==
  /\ pc = "raise"
  /\ cpu' \in {"slow", "fast"}
  /\ pc' = "fill" /\ k' = 0
  /\ UNCHANGED <<table, restored, mspi, psram, job, crc>> /\ UNCHANGED memory

\* p4_psram_test: every word written, then every word read.
TestWrite ==
  /\ pc = "fill"
  /\ Store(k, Pattern(k))
  /\ IF k + 1 < PsramSize THEN k' = k + 1 /\ UNCHANGED pc ELSE k' = 0 /\ pc' = "test"
  /\ UNCHANGED <<table, restored, mspi, cpu, psram, wedged, mem, job, crc>>

TestRead ==
  /\ pc = "test"
  /\ \E v \in Loads(k) :
       /\ Loaded([u \in {k} |-> v])
       /\ IF v # Pattern(k) THEN Halt /\ UNCHANGED k
          ELSE IF k + 1 < PsramSize THEN k' = k + 1 /\ UNCHANGED pc
          ELSE k' = 0 /\ pc' = "alias"
  /\ UNCHANGED <<table, restored, mspi, cpu, psram, wedged, mem, job, crc>>

\* p4_psram_alias_test scribbles on one unit, through the cache and past it,
\* and is not fatal: the line stays dirty.
AliasTest ==
  /\ pc = "alias"
  /\ mem' = IF wedged THEN mem ELSE [mem EXCEPT ![0] = Junk]
  /\ Store(0, Junk)
  /\ pc' = "copy" /\ job' = "kernel"
  /\ UNCHANGED <<table, restored, mspi, cpu, psram, wedged, k, crc>>

----------------------------------------------------------------------------

\* What it must not be: the loop runs one unit too far.
CopyOneMore ==
  /\ pc = "copy" /\ k <= Partition(job).size
  /\ \E got \in FlashReads(Partition(job).off + k, 1) : Store(Place(job) + k, got[0])
  /\ k' = k + 1
  /\ UNCHANGED <<table, restored, mspi, cpu, psram, wedged, mem, pc, job, crc>>

\* p4_flash_copy.  Its reads are those FlashCrc made, so none is past the end.
Copy ==
  /\ pc = "copy" /\ k < Partition(job).size
  /\ \/ /\ \E got \in FlashReads(Partition(job).off + k, 1) : Store(Place(job) + k, got[0])
        /\ k' = k + 1 /\ UNCHANGED pc
     \/ FlashStalls /\ UNCHANGED <<cache, line, k>>
  /\ UNCHANGED <<table, restored, mspi, cpu, psram, wedged, mem, job, crc>>

\* What it must not be: the copy is invalidated before it is written back.
CopyWritebackNot ==
  /\ pc = "copy" /\ k = Partition(job).size
  /\ pc' = "invalidate" /\ k' = 0
  /\ UNCHANGED <<table, restored, mspi, cpu, psram, job, crc>> /\ UNCHANGED memory

CopyWriteback ==
  /\ pc = "copy" /\ k = Partition(job).size
  /\ WriteBack(Span(job))
  /\ line' = [u \in Units |-> IF u \in DirtyIn(Span(job)) THEN "clean" ELSE line[u]]
  /\ pc' = "invalidate" /\ k' = 0
  /\ UNCHANGED <<table, restored, mspi, cpu, psram, cache, job, crc>>

\* What it must not be: the copy is checked out of the cache it was made in.
CopyInvalidateNot ==
  /\ pc = "invalidate"
  /\ pc' = "verify"
  /\ UNCHANGED <<table, restored, mspi, cpu, psram, job, k, crc>> /\ UNCHANGED memory

CopyInvalidate ==
  /\ pc = "invalidate"
  /\ line' = [u \in Units |-> IF u \in Span(job) THEN "absent" ELSE line[u]]
  /\ cache' = [u \in Units |-> IF u \in Span(job) THEN Junk ELSE cache[u]]
  /\ pc' = "verify"
  /\ UNCHANGED <<table, restored, mspi, cpu, psram, wedged, mem, job, k, crc>>

\* p4_mem_crc32 over the copy, against the checksum taken over flash.  After
\* the kernel comes the device tree; after that SDMMC and EMAC, not fatal.
Verify ==
  /\ pc = "verify"
  /\ \E got \in [Span(job) -> Contents] :
       /\ \A u \in Span(job) : got[u] \in Loads(u)
       /\ Loaded(got)
       /\ IF \E u \in Span(job) : got[u] # crc[job][u - Place(job)] THEN Halt /\ UNCHANGED job
          ELSE IF job = "kernel" THEN job' = "dtb" /\ pc' = "copy"
          ELSE pc' = "handover" /\ UNCHANGED job
  /\ UNCHANGED <<table, restored, mspi, cpu, psram, wedged, mem, k, crc>>

\* Cache_WriteBack_All, then jump_to_linux.  The ROM's routine takes the caches
\* to write back as an argument, and main() passes none: what it finds in the
\* argument register is whatever the last call left there.
HandOver ==
  /\ pc = "handover"
  /\ \E S \in SUBSET Units :
       /\ WriteBack(S)
       /\ line' = [u \in Units |-> IF u \in DirtyIn(S) THEN "clean" ELSE line[u]]
  /\ pc' = "linux"
  /\ UNCHANGED <<table, restored, mspi, cpu, psram, cache, job, k, crc>>

----------------------------------------------------------------------------

\* The cache makes room.
Evict(u) ==
  /\ line[u] # "absent"
  /\ WriteBack({u})
  /\ line' = [line EXCEPT ![u] = "absent"] /\ cache' = [cache EXCEPT ![u] = Junk]
  /\ UNCHANGED <<table, restored, mspi, cpu, psram, pc, job, k, crc>>

NoCrc == [type \in Payloads |-> [n \in {} |-> Junk]]

AtReset ==
  /\ pc' = "reset" /\ cpu' = "slow" /\ psram' = "untrained" /\ wedged' = FALSE
  /\ cache' = [u \in Units |-> Junk] /\ line' = [u \in Units |-> "absent"]
  /\ job' = "kernel" /\ k' = 0 /\ crc' = NoCrc /\ restored' = FALSE
  /\ UNCHANGED table

\* A watchdog reset, which is also how the kernel reboots: the cache is lost,
\* the MSPI registers are not, and PSRAM may keep what it holds.
WarmReset ==
  /\ AtReset
  /\ mspi' = IF mspi = "rom" THEN "rom" ELSE "off"
  /\ mem' \in {mem, [u \in Units |-> Junk]}

PowerCycle ==
  /\ AtReset
  /\ mspi' = "rom" /\ mem' = [u \in Units |-> Junk]

----------------------------------------------------------------------------

Init ==
  /\ table \in Tables
  /\ mspi = "rom" /\ cpu = "slow" /\ psram = "untrained" /\ wedged = FALSE
  /\ mem = [u \in Units |-> Junk] /\ cache = mem /\ line = [u \in Units |-> "absent"]
  /\ pc = "reset" /\ job = "kernel" /\ k = 0 /\ crc = NoCrc /\ restored = FALSE

Main ==
  \/ FlashInit \/ SelfTest \/ FindParts \/ FlashCrc \/ PsramInit \/ RaiseCpu
  \/ TestWrite \/ TestRead \/ AliasTest
  \/ Copy \/ CopyWriteback \/ CopyInvalidate \/ Verify \/ HandOver

Next == Main \/ WarmReset \/ PowerCycle \/ \E u \in Units : Evict(u)

Spec == Init /\ [][Next]_vars

----------------------------------------------------------------------------

\* Every variable stays in its type.
TypeOK ==
  /\ table \in Tables
  /\ mspi \in {"rom", "tuned", "off"} /\ cpu \in {"slow", "fast"}
  /\ psram \in {"untrained", "dead", "marginal", "good"}
  /\ wedged \in BOOLEAN /\ restored \in BOOLEAN
  /\ mem \in [Units -> Contents] /\ cache \in [Units -> Contents]
  /\ line \in [Units -> {"absent", "clean", "dirty"}]
  /\ pc \in {"reset", "selftest", "find", "crc", "psram", "raise", "fill", "test", "alias",
             "copy", "invalidate", "verify", "handover", "linux", "halted"}
  /\ job \in Payloads /\ k \in 0 .. PsramSize

\* From the jump on, PSRAM itself, not the cache, holds the kernel and the
\* device tree that were checksummed in flash; and they are the ones flash holds
\* when p4_flash_init put its timing back.
JumpGood ==
  pc = "linux" => \A type \in Payloads : \A u \in Span(type) :
                    /\ mem[u] = crc[type][u - Place(type)]
                    /\ restored => mem[u] = Payload(Partition(type).off + u - Place(type))

\* The checksums are not those of what flash holds.
Missummed ==
  \E type \in Payloads : \E n \in DOMAIN crc[type] :
    crc[type][n] # Payload(Partition(type).off + n)

\* The bootloader refuses to boot only a board that has something wrong: its
\* table, its PSRAM, or a flash it reads, or read, wrongly.
HaltJustified ==
  pc = "halted" =>
    \/ \E type \in Payloads : ~Found(type) \/ ~Readable(type)
    \/ psram \in {"dead", "marginal"} \/ wedged
    \/ mspi = "off" \/ Missummed

\* main.c:164: refusing unstable reads "turns 'boots a corrupted kernel and dies
\* somewhere strange' into one line of console".
NeverBootsCorrupt ==
  pc = "linux" => \A type \in Payloads : \A u \in Span(type) :
                    mem[u] = Payload(Partition(type).off + u - Place(type))

\* main.c:417: the writeback before the jump is "the total, cheap version of a
\* guarantee we cannot afford to get subtly wrong", and "also covers anything
\* else that touched PSRAM": once the kernel runs, nothing the bootloader left
\* in the cache reaches PSRAM, where its DMA buffers are.
QuietAfterJump == [][pc = "linux" /\ pc' = "linux" => UNCHANGED mem]_vars

\* main.c:246: "Nothing may write a BURST to PSRAM while the core is still at
\* 40 MHz".
NoBurstWhileSlow == ~wedged

\* p4_clk.h:22: the raise "Must run BEFORE PSRAM init".
RaisedBeforeTraining == psram # "untrained" => cpu = "fast"
=============================================================================
