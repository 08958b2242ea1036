-------------------------- MODULE BootChain_proofs --------------------------
(***************************************************************************)
(* BootChain for every flash, PSRAM and partition table: the kernel is     *)
(* entered only with what was checksummed in PSRAM, which is what flash    *)
(* holds if its timing was put back; and a board with nothing wrong is     *)
(* never refused.                                                          *)
(***************************************************************************)
EXTENDS BootChain, WellFoundedInduction, TLAPS

\* From the checksum on, and from training on.
Loading == {"raise", "fill", "test", "alias", "copy", "invalidate", "verify",
            "handover", "linux"}
Summed == {"psram"} \cup Loading
Early == {"reset", "selftest", "find", "crc", "psram"}

\* A checksum is of the whole partition, and right if flash was put back.
Sums(type) ==
  /\ crc[type] \in [0 .. Partition(type).size - 1 -> Contents \ {Junk}]
  /\ restored => \A n \in 0 .. Partition(type).size - 1 :
                   crc[type][n] = Payload(Partition(type).off + n)

\* What unit u of a payload's place is to hold: what was checksummed.
Wanted(type, u) == crc[type][u - Place(type)]

\* What the core reads of a PSRAM that holds.
Visible(u) == IF line[u] = "absent" THEN mem[u] ELSE cache[u]

\* PSRAM itself has the payload, and no dirty line is over it.
Copied(type) == \A u \in Span(type) : line[u] # "dirty" /\ mem[u] = Wanted(type, u)

\* Nothing that a halt would be justified by has gone wrong.
Healthy == psram = "good" /\ mspi # "off" /\ ~wedged /\ ~Missummed

\* Flash that was put back is read with the ROM's timing until the checksums
\* are taken, so they are those of the payloads; and nothing is written to PSRAM
\* before it is trained.
FlashOK ==
  /\ pc \in Early => psram = "untrained" /\ (restored => mspi = "rom" \/ pc = "reset")
  /\ pc \in Loading => psram \in {"marginal", "good"}
  /\ pc \in {"crc"} \cup Summed => \A type \in Payloads : Found(type)
  /\ pc \in Summed => \A type \in Payloads : Readable(type) /\ Sums(type)

LoopOK ==
  /\ pc \in {"fill", "test"} => k < PsramSize
  /\ pc \in {"alias", "invalidate", "verify"} => k = 0
  /\ pc = "copy" => k <= Partition(job).size

\* A payload that was verified stays in PSRAM, whatever is copied or evicted
\* after it.
CopiedOK ==
  /\ pc \in {"copy", "invalidate", "verify"} /\ job = "dtb" => Copied("kernel")
  /\ pc = "verify" => \A u \in Span(job) : line[u] = "absent"
  /\ pc \in {"handover", "linux"} => \A type \in Payloads : Copied(type)

\* While nothing has gone wrong, what was stored is what is read.
HealthyOK ==
  Healthy =>
    /\ \A u \in Units : line[u] = "clean" => cache[u] = mem[u]
    /\ pc = "fill" => \A u \in Units : u < k => Visible(u) = Pattern(u)
    /\ pc = "test" => \A u \in Units : Visible(u) = Pattern(u)
    /\ pc = "copy" => \A u \in Span(job) : u - Place(job) < k => Visible(u) = Wanted(job, u)
    /\ pc \in {"invalidate", "verify"} => Copied(job)

\* The inductive invariant.
IInv == TypeOK /\ FlashOK /\ LoopOK /\ CopiedOK /\ HealthyOK /\ HaltJustified

----------------------------------------------------------------------------
(* The partitions, and their places in PSRAM.                              *)

\* A set of positions has a first one.
LEMMA LeastElement ==
  ASSUME NEW T \in SUBSET Nat, T # {}
  PROVE  \E l \in T : \A m \in T : l <= m
  <1>1. PICK l \in T : \A m \in T : <<m, l>> \notin OpToRel(<, Nat)
    BY WFMin, NatLessThanWellFounded, Zenon
  <1>2. \A m \in T : ~(m < l)
    BY <1>1, Zenon DEF OpToRel
  <1> QED
    BY <1>2

\* The entry FindParts settles on is one of the table's.
LEMMA PartitionIsEntry ==
  ASSUME table \in Tables, NEW type \in Payloads, Found(type)
  PROVE  Partition(type).off \in Nat /\ Partition(type).size \in Nat
  <1>1. Matching(type) \in SUBSET Nat /\ Matching(type) # {}
    BY TablesAssumption DEF Matching, Found
  <1>2. \E n \in Matching(type) : \A m \in Matching(type) : n <= m
    BY <1>1, LeastElement
  <1>3. (CHOOSE n \in Matching(type) : \A m \in Matching(type) : n <= m) \in Matching(type)
    BY <1>2, Zenon
  <1>4. PICK n \in DOMAIN table : Partition(type) = table[n]
    BY <1>3, Zenon DEF Partition, Matching
  <1> QED
    BY <1>4, TablesAssumption

\* A payload's place is inside PSRAM, and the payload inside flash.
LEMMA Placed ==
  ASSUME table \in Tables, NEW type \in Payloads, Found(type), Readable(type)
  PROVE  /\ Partition(type).off \in Nat /\ Partition(type).size \in Nat
         /\ Partition(type).off + Partition(type).size <= FlashSize
         /\ Place(type) \in Nat /\ Place(type) + Partition(type).size <= PsramSize
         /\ Span(type) = Place(type) .. Place(type) + Partition(type).size - 1
         /\ Span(type) \subseteq Units
         /\ \A u \in Span(type) : u - Place(type) \in 0 .. Partition(type).size - 1
         /\ \A n \in 0 .. Partition(type).size - 1 :
              Payload(Partition(type).off + n) \in Contents \ {Junk}
  <1> DEFINE off == Partition(type).off
             size == Partition(type).size
             place == Place(type)
  <1>1. off \in Nat /\ size \in Nat /\ off + size <= FlashSize
    BY PartitionIsEntry DEF Readable
  <1>2. place \in Nat /\ place + size <= PsramSize
    BY <1>1, BootAssumption DEF Place
  <1>3. Span(type) = {place + n : n \in 0 .. size - 1}
    BY DEF Span
  <1>4. ASSUME NEW u \in Span(type)
        PROVE  u \in place .. place + size - 1 /\ u \in Units /\ u - place \in 0 .. size - 1
    <2>1. PICK n \in 0 .. size - 1 : u = place + n
      BY <1>3, <1>4
    <2> QED
      BY <1>1, <1>2, <2>1, BootAssumption DEF Units
  <1>5. ASSUME NEW u \in place .. place + size - 1
        PROVE  u \in Span(type)
    <2>1. u - place \in 0 .. size - 1 /\ u = place + (u - place)
      BY <1>1, <1>2
    <2> QED
      BY <1>3, <2>1
  <1>6. ASSUME NEW n \in 0 .. size - 1
        PROVE  Payload(off + n) \in Contents \ {Junk}
    <2>1. off + n \in 0 .. FlashSize - 1
      BY <1>1, <1>6, BootAssumption
    <2> QED
      BY <2>1 DEF Contents, Payload, Junk
  <1> QED
    BY <1>1, <1>2, <1>4, <1>5, <1>6

\* The kernel ends below the device tree.
LEMMA Apart ==
  ASSUME table \in Tables, \A type \in Payloads : Found(type) /\ Readable(type)
  PROVE  Span("kernel") \cap Span("dtb") = {}
  <1>1. "kernel" \in Payloads /\ "dtb" \in Payloads
    BY DEF Payloads
  <1>2. Span("kernel") = Place("kernel") .. Place("kernel") + Partition("kernel").size - 1
    BY <1>1, Placed
  <1>3. Span("dtb") = Place("dtb") .. Place("dtb") + Partition("dtb").size - 1
    BY <1>1, Placed
  <1>4. /\ Partition("kernel").off \in Nat /\ Partition("kernel").size \in Nat
        /\ Partition("kernel").off + Partition("kernel").size <= FlashSize
        /\ Partition("dtb").size \in Nat
    BY <1>1, Placed
  <1>5. Place("kernel") = 0 /\ Place("dtb") = DtbPa
    BY DEF Place
  <1> QED
    BY <1>2, <1>3, <1>4, <1>5, BootAssumption

\* The table is flash's: nothing about the partitions changes while it does not.
LEMMA SamePartitions ==
  ASSUME table' = table, NEW type
  PROVE  /\ Partition(type)' = Partition(type) /\ Span(type)' = Span(type)
         /\ Found(type)' <=> Found(type)
         /\ Readable(type)' <=> Readable(type)
  <1>1. Matching(type)' = Matching(type)
    BY DEF Matching
  <1>2. Partition(type)' = Partition(type)
    BY <1>1 DEF Partition
  <1> QED
    BY <1>1, <1>2 DEF Span, Found, Readable

\* Nor about what they are to hold, once they are summed.
LEMMA SameTable ==
  ASSUME table' = table, crc' = crc, NEW type
  PROVE  /\ Partition(type)' = Partition(type) /\ Span(type)' = Span(type)
         /\ Found(type)' <=> Found(type)
         /\ Readable(type)' <=> Readable(type)
         /\ \A u : Wanted(type, u)' = Wanted(type, u)
  BY SamePartitions DEF Wanted, Place

LEMMA SameSums ==
  ASSUME table' = table, crc' = crc
  PROVE  Missummed' <=> Missummed
  <1>1. \A type \in Payloads : Partition(type)' = Partition(type)
    BY SamePartitions
  <1> QED
    BY <1>1 DEF Missummed, Payload

\* What main() knows of both payloads once they are summed.
LEMMA Both ==
  ASSUME TypeOK, FlashOK, pc \in Summed, NEW type \in Payloads
  PROVE  /\ Found(type) /\ Readable(type) /\ table \in Tables
         /\ Span(type) \subseteq Units
         /\ \A u \in Span(type) : Wanted(type, u) \in Contents /\ Wanted(type, u) # Junk
         /\ restored \/ ~Missummed =>
              \A n \in 0 .. Partition(type).size - 1 :
                crc[type][n] = Payload(Partition(type).off + n)
  <1>1. Found(type) /\ Readable(type) /\ table \in Tables /\ Sums(type)
    BY DEF TypeOK, FlashOK
  <1>2. /\ Span(type) \subseteq Units
        /\ \A u \in Span(type) : u - Place(type) \in 0 .. Partition(type).size - 1
    BY <1>1, Placed
  <1>3. \A u \in Span(type) : Wanted(type, u) \in Contents /\ Wanted(type, u) # Junk
    BY <1>1, <1>2 DEF Wanted, Sums
  <1>4. restored \/ ~Missummed =>
          \A n \in 0 .. Partition(type).size - 1 :
            crc[type][n] = Payload(Partition(type).off + n)
    BY <1>1 DEF Sums, Missummed
  <1> QED
    BY <1>1, <1>2, <1>3, <1>4

----------------------------------------------------------------------------
(* The cache.                                                              *)

\* A write-back only touches the dirty units of its range, and a healthy one
\* brings each of them to PSRAM as it is in the cache.
LEMMA WriteBackFacts ==
  ASSUME TypeOK, NEW S \in SUBSET Units, WriteBack(S)
  PROVE  /\ mem' \in [Units -> Contents] /\ wedged' \in BOOLEAN
         /\ wedged => wedged'
         /\ \A u \in Units : u \notin S \/ line[u] # "dirty" => mem'[u] = mem[u]
         /\ psram = "good" /\ ~wedged' =>
              \A u \in S : line[u] = "dirty" => mem'[u] = cache[u]
  <1>1. PICK bad \in SUBSET DirtyIn(S) :
          /\ bad # {} => ~wedged /\ (psram = "marginal" \/ cpu = "slow")
          /\ mem' = [u \in Units |-> IF u \in bad THEN Junk
                               ELSE IF u \in DirtyIn(S) /\ ~wedged /\ cpu = "fast" THEN cache[u]
                               ELSE mem[u]]
    BY DEF WriteBack
  <1>2. wedged' = (wedged \/ (cpu = "slow" /\ DirtyIn(S) # {}))
    BY DEF WriteBack
  <1>3. wedged' \in BOOLEAN
    BY <1>2, Zenon DEF TypeOK
  <1>4. wedged => wedged'
    BY <1>2, Zenon
  <1>5. Junk \in Contents
    BY DEF Contents
  <1>6. mem' \in [Units -> Contents]
    BY <1>1, <1>5 DEF TypeOK
  <1>7. \A u \in Units : u \notin S \/ line[u] # "dirty" => mem'[u] = mem[u]
    BY <1>1 DEF DirtyIn
  <1>8. ASSUME psram = "good", ~wedged', NEW u \in S, line[u] = "dirty"
        PROVE  mem'[u] = cache[u]
    <2>1. u \in DirtyIn(S)
      BY <1>8 DEF DirtyIn
    <2>2. ~wedged /\ cpu # "slow"
      BY <1>2, <1>8, <2>1, Zenon
    <2>3. cpu = "fast"
      BY <2>2 DEF TypeOK
    <2>4. bad = {}
      BY <1>1, <1>8, <2>2
    <2> QED
      BY <1>1, <2>1, <2>2, <2>3, <2>4
  <1> QED
    BY <1>3, <1>4, <1>6, <1>7, <1>8

----------------------------------------------------------------------------
(* The steps of main().                                                    *)

LEMMA InitIInv == Init => IInv
  <1> SUFFICES ASSUME Init PROVE IInv
    OBVIOUS
  <1> USE DEF Init
  <1>1. TypeOK
    <2>1. Junk \in Contents /\ 0 \in 0 .. PsramSize /\ "kernel" \in Payloads
      BY BootAssumption DEF Contents, Payloads
    <2> QED
      BY <2>1, Zenon DEF TypeOK
  <1>2. FlashOK /\ LoopOK /\ CopiedOK /\ HaltJustified
    BY DEF FlashOK, Summed, Loading, Early, LoopOK, CopiedOK, HaltJustified
  <1>3. HealthyOK
    BY DEF HealthyOK, Healthy
  <1> QED
    BY <1>1, <1>2, <1>3 DEF IInv

\* Up to the checksums nothing is written.
LEMMA EarlyIInv ==
  ASSUME IInv, FlashInit \/ SelfTest \/ FindParts \/ FlashCrc
  PROVE  IInv'
  <1>1. /\ table' = table /\ cpu' = cpu /\ psram' = psram /\ job' = job /\ k' = k
        /\ wedged' = wedged /\ mem' = mem /\ cache' = cache /\ line' = line
    BY DEF FlashInit, SelfTest, FindParts, FlashCrc, memory
  <1>2. TypeOK /\ FlashOK
    BY DEF IInv
  <1>3. /\ pc \in Early /\ pc' \in {"selftest", "find", "crc", "psram", "halted"}
        /\ mspi' \in {mspi, "rom"}
    BY DEF FlashInit, SelfTest, FindParts, FlashCrc, FlashStalls, Halt, Early
  <1>4. restored' \in BOOLEAN /\ (restored' => mspi' = "rom")
    <2>1. CASE FlashInit
      <3>1. restored' = (mspi' = "rom")
        BY <2>1 DEF FlashInit
      <3> QED
        BY <3>1, Zenon
    <2>2. CASE SelfTest \/ FindParts \/ FlashCrc
      <3>1. restored' = restored /\ mspi' = mspi /\ pc # "reset"
        BY <2>2 DEF SelfTest, FindParts, FlashCrc
      <3> QED
        BY <1>2, <1>3, <3>1 DEF TypeOK, FlashOK
    <2> QED
      BY <2>1, <2>2
  <1>5. TypeOK'
    BY <1>1, <1>2, <1>3, <1>4 DEF TypeOK
  <1>6. \A type \in Payloads : /\ (Found(type)' <=> Found(type)) /\ (Readable(type)' <=> Readable(type))
                               /\ Partition(type)' = Partition(type)
    BY <1>1, SamePartitions
  <1>7. (pc' = "crc" => \A type \in Payloads : Found(type))
        /\ (pc' = "psram" => \A type \in Payloads : Found(type) /\ Readable(type))
    BY <1>2 DEF FlashInit, SelfTest, FindParts, FlashCrc, FlashStalls, FlashOK, Halt
  <1>8. ASSUME pc' = "psram", NEW type \in Payloads
        PROVE  Sums(type)'
    <2>1. FlashCrc /\ pc = "crc"
      BY <1>8 DEF FlashInit, SelfTest, FindParts, FlashCrc, FlashStalls, Halt
    <2> DEFINE off == Partition(type).off
               size == Partition(type).size
    <2>2. crc'[type] \in FlashReads(off, size)
      <3>1. PICK kernel \in FlashReads(Partition("kernel").off, Partition("kernel").size),
                 dtb \in FlashReads(Partition("dtb").off, Partition("dtb").size) :
              crc' = [t \in Payloads |-> IF t = "kernel" THEN kernel ELSE dtb]
        BY <1>8, <2>1 DEF FlashCrc, FlashStalls, Halt
      <3>2. CASE type = "kernel"
        BY <3>1, <3>2, Zenon
      <3>3. CASE type = "dtb"
        <4>1. crc'[type] = dtb
          BY <3>1, <3>3
        <4> QED
          BY <3>3, <4>1
      <3> QED
        BY <3>2, <3>3 DEF Payloads
    <2>3. Found(type) /\ Readable(type) /\ table \in Tables
      BY <1>2, <1>7, <1>8 DEF TypeOK
    <2>4. \A n \in 0 .. size - 1 : Payload(off + n) \in Contents \ {Junk}
      BY <2>3, Placed
    <2>5. Misread \in Contents \ {Junk}
      BY DEF Misread, Junk, Contents
    <2>6. crc'[type] \in [0 .. size - 1 -> Contents \ {Junk}]
      BY <2>2, <2>4, <2>5 DEF FlashReads
    <2>7. restored' => mspi = "rom"
      <3>1. restored' = restored
        BY <2>1 DEF FlashCrc
      <3> QED
        BY <1>2, <2>1, <3>1 DEF FlashOK, Early
    <2>8. restored' => \A n \in 0 .. size - 1 : crc'[type][n] = Payload(off + n)
      BY <2>2, <2>7 DEF FlashReads
    <2> QED
      BY <1>6, <2>6, <2>8 DEF Sums, Contents, Payload, Pattern, Junk, Misread, Units
  <1>9. FlashOK'
    BY <1>1, <1>2, <1>3, <1>4, <1>6, <1>7, <1>8 DEF FlashOK, Summed, Loading, Early
  <1>10. LoopOK' /\ CopiedOK'
    BY <1>3 DEF LoopOK, CopiedOK
  <1>11. HealthyOK'
    BY <1>1, <1>2, <1>3 DEF HealthyOK, Healthy, FlashOK
  <1>12. HaltJustified'
    <2> SUFFICES ASSUME pc' = "halted", mspi # "off"
                 PROVE  \E type \in Payloads : ~Found(type) \/ ~Readable(type)
      BY <1>6 DEF HaltJustified, FlashInit, SelfTest, FindParts, FlashCrc, Halt
    <2>1. ~SelfTest
      <3> SUFFICES ASSUME SelfTest PROVE FALSE
        OBVIOUS
      <3>1. PICK a \in FlashReads(0, 1), b \in FlashReads(0, 1) :
              IF a = b THEN pc' = "find" ELSE pc' = "halted"
        BY DEF SelfTest, FlashStalls, Halt
      <3>2. \A n \in 0 .. 0 : a[n] = Payload(0 + n) /\ b[n] = Payload(0 + n)
        BY DEF FlashReads
      <3>3. a = [n \in 0 .. 0 |-> Payload(0 + n)] /\ b = [n \in 0 .. 0 |-> Payload(0 + n)]
        BY <3>2 DEF FlashReads
      <3> QED
        BY <3>1, <3>3
    <2> QED
      BY <2>1 DEF FlashInit, FindParts, FlashCrc, FlashStalls, Halt
  <1> QED
    BY <1>5, <1>9, <1>10, <1>11, <1>12 DEF IInv

\* Training and the raise of the clock leave the cache empty, or alone.
LEMMA TrainIInv ==
  ASSUME IInv, PsramInit \/ RaiseCpu
  PROVE  IInv'
  <1>1. /\ table' = table /\ job' = job /\ crc' = crc /\ restored' = restored
        /\ wedged' = wedged /\ mem' = mem /\ cache' = cache
        /\ k' \in {k, 0}
    BY DEF PsramInit, RaiseCpu, memory
  <1>2. TypeOK /\ FlashOK /\ HealthyOK
    BY DEF IInv
  <1>3. pc \in Summed /\ pc' \in {"halted", "raise", "fill"} /\ (pc' = "fill" => k' = 0)
    BY DEF PsramInit, RaiseCpu, Summed, Loading, Halt
  <1>4. TypeOK'
    <2>1. /\ mspi' \in {"rom", "tuned", "off"}
          /\ psram' \in {"untrained", "dead", "marginal", "good"}
          /\ cpu' \in {"slow", "fast"}
          /\ line' \in [Units -> {"absent", "clean", "dirty"}]
      BY <1>2 DEF PsramInit, RaiseCpu, memory, TypeOK
    <2>2. k' \in 0 .. PsramSize
      BY <1>1, <1>2, BootAssumption DEF TypeOK
    <2>3. pc' \in {"raise", "fill", "halted"}
      BY <1>3
    <2> QED
      BY <1>1, <1>2, <2>1, <2>2, <2>3 DEF TypeOK
  <1>5. \A type \in Payloads : (Found(type)' <=> Found(type)) /\ (Readable(type)' <=> Readable(type))
                               /\ Partition(type)' = Partition(type)
    BY <1>1, SameTable
  <1>6. FlashOK'
    <2>1. \A type \in Payloads : Sums(type)' <=> Sums(type)
      BY <1>1, <1>5 DEF Sums, Contents, Payload, Pattern, Junk, Misread, Units
    <2>2. pc' # "halted" => psram' \in {"marginal", "good"}
      BY <1>2 DEF PsramInit, RaiseCpu, Halt, FlashOK, Loading
    <2> QED
      BY <1>2, <1>3, <1>5, <2>1, <2>2 DEF FlashOK, Summed, Loading, Early
  <1>7. LoopOK' /\ CopiedOK'
    BY <1>3, BootAssumption DEF LoopOK, CopiedOK
  <1>8. HealthyOK'
    <2>1. \A u \in Units : ~(u < 0)
      BY DEF Units
    <2>2. Healthy' => \A u \in Units : line'[u] = "clean" => cache'[u] = mem'[u]
      <3>1. CASE PsramInit
        BY <3>1 DEF PsramInit
      <3>2. CASE RaiseCpu
        BY <1>1, <1>2, <3>2, SameSums DEF RaiseCpu, memory, HealthyOK, Healthy
      <3> QED
        BY <3>1, <3>2
    <2> QED
      BY <1>3, <2>1, <2>2 DEF HealthyOK
  <1>9. HaltJustified'
    <2>1. pc' = "halted" => psram' = "dead"
      BY DEF PsramInit, RaiseCpu, Halt
    <2> QED
      BY <2>1 DEF HaltJustified
  <1> QED
    BY <1>4, <1>6, <1>7, <1>8, <1>9 DEF IInv

\* After training, flash is only read.
LEMMA FlashFrame ==
  ASSUME FlashOK, pc \in Loading, pc' \in Loading \cup {"halted"},
         table' = table, crc' = crc, restored' = restored, psram' = psram
  PROVE  FlashOK'
  <1>1. \A type \in Payloads : /\ (Found(type)' <=> Found(type)) /\ (Readable(type)' <=> Readable(type))
                               /\ Partition(type)' = Partition(type)
    BY SameTable
  <1>2. \A type \in Payloads : Sums(type)' <=> Sums(type)
    BY <1>1 DEF Sums, Contents, Payload, Pattern, Junk, Misread, Units
  <1> QED
    BY <1>1, <1>2 DEF FlashOK, Loading, Summed, Early

\* Nor does anything change while main() is where it was.
LEMMA FlashSame ==
  ASSUME FlashOK, pc' = pc, table' = table, crc' = crc, restored' = restored, psram' = psram,
         mspi' = mspi
  PROVE  FlashOK'
  <1>1. \A type \in Payloads : /\ (Found(type)' <=> Found(type)) /\ (Readable(type)' <=> Readable(type))
                               /\ Partition(type)' = Partition(type)
    BY SameTable
  <1>2. \A type \in Payloads : Sums(type)' <=> Sums(type)
    BY <1>1 DEF Sums, Contents, Payload, Pattern, Junk, Misread, Units
  <1> QED
    BY <1>1, <1>2 DEF FlashOK

\* The PSRAM test: the pattern is written through the cache, and read back.
LEMMA TestIInv ==
  ASSUME IInv, TestWrite \/ TestRead
  PROVE  IInv'
  <1>1. /\ table' = table /\ crc' = crc /\ restored' = restored /\ mspi' = mspi /\ cpu' = cpu /\ psram' = psram
        /\ wedged' = wedged /\ mem' = mem /\ job' = job
    BY DEF TestWrite, TestRead
  <1>2. TypeOK /\ FlashOK /\ LoopOK /\ HealthyOK
    BY DEF IInv
  <1>3. pc \in {"fill", "test"} /\ pc' \in {"fill", "test", "alias", "halted"}
    BY DEF TestWrite, TestRead, Halt
  <1>4. k \in Units /\ k \in Nat /\ k < PsramSize
    BY <1>2, <1>3, BootAssumption DEF TypeOK, LoopOK, Units
  <1>5. Pattern(k) \in Contents
    BY <1>4 DEF Contents
  <1>6. ASSUME TestWrite
        PROVE  /\ cache' = [cache EXCEPT ![k] = Pattern(k)]
               /\ line' = [line EXCEPT ![k] = "dirty"]
               /\ pc = "fill"
    BY <1>6 DEF TestWrite, Store
  <1>7. ASSUME TestRead
        PROVE  \E v \in Loads(k) :
                 /\ v \in Contents
                 /\ cache' = [u \in Units |-> IF u = k THEN v ELSE cache[u]]
                 /\ line' = [u \in Units |-> IF u = k /\ line[u] = "absent" THEN "clean" ELSE line[u]]
                 /\ pc = "test"
                 /\ (pc' = "halted" /\ v # Pattern(k)) \/ (pc' = "test" /\ k' = k + 1 /\ k + 1 < PsramSize)
                    \/ (pc' = "alias" /\ k' = 0)
                 /\ pc' = "halted" => k' = k
    <2>1. PICK v \in Loads(k) :
            /\ Loaded([u \in {k} |-> v])
            /\ IF v # Pattern(k) THEN Halt /\ UNCHANGED k
               ELSE IF k + 1 < PsramSize THEN k' = k + 1 /\ UNCHANGED pc
               ELSE k' = 0 /\ pc' = "alias"
      BY <1>7 DEF TestRead
    <2>2. v \in Contents
      BY <1>2, <1>4 DEF Loads, TypeOK, Contents
    <2>3. pc = "test"
      BY <1>7 DEF TestRead
    <2> QED
      BY <2>1, <2>2, <2>3 DEF Loaded, Halt
  <1>8. k' \in 0 .. PsramSize /\ (pc' \in {"fill", "test"} => k' < PsramSize) /\ (pc' = "alias" => k' = 0)
    <2>1. CASE TestWrite
      BY <1>4, <1>6, <2>1, BootAssumption DEF TestWrite
    <2>2. CASE TestRead
      BY <1>4, <1>7, <2>2, BootAssumption
    <2> QED
      BY <2>1, <2>2
  <1>9. TypeOK'
    <2>1. /\ cache' \in [Units -> Contents]
          /\ line' \in [Units -> {"absent", "clean", "dirty"}]
      <3>1. CASE TestWrite
        BY <1>2, <1>5, <1>6, <3>1 DEF TypeOK
      <3>2. CASE TestRead
        BY <1>2, <1>7, <3>2 DEF TypeOK
      <3> QED
        BY <3>1, <3>2
    <2> QED
      BY <1>1, <1>2, <1>3, <1>8, <2>1 DEF TypeOK
  <1>10. FlashOK'
    BY <1>1, <1>2, <1>3, FlashFrame DEF Loading, Summed
  <1>11. LoopOK' /\ CopiedOK'
    BY <1>3, <1>8 DEF LoopOK, CopiedOK
  <1>12. HealthyOK'
    <2> SUFFICES ASSUME Healthy'
                 PROVE  /\ \A u \in Units : line'[u] = "clean" => cache'[u] = mem'[u]
                        /\ pc' = "fill" => \A u \in Units : u < k' => Visible(u)' = Pattern(u)
                        /\ pc' = "test" => \A u \in Units : Visible(u)' = Pattern(u)
      BY <1>3 DEF HealthyOK, Pattern
    <2>1. Healthy /\ psram = "good" /\ \A u \in Units : line[u] = "clean" => cache[u] = mem[u]
      BY <1>1, <1>2, SameSums DEF Healthy, HealthyOK
    <2>2. CASE TestWrite
      <3>1. \A u \in Units : u # k => line'[u] = line[u] /\ cache'[u] = cache[u] /\ Visible(u)' = Visible(u)
        BY <1>1, <1>2, <1>6, <2>2 DEF Visible, TypeOK
      <3>2. \A u \in Units : u = k => line'[u] = "dirty" /\ Visible(u)' = Pattern(u)
        BY <1>2, <1>4, <1>6, <2>2 DEF Visible, TypeOK
      <3>3. \A u \in Units : u < k => Visible(u) = Pattern(u)
        BY <1>2, <1>6, <2>1, <2>2 DEF HealthyOK
      <3>4. \A u \in Units : u < k + 1 => Visible(u)' = Pattern(u)
        BY <1>4, <3>1, <3>2, <3>3 DEF Units
      <3>5. \A u \in Units : line'[u] = "clean" => cache'[u] = mem'[u]
        BY <1>1, <2>1, <3>1, <3>2
      <3>6. (k + 1 < PsramSize /\ k' = k + 1 /\ pc' = "fill") \/ (~(k + 1 < PsramSize) /\ pc' = "test")
        BY <1>6, <2>2 DEF TestWrite
      <3>7. ~(k + 1 < PsramSize) => \A u \in Units : u < k + 1
        BY <1>4, BootAssumption DEF Units
      <3> QED
        BY <3>4, <3>5, <3>6, <3>7
    <2>3. CASE TestRead
      <3>1. PICK v \in Loads(k) :
                 /\ cache' = [u \in Units |-> IF u = k THEN v ELSE cache[u]]
                 /\ line' = [u \in Units |-> IF u = k /\ line[u] = "absent" THEN "clean" ELSE line[u]]
                 /\ pc = "test" /\ pc' # "fill"
        BY <1>7, <2>3
      <3>2. v = Visible(k)
        BY <2>1, <3>1 DEF Loads, Visible
      <3>3. \A u \in Units : Visible(u)' = Visible(u)
        BY <1>1, <1>2, <3>1, <3>2 DEF Visible, TypeOK
      <3>4. \A u \in Units : line'[u] = "clean" => cache'[u] = mem'[u]
        BY <1>1, <1>2, <2>1, <3>1, <3>2 DEF Visible, TypeOK
      <3>5. \A u \in Units : Visible(u) = Pattern(u)
        BY <1>2, <2>1, <3>1 DEF HealthyOK
      <3> QED
        BY <3>1, <3>3, <3>4, <3>5
    <2> QED
      BY <2>2, <2>3
  <1>13. HaltJustified'
    <2> SUFFICES ASSUME pc' = "halted", Healthy PROVE FALSE
      BY <1>1, <1>2, <1>3, SameSums DEF HaltJustified, Healthy, FlashOK, Loading
    <2>1. TestRead
      BY <1>3 DEF TestWrite
    <2>2. PICK v \in Loads(k) : pc = "test" /\ v # Pattern(k)
      BY <1>7, <2>1
    <2>3. v = Visible(k)
      BY <2>2 DEF Loads, Visible, Healthy
    <2> QED
      BY <1>2, <1>4, <2>2, <2>3 DEF HealthyOK
  <1> QED
    BY <1>9, <1>10, <1>11, <1>12, <1>13 DEF IInv

\* The alias test leaves a dirty line where the kernel will go.
LEMMA AliasIInv ==
  ASSUME IInv, AliasTest
  PROVE  IInv'
  <1>1. /\ table' = table /\ crc' = crc /\ restored' = restored /\ mspi' = mspi /\ cpu' = cpu /\ psram' = psram
        /\ wedged' = wedged /\ k' = k /\ job' = "kernel"
        /\ pc = "alias" /\ pc' = "copy"
        /\ cache' = [cache EXCEPT ![0] = Junk] /\ line' = [line EXCEPT ![0] = "dirty"]
        /\ mem' = IF wedged THEN mem ELSE [mem EXCEPT ![0] = Junk]
    BY DEF AliasTest, Store
  <1>2. TypeOK /\ FlashOK /\ LoopOK /\ HealthyOK
    BY DEF IInv
  <1>3. k = 0
    BY <1>1, <1>2 DEF LoopOK
  <1>4. TypeOK'
    <2>1. Junk \in Contents /\ "kernel" \in Payloads
      BY DEF Contents, Payloads
    <2>2. mem' \in [Units -> Contents]
      BY <1>1, <1>2, <2>1 DEF TypeOK
    <2> QED
      BY <1>1, <1>2, <2>1, <2>2 DEF TypeOK
  <1>5. FlashOK'
    BY <1>1, <1>2, FlashFrame DEF Loading, Summed
  <1>6. table \in Tables /\ Found("kernel") /\ Readable("kernel")
    BY <1>1, <1>2, Both DEF Summed, Loading, Payloads
  <1>7. LoopOK'
    <2>1. Partition("kernel")' = Partition("kernel") /\ Partition("kernel").size \in Nat
      BY <1>1, <1>6, SameTable, Placed DEF Payloads
    <2> QED
      BY <1>1, <1>3, <2>1 DEF LoopOK
  <1>8. CopiedOK'
    BY <1>1 DEF CopiedOK
  <1>9. HealthyOK'
    <2> SUFFICES ASSUME Healthy'
                 PROVE  /\ \A u \in Units : line'[u] = "clean" => cache'[u] = mem'[u]
                        /\ \A u \in Span("kernel")' : ~(u - Place("kernel") < k')
      BY <1>1 DEF HealthyOK, Place
    <2>1. \A u \in Units : line[u] = "clean" => cache[u] = mem[u]
      BY <1>1, <1>2, SameSums DEF Healthy, HealthyOK
    <2>2. \A u \in Units : line'[u] = "clean" => cache'[u] = mem'[u]
      BY <1>1, <1>2, <2>1 DEF TypeOK
    <2>3. Span("kernel")' = Span("kernel") /\ Span("kernel") \subseteq Units /\ Place("kernel") = 0
      BY <1>1, <1>6, SameTable, Placed DEF Payloads, Place
    <2> QED
      BY <1>1, <1>3, <2>2, <2>3 DEF Units
  <1>10. HaltJustified'
    BY <1>1 DEF HaltJustified
  <1> QED
    BY <1>4, <1>5, <1>7, <1>8, <1>9, <1>10 DEF IInv

\* A read of flash that fails ends the copy, and is flash's doing.
LEMMA CopyStallsIInv ==
  ASSUME IInv, Copy, pc' = "halted"
  PROVE  IInv'
  <1>1. /\ table' = table /\ crc' = crc /\ restored' = restored /\ mspi' = mspi /\ cpu' = cpu
        /\ psram' = psram /\ wedged' = wedged /\ mem' = mem /\ job' = job
        /\ cache' = cache /\ line' = line /\ k' = k /\ mspi = "off" /\ pc = "copy"
    BY DEF Copy, FlashStalls, Halt
  <1>2. TypeOK /\ FlashOK
    BY DEF IInv
  <1>3. TypeOK'
    BY <1>1, <1>2 DEF TypeOK
  <1>4. FlashOK'
    BY <1>1, <1>2, FlashFrame DEF Loading
  <1>5. LoopOK' /\ CopiedOK' /\ HealthyOK' /\ HaltJustified'
    BY <1>1 DEF LoopOK, CopiedOK, HealthyOK, Healthy, HaltJustified
  <1> QED
    BY <1>3, <1>4, <1>5 DEF IInv

\* One unit of the copy: no unit of another payload's place.
LEMMA CopyIInv ==
  ASSUME IInv, Copy, pc' # "halted"
  PROVE  IInv'
  <1>1. /\ table' = table /\ crc' = crc /\ restored' = restored /\ mspi' = mspi /\ cpu' = cpu /\ psram' = psram
        /\ wedged' = wedged /\ mem' = mem /\ job' = job /\ k' = k + 1
        /\ pc = "copy" /\ pc' = "copy" /\ k < Partition(job).size
    BY DEF Copy, FlashStalls, Halt
  <1>2. TypeOK /\ FlashOK /\ LoopOK /\ CopiedOK /\ HealthyOK
    BY DEF IInv
  <1>3. pc \in Summed /\ job \in Payloads /\ k \in Nat /\ table \in Tables
    BY <1>1, <1>2, BootAssumption DEF Summed, Loading, TypeOK
  <1>4. \A type \in Payloads : Found(type) /\ Readable(type)
    BY <1>2, <1>3 DEF FlashOK
  <1>5. /\ Partition(job).off \in Nat /\ Partition(job).size \in Nat /\ Place(job) \in Nat
        /\ Place(job) + Partition(job).size <= PsramSize
        /\ Partition(job).off + Partition(job).size <= FlashSize
        /\ Span(job) = Place(job) .. Place(job) + Partition(job).size - 1
        /\ Span(job) \subseteq Units
    BY <1>3, <1>4, Placed
  <1>6. PICK u0 \in Span(job) : u0 = Place(job) + k /\ u0 - Place(job) = k
    BY <1>1, <1>3, <1>5
  <1>7. PICK got \in FlashReads(Partition(job).off + k, 1) :
          cache' = [cache EXCEPT ![u0] = got[0]] /\ line' = [line EXCEPT ![u0] = "dirty"]
    BY <1>1, <1>6 DEF Copy, Store, FlashStalls, Halt
  <1>8. /\ got[0] \in Contents
        /\ mspi # "off" /\ ~Missummed => got[0] = Wanted(job, u0)
    <2>1. k \in 0 .. Partition(job).size - 1
      BY <1>1, <1>3, <1>5
    <2>2. /\ got[0] \in {Payload(Partition(job).off + k), Misread}
          /\ mspi # "off" => got[0] = Payload(Partition(job).off + k)
      <3>1. /\ got[0] = Payload(Partition(job).off + k + 0) \/ got[0] = Misread
            /\ mspi # "off" => got[0] = Payload(Partition(job).off + k + 0)
        <4>1. 0 \in 0 .. 1 - 1
          OBVIOUS
        <4> QED
          BY <1>7, <4>1 DEF FlashReads
      <3>2. Partition(job).off + k + 0 = Partition(job).off + k
        BY <1>3, <1>5
      <3> QED
        BY <3>1, <3>2
    <2>3. Payload(Partition(job).off + k) \in Contents /\ Misread \in Contents
      BY <1>3, <1>4, <2>1, Placed DEF Contents
    <2>4. ~Missummed => Wanted(job, u0) = Payload(Partition(job).off + k)
      BY <1>2, <1>3, <1>6, <2>1, Both DEF Wanted
    <2> QED
      BY <2>2, <2>3, <2>4
  <1>9. TypeOK'
    <2>1. k' \in 0 .. PsramSize
      BY <1>1, <1>3, <1>5, BootAssumption
    <2>2. cache' \in [Units -> Contents] /\ line' \in [Units -> {"absent", "clean", "dirty"}]
      BY <1>2, <1>5, <1>7, <1>8 DEF TypeOK
    <2> QED
      BY <1>1, <1>2, <2>1, <2>2 DEF TypeOK
  <1>10. FlashOK'
    BY <1>1, <1>2, <1>3, FlashFrame DEF Loading
  <1>11. \A type \in Payloads : Partition(type)' = Partition(type) /\ Span(type)' = Span(type)
                                /\ \A u : Wanted(type, u)' = Wanted(type, u)
    BY <1>1, SameTable
  <1>12. LoopOK'
    <2>1. k + 1 <= Partition(job).size
      BY <1>1, <1>3, <1>5
    <2>2. Partition(job)' = Partition(job)
      <3>1. \A type \in Payloads : type = job => Partition(type)' = Partition(job)
        BY <1>11
      <3> QED
        BY <1>1, <1>3, <3>1
    <2> QED
      BY <1>1, <2>1, <2>2 DEF LoopOK
  <1>13. \A u \in Units : u # u0 => line'[u] = line[u] /\ cache'[u] = cache[u] /\ Visible(u)' = Visible(u)
    BY <1>1, <1>2, <1>7 DEF Visible, TypeOK
  <1>14. line'[u0] = "dirty" /\ cache'[u0] = got[0]
    BY <1>2, <1>5, <1>7 DEF TypeOK
  <1>15. CopiedOK'
    <2>1. ASSUME job = "dtb" PROVE Copied("kernel")'
      <3>1. "kernel" \in Payloads /\ u0 \notin Span("kernel") /\ Span("kernel") \subseteq Units
        BY <1>3, <1>4, <2>1, Apart, Placed DEF Payloads
      <3>2. Copied("kernel")
        BY <1>1, <1>2, <2>1 DEF CopiedOK
      <3> QED
        BY <1>1, <1>11, <1>13, <3>1, <3>2 DEF Copied
    <2> QED
      BY <1>1, <2>1 DEF CopiedOK
  <1>16. HealthyOK'
    <2> SUFFICES ASSUME Healthy'
                 PROVE  /\ \A u \in Units : line'[u] = "clean" => cache'[u] = mem'[u]
                        /\ \A u \in Span(job) : u - Place(job) < k' =>
                             Visible(u)' = Wanted(job, u)
      BY <1>1, <1>3, <1>11 DEF HealthyOK, Place
    <2>1. /\ Healthy /\ \A u \in Units : line[u] = "clean" => cache[u] = mem[u]
          /\ \A u \in Span(job) : u - Place(job) < k => Visible(u) = Wanted(job, u)
      BY <1>1, <1>2, SameSums DEF Healthy, HealthyOK
    <2>2. \A u \in Units : line'[u] = "clean" => cache'[u] = mem'[u]
      BY <1>1, <1>13, <1>14, <2>1
    <2>3. ASSUME NEW u \in Span(job), u - Place(job) < k'
          PROVE  Visible(u)' = Wanted(job, u)
      <3>1. CASE u = u0
        BY <1>8, <1>14, <2>1, <3>1 DEF Visible, Healthy
      <3>2. CASE u # u0
        <4>1. u - Place(job) < k
          BY <1>1, <1>3, <1>5, <1>6, <2>3, <3>2
        <4> QED
          BY <1>5, <1>13, <2>1, <3>2, <4>1
      <3> QED
        BY <3>1, <3>2
    <2> QED
      BY <2>2, <2>3
  <1>17. HaltJustified'
    BY <1>1 DEF HaltJustified
  <1> QED
    BY <1>9, <1>10, <1>12, <1>15, <1>16, <1>17 DEF IInv

\* After the write-back no line over the copy is dirty, and PSRAM has what the
\* core could read.
LEMMA CopyWritebackIInv ==
  ASSUME IInv, CopyWriteback
  PROVE  IInv'
  <1>1. /\ table' = table /\ crc' = crc /\ restored' = restored /\ mspi' = mspi /\ cpu' = cpu /\ psram' = psram
        /\ cache' = cache /\ job' = job /\ k' = 0
        /\ pc = "copy" /\ pc' = "invalidate" /\ k = Partition(job).size
        /\ WriteBack(Span(job))
        /\ line' = [u \in Units |-> IF u \in DirtyIn(Span(job)) THEN "clean" ELSE line[u]]
    BY DEF CopyWriteback
  <1>2. TypeOK /\ FlashOK /\ LoopOK /\ CopiedOK /\ HealthyOK
    BY DEF IInv
  <1>3. pc \in Summed /\ job \in Payloads /\ table \in Tables
    BY <1>1, <1>2 DEF Summed, Loading, TypeOK
  <1>4. \A type \in Payloads : Found(type) /\ Readable(type) /\ Span(type) \subseteq Units
    BY <1>2, <1>3, Both
  <1>5. /\ mem' \in [Units -> Contents] /\ wedged' \in BOOLEAN
        /\ wedged => wedged'
        /\ \A u \in Units : u \notin Span(job) \/ line[u] # "dirty" => mem'[u] = mem[u]
        /\ psram = "good" /\ ~wedged' =>
             \A u \in Span(job) : line[u] = "dirty" => mem'[u] = cache[u]
    BY <1>1, <1>2, <1>3, <1>4, WriteBackFacts
  <1>6. \A u \in Units : line'[u] = IF u \in Span(job) /\ line[u] = "dirty" THEN "clean" ELSE line[u]
    BY <1>1 DEF DirtyIn
  <1>7. TypeOK'
    BY <1>1, <1>2, <1>5, BootAssumption DEF TypeOK
  <1>8. FlashOK'
    BY <1>1, <1>2, <1>3, FlashFrame DEF Loading
  <1>9. LoopOK'
    BY <1>1 DEF LoopOK
  <1>10. \A type \in Payloads : Span(type)' = Span(type)
                                /\ \A u : Wanted(type, u)' = Wanted(type, u)
    BY <1>1, SameTable
  <1>11. CopiedOK'
    <2>1. ASSUME job = "dtb" PROVE Copied("kernel")'
      <3>1. "kernel" \in Payloads /\ Span(job) \cap Span("kernel") = {}
        BY <1>3, <1>4, <2>1, Apart DEF Payloads
      <3>2. Copied("kernel")
        BY <1>1, <1>2, <2>1 DEF CopiedOK
      <3> QED
        BY <1>4, <1>5, <1>6, <1>10, <3>1, <3>2 DEF Copied
    <2> QED
      BY <1>1, <2>1 DEF CopiedOK
  <1>12. HealthyOK'
    <2> SUFFICES ASSUME Healthy'
                 PROVE  /\ \A u \in Units : line'[u] = "clean" => cache'[u] = mem'[u]
                        /\ \A u \in Span(job) : line'[u] # "dirty" /\ mem'[u] = Wanted(job, u)
      BY <1>1, <1>3, <1>10 DEF HealthyOK, Copied
    <2>1. /\ Healthy /\ \A u \in Units : line[u] = "clean" => cache[u] = mem[u]
          /\ \A u \in Span(job) : u - Place(job) < k => Visible(u) = Wanted(job, u)
          /\ psram = "good" /\ ~wedged'
      BY <1>1, <1>2, <1>5, SameSums DEF Healthy, HealthyOK
    <2>2. \A u \in Units : line'[u] = "clean" => cache'[u] = mem'[u]
      BY <1>1, <1>5, <1>6, <2>1
    <2>3. ASSUME NEW u \in Span(job)
          PROVE  line'[u] # "dirty" /\ mem'[u] = Wanted(job, u)
      <3>1. u \in Units /\ line'[u] # "dirty"
        BY <1>4, <1>3, <1>6
      <3>2. u - Place(job) < k
        <4>1. /\ Partition(job).size \in Nat /\ Place(job) \in Nat
              /\ Span(job) = Place(job) .. Place(job) + Partition(job).size - 1
          BY <1>3, <1>4, Placed
        <4> QED
          BY <1>1, <4>1
      <3>3. mem'[u] = Visible(u)
        BY <1>2, <1>5, <2>1, <3>1 DEF Visible, TypeOK
      <3> QED
        BY <2>1, <3>1, <3>2, <3>3
    <2> QED
      BY <2>2, <2>3
  <1>13. HaltJustified'
    BY <1>1 DEF HaltJustified
  <1> QED
    BY <1>7, <1>8, <1>9, <1>11, <1>12, <1>13 DEF IInv

\* Then the copy is out of the cache, so what is verified is PSRAM.
LEMMA CopyInvalidateIInv ==
  ASSUME IInv, CopyInvalidate
  PROVE  IInv'
  <1>1. /\ table' = table /\ crc' = crc /\ restored' = restored /\ mspi' = mspi /\ cpu' = cpu /\ psram' = psram
        /\ wedged' = wedged /\ mem' = mem /\ job' = job /\ k' = k
        /\ pc = "invalidate" /\ pc' = "verify"
        /\ line' = [u \in Units |-> IF u \in Span(job) THEN "absent" ELSE line[u]]
        /\ cache' = [u \in Units |-> IF u \in Span(job) THEN Junk ELSE cache[u]]
    BY DEF CopyInvalidate
  <1>2. TypeOK /\ FlashOK /\ LoopOK /\ CopiedOK /\ HealthyOK
    BY DEF IInv
  <1>3. pc \in Summed /\ job \in Payloads
    BY <1>1, <1>2 DEF Summed, Loading, TypeOK
  <1>4. \A type \in Payloads : Span(type) \subseteq Units
    BY <1>2, <1>3, Both
  <1>5. \A u \in Units : line'[u] = IF u \in Span(job) THEN "absent" ELSE line[u]
    BY <1>1
  <1>6. TypeOK'
    <2>1. Junk \in Contents
      BY DEF Contents
    <2> QED
      BY <1>1, <1>2, <2>1 DEF TypeOK
  <1>7. FlashOK'
    BY <1>1, <1>2, <1>3, FlashFrame DEF Loading
  <1>8. LoopOK'
    BY <1>1, <1>2 DEF LoopOK
  <1>9. \A type \in Payloads : Span(type)' = Span(type)
                               /\ \A u : Wanted(type, u)' = Wanted(type, u)
    BY <1>1, SameTable
  <1>10. CopiedOK'
    <2>1. ASSUME job = "dtb" PROVE Copied("kernel")'
      <3>1. "kernel" \in Payloads /\ Copied("kernel")
        BY <1>1, <1>2, <2>1 DEF CopiedOK, Payloads
      <3> QED
        BY <1>1, <1>4, <1>5, <1>9, <3>1 DEF Copied
    <2>2. \A u \in Span(job) : line'[u] = "absent"
      BY <1>3, <1>4, <1>5
    <2> QED
      BY <1>1, <1>3, <1>9, <2>1, <2>2 DEF CopiedOK
  <1>11. HealthyOK'
    <2> SUFFICES ASSUME Healthy'
                 PROVE  /\ \A u \in Units : line'[u] = "clean" => cache'[u] = mem'[u]
                        /\ \A u \in Span(job) : line'[u] # "dirty" /\ mem'[u] = Wanted(job, u)
      BY <1>1, <1>3, <1>9 DEF HealthyOK, Copied
    <2>1. (\A u \in Units : line[u] = "clean" => cache[u] = mem[u]) /\ Copied(job)
      BY <1>1, <1>2, SameSums DEF Healthy, HealthyOK
    <2>2. \A u \in Units : line'[u] = "clean" => cache'[u] = mem'[u]
      BY <1>1, <1>5, <2>1
    <2>3. \A u \in Span(job) : line'[u] # "dirty" /\ mem'[u] = Wanted(job, u)
      BY <1>1, <1>3, <1>4, <1>5, <2>1 DEF Copied
    <2> QED
      BY <2>2, <2>3
  <1>12. HaltJustified'
    BY <1>1 DEF HaltJustified
  <1> QED
    BY <1>6, <1>7, <1>8, <1>10, <1>11, <1>12 DEF IInv

\* The checksum passes only when PSRAM has every unit of the payload, and
\* always when nothing is wrong.
LEMMA VerifyIInv ==
  ASSUME IInv, Verify
  PROVE  IInv'
  <1>1. /\ table' = table /\ crc' = crc /\ restored' = restored /\ mspi' = mspi /\ cpu' = cpu /\ psram' = psram
        /\ wedged' = wedged /\ mem' = mem /\ k' = k /\ pc = "verify"
    BY DEF Verify
  <1>2. TypeOK /\ FlashOK /\ LoopOK /\ CopiedOK /\ HealthyOK
    BY DEF IInv
  <1>3. pc \in Summed /\ job \in Payloads /\ table \in Tables /\ k = 0
    BY <1>1, <1>2 DEF Summed, Loading, TypeOK, LoopOK
  <1>4. \A type \in Payloads :
          /\ Found(type) /\ Readable(type) /\ Span(type) \subseteq Units
          /\ \A u \in Span(type) : /\ Wanted(type, u) # Junk
                                   /\ crc[type][u - Place(type)] = Wanted(type, u)
    <2>1. \A type \in Payloads :
            /\ Found(type) /\ Readable(type) /\ Span(type) \subseteq Units
            /\ \A u \in Span(type) : Wanted(type, u) # Junk
      BY <1>2, <1>3, Both
    <2> QED
      BY <2>1 DEF Wanted
  <1>5. PICK got \in [Span(job) -> Contents] :
          /\ \A u \in Span(job) : got[u] \in Loads(u)
          /\ Loaded(got)
          /\ IF \E u \in Span(job) : got[u] # crc[job][u - Place(job)] THEN Halt /\ UNCHANGED job
             ELSE IF job = "kernel" THEN job' = "dtb" /\ pc' = "copy"
             ELSE pc' = "handover" /\ UNCHANGED job
    BY DEF Verify
  <1>6. \A u \in Span(job) : line[u] = "absent" /\ got[u] \in {mem[u], Junk}
                             /\ (psram = "good" => got[u] = mem[u])
    BY <1>1, <1>2, <1>5 DEF CopiedOK, Loads
  <1>7. /\ cache' = [u \in Units |-> IF u \in Span(job) THEN got[u] ELSE cache[u]]
        /\ line' = [u \in Units |-> IF u \in Span(job) /\ line[u] = "absent" THEN "clean" ELSE line[u]]
    BY <1>5 DEF Loaded
  <1>8. \A u \in Units : /\ line'[u] = IF u \in Span(job) THEN "clean" ELSE line[u]
                         /\ cache'[u] = IF u \in Span(job) THEN got[u] ELSE cache[u]
    BY <1>6, <1>7
  <1>9. ASSUME pc' # "halted", NEW u \in Span(job)
        PROVE  mem[u] = Wanted(job, u)
    <2>1. got[u] = crc[job][u - Place(job)]
      BY <1>5, <1>9 DEF Halt
    <2> QED
      BY <1>3, <1>4, <1>6, <2>1
  <1>10. \/ pc' = "halted" /\ job' = job
         \/ pc' = "copy" /\ job = "kernel" /\ job' = "dtb"
         \/ pc' = "handover" /\ job' = job /\ job = "dtb"
    BY <1>3, <1>5 DEF Halt, Payloads
  <1>11. \A type \in Payloads : /\ Partition(type)' = Partition(type) /\ Span(type)' = Span(type)
                                /\ \A u : Wanted(type, u)' = Wanted(type, u)
    BY <1>1, SameTable
  <1>12. TypeOK'
    <2>1. pc' \in {"copy", "handover", "halted"} /\ job' \in Payloads
      BY <1>3, <1>10 DEF Payloads
    <2>2. cache' \in [Units -> Contents] /\ line' \in [Units -> {"absent", "clean", "dirty"}]
      BY <1>2, <1>7 DEF TypeOK
    <2> QED
      BY <1>1, <1>2, <2>1, <2>2 DEF TypeOK
  <1>13. FlashOK'
    BY <1>1, <1>2, <1>3, <1>10, FlashFrame DEF Loading
  <1>14. LoopOK'
    <2>1. pc' = "copy" => job' = "dtb" /\ 0 <= Partition("dtb")'.size
      BY <1>3, <1>4, <1>10, <1>11, Placed DEF Payloads
    <2> QED
      BY <1>1, <1>3, <1>10, <2>1 DEF LoopOK
  <1>15. pc' # "halted" => Copied(job)
    BY <1>6, <1>9 DEF Copied
  <1>16. ASSUME NEW type \in Payloads, Copied(type)
         PROVE  Copied(type)'
    BY <1>1, <1>4, <1>8, <1>11, <1>16 DEF Copied
  <1>17. CopiedOK'
    <2>1. CASE pc' = "halted"
      BY <2>1 DEF CopiedOK
    <2>2. CASE pc' = "copy"
      BY <1>3, <1>10, <1>15, <1>16, <2>2 DEF CopiedOK
    <2>3. CASE pc' = "handover"
      <3>1. Copied("kernel") /\ Copied("dtb")
        BY <1>1, <1>2, <1>10, <1>15, <2>3 DEF CopiedOK
      <3>2. \A type \in Payloads : Copied(type)'
        BY <1>16, <3>1 DEF Payloads
      <3> QED
        BY <2>3, <3>2 DEF CopiedOK
    <2> QED
      BY <1>10, <2>1, <2>2, <2>3
  <1>18. HealthyOK'
    <2> SUFFICES ASSUME Healthy'
                 PROVE  /\ \A u \in Units : line'[u] = "clean" => cache'[u] = mem'[u]
                        /\ pc' = "copy" => \A u \in Span("dtb") : ~(u - Place("dtb") < k')
      BY <1>1, <1>10, <1>11 DEF HealthyOK, Payloads, Place
    <2>1. psram = "good" /\ \A u \in Units : line[u] = "clean" => cache[u] = mem[u]
      BY <1>1, <1>2, SameSums DEF Healthy, HealthyOK
    <2>2. \A u \in Units : line'[u] = "clean" => cache'[u] = mem'[u]
      BY <1>1, <1>6, <1>8, <2>1
    <2>3. \A u \in Span("dtb") : ~(u - Place("dtb") < 0)
      <3>1. /\ Span("dtb") = Place("dtb") .. Place("dtb") + Partition("dtb").size - 1
            /\ Place("dtb") \in Nat /\ Partition("dtb").size \in Nat
        BY <1>3, <1>4, Placed DEF Payloads
      <3> QED
        BY <3>1
    <2> QED
      BY <1>1, <1>3, <2>2, <2>3
  <1>19. HaltJustified'
    <2> SUFFICES ASSUME pc' = "halted", Healthy PROVE FALSE
      BY <1>1, <1>2, <1>3, SameSums DEF HaltJustified, Healthy, FlashOK, Loading
    <2>1. PICK u \in Span(job) : got[u] # crc[job][u - Place(job)]
      BY <1>5 DEF Halt
    <2>2. Copied(job) /\ psram = "good"
      BY <1>1, <1>2 DEF HealthyOK, Healthy
    <2> QED
      BY <1>3, <1>4, <1>6, <2>1, <2>2 DEF Copied
  <1> QED
    BY <1>12, <1>13, <1>14, <1>17, <1>18, <1>19 DEF IInv

\* Whatever the last write-back covers, it leaves the payloads alone.
LEMMA HandOverIInv ==
  ASSUME IInv, HandOver
  PROVE  IInv'
  <1>1. /\ table' = table /\ crc' = crc /\ restored' = restored /\ mspi' = mspi /\ cpu' = cpu /\ psram' = psram
        /\ cache' = cache /\ k' = k /\ job' = job
        /\ pc = "handover" /\ pc' = "linux"
    BY DEF HandOver
  <1>2. TypeOK /\ FlashOK /\ CopiedOK /\ HealthyOK
    BY DEF IInv
  <1>3. pc \in Summed
    BY <1>1 DEF Summed, Loading
  <1>4. \A type \in Payloads : Span(type) \subseteq Units /\ Copied(type)
    BY <1>1, <1>2, <1>3, Both DEF CopiedOK
  <1> PICK S \in SUBSET Units :
         /\ WriteBack(S)
         /\ line' = [u \in Units |-> IF u \in DirtyIn(S) THEN "clean" ELSE line[u]]
    BY DEF HandOver
  <1>5. \A u \in Units : line'[u] = IF u \in S /\ line[u] = "dirty" THEN "clean" ELSE line[u]
    BY DEF DirtyIn
  <1>6. /\ mem' \in [Units -> Contents] /\ wedged' \in BOOLEAN
        /\ wedged => wedged'
        /\ \A u \in Units : u \notin S \/ line[u] # "dirty" => mem'[u] = mem[u]
        /\ psram = "good" /\ ~wedged' =>
             \A u \in S : line[u] = "dirty" => mem'[u] = cache[u]
    BY <1>1, <1>2, WriteBackFacts
  <1>7. TypeOK'
    BY <1>1, <1>2, <1>6 DEF TypeOK
  <1>8. FlashOK'
    BY <1>1, <1>2, <1>3, FlashFrame DEF Loading
  <1>9. LoopOK' /\ HaltJustified'
    BY <1>1 DEF LoopOK, HaltJustified
  <1>10. CopiedOK'
    <2>1. \A type \in Payloads : Span(type)' = Span(type)
                                 /\ \A u : Wanted(type, u)' = Wanted(type, u)
      BY <1>1, SameTable
    <2>2. \A type \in Payloads : Copied(type)'
      BY <1>1, <1>4, <1>5, <1>6, <2>1 DEF Copied
    <2> QED
      BY <1>1, <2>2 DEF CopiedOK
  <1>11. HealthyOK'
    <2> SUFFICES ASSUME Healthy'
                 PROVE  \A u \in Units : line'[u] = "clean" => cache'[u] = mem'[u]
      BY <1>1 DEF HealthyOK
    <2>1. psram = "good" /\ ~wedged' /\ \A u \in Units : line[u] = "clean" => cache[u] = mem[u]
      BY <1>1, <1>2, <1>6, SameSums DEF Healthy, HealthyOK
    <2> QED
      BY <1>1, <1>2, <1>5, <1>6, <2>1 DEF TypeOK
  <1> QED
    BY <1>7, <1>8, <1>9, <1>10, <1>11 DEF IInv

----------------------------------------------------------------------------
(* The steps that may come at any time.                                    *)

\* An eviction shows what it wrote back, and writes nothing that is verified.
LEMMA EvictIInv ==
  ASSUME IInv, NEW e \in Units, Evict(e)
  PROVE  IInv'
  <1>1. /\ table' = table /\ crc' = crc /\ restored' = restored /\ mspi' = mspi /\ cpu' = cpu /\ psram' = psram
        /\ k' = k /\ job' = job /\ pc' = pc /\ WriteBack({e})
        /\ line' = [line EXCEPT ![e] = "absent"] /\ cache' = [cache EXCEPT ![e] = Junk]
        /\ line[e] # "absent"
    BY DEF Evict
  <1>2. TypeOK /\ FlashOK /\ LoopOK /\ CopiedOK /\ HealthyOK /\ HaltJustified
    BY DEF IInv
  <1>3. /\ mem' \in [Units -> Contents] /\ wedged' \in BOOLEAN
        /\ wedged => wedged'
        /\ \A u \in Units : u # e \/ line[u] # "dirty" => mem'[u] = mem[u]
        /\ psram = "good" /\ ~wedged' => (line[e] = "dirty" => mem'[e] = cache[e])
    BY <1>1, <1>2, WriteBackFacts
  <1>4. \A u \in Units : /\ line'[u] = IF u = e THEN "absent" ELSE line[u]
                         /\ u # e => cache'[u] = cache[u]
    BY <1>1, <1>2 DEF TypeOK
  <1>5. TypeOK'
    <2>1. Junk \in Contents
      BY DEF Contents
    <2> QED
      BY <1>1, <1>2, <1>3, <2>1 DEF TypeOK
  <1>6. \A type \in Payloads : /\ Partition(type)' = Partition(type) /\ Span(type)' = Span(type)
                               /\ (Found(type)' <=> Found(type)) /\ (Readable(type)' <=> Readable(type))
                               /\ \A u : Wanted(type, u)' = Wanted(type, u)
    BY <1>1, SameTable
  <1>7. job \in Payloads
    BY <1>2 DEF TypeOK
  <1>8. FlashOK'
    BY <1>1, <1>2, FlashSame
  <1>9. LoopOK'
    BY <1>1, <1>2, <1>6, <1>7 DEF LoopOK
  <1>10. ASSUME pc \in Summed, NEW type \in Payloads
         PROVE  /\ Span(type) \subseteq Units
                /\ Copied(type) => \A u \in Span(type) :
                                     line'[u] # "dirty" /\ mem'[u] = Wanted(type, u)
    <2>1. Span(type) \subseteq Units
      BY <1>2, <1>10, Both
    <2> QED
      BY <1>3, <1>4, <2>1 DEF Copied
  <1>11. ASSUME pc \in Summed, NEW type \in Payloads, Copied(type)
         PROVE  Copied(type)'
    BY <1>6, <1>10, <1>11 DEF Copied
  <1>12. CopiedOK'
    <2>1. "kernel" \in Payloads
      BY DEF Payloads
    <2>2. pc \in {"copy", "invalidate", "verify"} /\ job = "dtb" => Copied("kernel")'
      BY <1>2, <1>11, <2>1 DEF CopiedOK, Summed, Loading
    <2>3. pc = "verify" => \A u \in Span(job) : line'[u] = "absent"
      BY <1>2, <1>4, <1>7, <1>10 DEF CopiedOK, Summed, Loading
    <2>4. pc \in {"handover", "linux"} => \A type \in Payloads : Copied(type)'
      BY <1>2, <1>11 DEF CopiedOK, Summed, Loading
    <2> QED
      BY <1>1, <1>6, <1>7, <2>2, <2>3, <2>4 DEF CopiedOK
  <1>13. HealthyOK'
    <2> SUFFICES ASSUME Healthy'
                 PROVE  /\ \A u \in Units : line'[u] = "clean" => cache'[u] = mem'[u]
                        /\ pc = "fill" => \A u \in Units : u < k => Visible(u)' = Pattern(u)
                        /\ pc = "test" => \A u \in Units : Visible(u)' = Pattern(u)
                        /\ pc = "copy" => \A u \in Span(job) : u - Place(job) < k =>
                                            Visible(u)' = Wanted(job, u)
                        /\ pc \in {"invalidate", "verify"} =>
                             \A u \in Span(job) : line'[u] # "dirty" /\ mem'[u] = Wanted(job, u)
      BY <1>1, <1>6, <1>7 DEF HealthyOK, Pattern, Place, Copied
    <2>1. Healthy /\ psram = "good" /\ ~wedged'
          /\ \A u \in Units : line[u] = "clean" => cache[u] = mem[u]
      BY <1>1, <1>2, <1>3, SameSums DEF Healthy, HealthyOK
    <2>2. \A u \in Units : line'[u] = "clean" => cache'[u] = mem'[u]
      BY <1>3, <1>4, <2>1
    <2>3. \A u \in Units : Visible(u)' = Visible(u)
      <3>1. mem'[e] = cache[e]
        BY <1>1, <1>2, <1>3, <2>1 DEF TypeOK
      <3> QED
        BY <1>1, <1>3, <1>4, <2>1, <3>1 DEF Visible
    <2>4. pc = "copy" => \A u \in Span(job) : u - Place(job) < k => Visible(u)' = Wanted(job, u)
      <3>1. pc = "copy" => Span(job) \subseteq Units
        BY <1>7, <1>10 DEF Summed, Loading
      <3>2. pc = "copy" => \A u \in Span(job) : u - Place(job) < k => Visible(u) = Wanted(job, u)
        BY <1>2, <2>1 DEF HealthyOK
      <3> QED
        BY <2>3, <3>1, <3>2
    <2>5. pc \in {"invalidate", "verify"} =>
             \A u \in Span(job) : line'[u] # "dirty" /\ mem'[u] = Wanted(job, u)
      BY <1>2, <1>7, <1>10, <2>1 DEF HealthyOK, Summed, Loading
    <2>6. pc = "fill" => \A u \in Units : u < k => Visible(u)' = Pattern(u)
      BY <1>2, <2>1, <2>3 DEF HealthyOK
    <2>7. pc = "test" => \A u \in Units : Visible(u)' = Pattern(u)
      BY <1>2, <2>1, <2>3 DEF HealthyOK
    <2> QED
      BY <2>2, <2>4, <2>5, <2>6, <2>7
  <1>14. HaltJustified'
    BY <1>1, <1>2, <1>3, <1>6, SameSums DEF HaltJustified
  <1> QED
    BY <1>5, <1>8, <1>9, <1>12, <1>13, <1>14 DEF IInv

\* A reset, whenever it comes, starts from nothing but the MSPI and what PSRAM
\* kept.
LEMMA ResetIInv ==
  ASSUME IInv, WarmReset \/ PowerCycle
  PROVE  IInv'
  <1>1. /\ pc' = "reset" /\ cpu' = "slow" /\ psram' = "untrained" /\ wedged' = FALSE
        /\ restored' = FALSE
        /\ cache' = [u \in Units |-> Junk] /\ line' = [u \in Units |-> "absent"]
        /\ job' = "kernel" /\ k' = 0 /\ table' = table
    BY DEF WarmReset, PowerCycle, AtReset
  <1>2. TypeOK
    BY DEF IInv
  <1>3. TypeOK'
    <2>1. Junk \in Contents /\ "kernel" \in Payloads /\ 0 \in 0 .. PsramSize
      BY BootAssumption DEF Contents, Payloads
    <2>2. mspi' \in {"rom", "tuned", "off"}
      BY DEF WarmReset, PowerCycle
    <2>3. mem' \in [Units -> Contents]
      BY <1>2, <2>1 DEF WarmReset, PowerCycle, TypeOK
    <2> QED
      BY <1>1, <1>2, <2>1, <2>2, <2>3 DEF TypeOK
  <1>4. FlashOK' /\ LoopOK' /\ CopiedOK' /\ HaltJustified'
    BY <1>1 DEF FlashOK, Summed, Loading, Early, LoopOK, CopiedOK, HaltJustified
  <1>5. HealthyOK'
    BY <1>1 DEF HealthyOK, Healthy
  <1> QED
    BY <1>3, <1>4, <1>5 DEF IInv

\* A stuttering step keeps the invariant.
LEMMA StutterIInv ==
  ASSUME IInv, UNCHANGED vars
  PROVE  IInv'
  <1>1. /\ table' = table /\ crc' = crc /\ restored' = restored /\ mspi' = mspi /\ cpu' = cpu /\ psram' = psram
        /\ wedged' = wedged /\ mem' = mem /\ cache' = cache /\ line' = line
        /\ pc' = pc /\ k' = k /\ job' = job
    BY DEF vars
  <1>2. \A type \in Payloads : /\ Partition(type)' = Partition(type) /\ Span(type)' = Span(type)
                               /\ (Found(type)' <=> Found(type)) /\ (Readable(type)' <=> Readable(type))
                               /\ \A u : Wanted(type, u)' = Wanted(type, u)
    BY <1>1, SameTable
  <1>3. TypeOK /\ FlashOK /\ LoopOK /\ CopiedOK /\ HealthyOK /\ HaltJustified /\ job \in Payloads
    BY DEF IInv, TypeOK
  <1>4. TypeOK'
    BY <1>1, <1>3 DEF TypeOK
  <1>5. FlashOK'
    BY <1>1, <1>3, FlashSame
  <1>6. LoopOK'
    BY <1>1, <1>2, <1>3 DEF LoopOK
  <1>7. \A type \in Payloads : Copied(type)' <=> Copied(type)
    BY <1>1, <1>2 DEF Copied
  <1>8. CopiedOK'
    BY <1>1, <1>2, <1>3, <1>7 DEF CopiedOK, Payloads
  <1>9. \A u : Visible(u)' = Visible(u)
    BY <1>1 DEF Visible
  <1>10. Copied(job)' <=> Copied(job)
    BY <1>1, <1>2, <1>3 DEF Copied
  <1>11. HealthyOK'
    BY <1>1, <1>2, <1>3, <1>9, <1>10, SameSums DEF HealthyOK, Healthy, Pattern, Place
  <1>12. HaltJustified'
    BY <1>1, <1>2, <1>3, SameSums DEF HaltJustified
  <1> QED
    BY <1>4, <1>5, <1>6, <1>8, <1>11, <1>12 DEF IInv

LEMMA StepIInv == IInv /\ [Next]_vars => IInv'
  BY EarlyIInv, TrainIInv, TestIInv, AliasIInv, CopyStallsIInv, CopyIInv, CopyWritebackIInv, CopyInvalidateIInv,
     VerifyIInv, HandOverIInv, EvictIInv, ResetIInv, StutterIInv DEF Next, Main

----------------------------------------------------------------------------

\* Every reachable state satisfies the inductive invariant.
THEOREM Safety == Spec => []IInv
  BY InitIInv, StepIInv, PTL DEF Spec

\* Type correctness: no copy and no write-back leaves PSRAM, whatever the table.
THEOREM TypeCorrect == Spec => []TypeOK
  <1>1. IInv => TypeOK
    BY DEF IInv
  <1> QED
    BY <1>1, Safety, PTL

\* Whatever flash, training, evictions, resets and the last write-back do, the
\* kernel is entered only with both payloads in PSRAM itself as they were
\* checksummed, and as they are in flash if its timing was put back.
THEOREM GoodJump == Spec => []JumpGood
  <1>1. IInv => JumpGood
    <2> SUFFICES ASSUME IInv, pc = "linux", NEW type \in Payloads, NEW u \in Span(type)
                 PROVE  /\ mem[u] = crc[type][u - Place(type)]
                        /\ restored => mem[u] = Payload(Partition(type).off + u - Place(type))
      BY DEF JumpGood
    <2>1. mem[u] = crc[type][u - Place(type)]
      BY DEF IInv, CopiedOK, Copied, Wanted
    <2>2. TypeOK /\ FlashOK /\ pc \in Summed
      BY DEF IInv, Summed, Loading
    <2>3. /\ Found(type) /\ Readable(type) /\ table \in Tables
          /\ restored => \A n \in 0 .. Partition(type).size - 1 :
                           crc[type][n] = Payload(Partition(type).off + n)
      BY <2>2, Both
    <2>4. /\ Partition(type).off \in Nat /\ Place(type) \in Nat /\ u \in Int
          /\ u - Place(type) \in 0 .. Partition(type).size - 1
      BY <2>3, Placed, BootAssumption DEF Units
    <2>5. Partition(type).off + (u - Place(type)) = Partition(type).off + u - Place(type)
      BY <2>4
    <2> QED
      BY <2>1, <2>3, <2>4, <2>5
  <1> QED
    BY <1>1, Safety, PTL

\* The self-test, the memory test and the checksums never refuse a board whose
\* table and PSRAM are right and whose flash is, and was, read as it is.
THEOREM NeverRefused == Spec => []HaltJustified
  <1>1. IInv => HaltJustified
    BY DEF IInv
  <1> QED
    BY <1>1, Safety, PTL
=============================================================================
