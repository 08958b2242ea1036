------------------------------ MODULE IdmacRing ------------------------------
(***************************************************************************)
(* The descriptor ring that dw_mmc shares with the SD controller's IDMAC,  *)
(* in cached memory with cache maintenance by hand (patches/linux/0007 and *)
(* 0036) or behind the cache (patches/linux/0039).                         *)
(*                                                                         *)
(* A descriptor belongs to IDMAC while its OWN bit is set.  The driver     *)
(* fills descriptors from the start of the ring for every transfer, after  *)
(* polling that IDMAC has given each one back; IDMAC's write of the clear  *)
(* OWN bit may land after the transfer has been reported complete.         *)
(* Several descriptors share a cache line, which is filled, written back   *)
(* and dropped as a whole.                                                 *)
(***************************************************************************)
EXTENDS Integers

CONSTANTS
  NDescs,   \* descriptors a transfer may use: bounds the model
  PerLine   \* descriptors in one cache line

ASSUME RingAssumption == NDescs \in Nat \ {0} /\ PerLine \in Nat \ {0}

VARIABLES
  sg_cpu_cached,  \* whether dma_alloc_coherent failed and kzalloc was used
  mem,            \* the ring in memory, as IDMAC sees it
  cache,          \* what the cache holds of it
  line,           \* the state of each cache line
  pc,             \* where the driver is
  sg_len,         \* descriptors of the transfer it is preparing
  i,              \* the next one to fill
  running,        \* whether IDMAC is working through the ring
  at,             \* the descriptor it is at
  landing,        \* descriptors whose clear OWN bit is still on its way
  drops           \* transfers dropped in a row, at most two told apart

vars == <<sg_cpu_cached, mem, cache, line, pc, sg_len, i, running, at, landing, drops>>

hardware == <<running, at, landing>>

----------------------------------------------------------------------------

Descs == 0 .. NDescs - 1
LineOf(d) == d \div PerLine
Lines == {LineOf(d) : d \in Descs}

\* A descriptor: its OWN and LD bits, and whether this transfer filled it.
Desc == [own : BOOLEAN, ld : BOOLEAN, current : BOOLEAN]

Zeroed == [own |-> FALSE, ld |-> FALSE, current |-> FALSE]

\* What filling the ring for another transfer makes of what it held.
Outdated(ring) == [d \in Descs |-> [ring[d] EXCEPT !.current = FALSE]]

\* The cache with the line of d in it.
Filled(d) == IF line[LineOf(d)] # "absent" THEN cache
             ELSE [e \in Descs |-> IF LineOf(e) = LineOf(d) THEN mem[e] ELSE cache[e]]

\* What a load of descriptor d returns.
Load(d) == IF sg_cpu_cached THEN Filled(d)[d] ELSE mem[d]

Dirty(d) == line[LineOf(d)] = "dirty"

\* Memory once every dirty line has been written back, as a whole.
WrittenBack == [d \in Descs |-> IF Dirty(d) THEN cache[d] ELSE mem[d]]

----------------------------------------------------------------------------

\* What it must not be: a descriptor more than the ring has.
RequestOneMore(n) ==
  /\ pc = "idle"
  /\ sg_len' = n + 1 /\ i' = 0
  /\ mem' = Outdated(mem) /\ cache' = Outdated(cache)
  /\ line' = IF sg_cpu_cached THEN [l \in Lines |-> "absent"] ELSE line
  /\ pc' = "prepare"
  /\ UNCHANGED <<sg_cpu_cached, drops>> /\ UNCHANGED hardware

\* dw_mci_prepare_desc32 starts with dw_mci_desc_sync_for_cpu: a cached ring
\* is invalidated, once, and what was dirty is lost.
Request(n) ==
  /\ pc = "idle"
  /\ sg_len' = n /\ i' = 0
  /\ mem' = Outdated(mem) /\ cache' = Outdated(cache)
  /\ line' = IF sg_cpu_cached THEN [l \in Lines |-> "absent"] ELSE line
  /\ pc' = "prepare"
  /\ UNCHANGED <<sg_cpu_cached, drops>> /\ UNCHANGED hardware

\* The poll finds OWN set and goes round again.
PollOwned ==
  /\ pc = "prepare" /\ i < sg_len /\ Load(i).own
  /\ sg_cpu_cached /\ line[LineOf(i)] = "absent"
  /\ cache' = Filled(i) /\ line' = [line EXCEPT ![LineOf(i)] = "clean"]
  /\ UNCHANGED <<sg_cpu_cached, mem, pc, sg_len, i, drops>> /\ UNCHANGED hardware

\* It finds OWN clear, and the descriptor is filled.
FillDesc ==
  LET filled == [own |-> TRUE, ld |-> i = sg_len - 1, current |-> TRUE] IN
  /\ pc = "prepare" /\ i < sg_len /\ ~Load(i).own
  /\ IF sg_cpu_cached
     THEN /\ cache' = [Filled(i) EXCEPT ![i] = filled]
          /\ line' = [line EXCEPT ![LineOf(i)] = "dirty"]
          /\ UNCHANGED mem
     ELSE mem' = [mem EXCEPT ![i] = filled] /\ UNCHANGED <<cache, line>>
  /\ i' = i + 1
  /\ UNCHANGED <<sg_cpu_cached, pc, sg_len, drops>> /\ UNCHANGED hardware

\* What it must not be: the new ring stays in the cache ...
ReinitUnsynced ==
  LET zero == [d \in Descs |-> Zeroed] IN
  /\ mem' = IF sg_cpu_cached THEN mem ELSE zero
  /\ cache' = IF sg_cpu_cached THEN zero ELSE cache
  /\ line' = IF sg_cpu_cached THEN [l \in Lines |-> "dirty"] ELSE line

\* ... or the ring is left as it is.
ReinitNot == UNCHANGED <<mem, cache, line>>

\* err_own_bit: the whole ring is zeroed and chained anew, and written back.
Reinit ==
  LET zero == [d \in Descs |-> Zeroed] IN
  /\ mem' = zero
  /\ cache' = IF sg_cpu_cached THEN zero ELSE cache
  /\ line' = IF sg_cpu_cached THEN [l \in Lines |-> "clean"] ELSE line

\* What it must not be: IDMAC is not given the time to land its writes ...
PollTimeoutEarly ==
  /\ pc = "prepare" /\ i < sg_len /\ Load(i).own
  /\ Reinit
  /\ pc' = "idle" /\ drops' = IF drops < 2 THEN drops + 1 ELSE drops
  /\ UNCHANGED <<sg_cpu_cached, sg_len, i>> /\ UNCHANGED hardware

\* ... or the poll has no end.
PollTimeoutNever ==
  /\ pc = "prepare" /\ i < sg_len /\ Load(i).own
  /\ UNCHANGED vars

\* OWN stayed set for 100 ms, in which IDMAC has landed everything it had.
PollTimeout ==
  /\ pc = "prepare" /\ i < sg_len /\ Load(i).own
  /\ landing = {}
  /\ Reinit
  /\ pc' = "idle" /\ drops' = IF drops < 2 THEN drops + 1 ELSE drops
  /\ UNCHANGED <<sg_cpu_cached, sg_len, i>> /\ UNCHANGED hardware

\* What it must not be: the driver before 0007, which only had a barrier.
SyncForDeviceNot ==
  /\ pc = "prepare" /\ i = sg_len
  /\ pc' = "kick"
  /\ UNCHANGED <<sg_cpu_cached, mem, cache, line, sg_len, i, drops>> /\ UNCHANGED hardware

\* dma_sync_single_for_device, which 0007 put before the kick.
SyncForDevice ==
  /\ pc = "prepare" /\ i = sg_len
  /\ mem' = WrittenBack
  /\ line' = [l \in Lines |-> IF line[l] = "dirty" THEN "clean" ELSE line[l]]
  /\ pc' = "kick"
  /\ UNCHANGED <<sg_cpu_cached, cache, sg_len, i, drops>> /\ UNCHANGED hardware

Kick ==
  /\ pc = "kick"
  /\ running' = TRUE /\ at' = 0
  /\ pc' = "busy"
  /\ UNCHANGED <<sg_cpu_cached, mem, cache, line, sg_len, i, landing, drops>>

Complete ==
  /\ pc = "busy" /\ ~running
  /\ pc' = "idle" /\ drops' = 0
  /\ UNCHANGED <<sg_cpu_cached, mem, cache, line, sg_len, i>> /\ UNCHANGED hardware

----------------------------------------------------------------------------

\* IDMAC carries out one descriptor, and stops after the one marked last.
IdmacRun ==
  /\ running /\ mem[at].own
  /\ landing' = landing \cup {at}
  /\ IF mem[at].ld THEN running' = FALSE /\ UNCHANGED at
     ELSE at' = at + 1 /\ UNCHANGED running
  /\ UNCHANGED <<sg_cpu_cached, mem, cache, line, pc, sg_len, i, drops>>

\* The clear OWN bit reaches memory.
IdmacLand ==
  /\ \E d \in landing : /\ mem' = [mem EXCEPT ![d].own = FALSE]
                        /\ landing' = landing \ {d}
  /\ UNCHANGED <<sg_cpu_cached, cache, line, pc, sg_len, i, running, at, drops>>

\* The cache makes room: a dirty line is written back first.
Evict(l) ==
  /\ line[l] # "absent"
  /\ mem' = [d \in Descs |-> IF LineOf(d) = l /\ Dirty(d) THEN cache[d] ELSE mem[d]]
  /\ line' = [line EXCEPT ![l] = "absent"]
  /\ UNCHANGED <<sg_cpu_cached, cache, pc, sg_len, i, drops>> /\ UNCHANGED hardware

----------------------------------------------------------------------------

Init ==
  /\ sg_cpu_cached \in BOOLEAN
  /\ mem = [d \in Descs |-> Zeroed] /\ cache = [d \in Descs |-> Zeroed]
  /\ line = [l \in Lines |-> "absent"]
  /\ pc = "idle" /\ sg_len = 0 /\ i = 0
  /\ running = FALSE /\ at = 0 /\ landing = {}
  /\ drops = 0

Driver == PollOwned \/ FillDesc \/ PollTimeout \/ SyncForDevice \/ Kick \/ Complete

Next ==
  \/ Driver \/ IdmacRun \/ IdmacLand
  \/ \E n \in 1 .. NDescs : Request(n)
  \/ \E l \in Lines : Evict(l)

\* The driver goes on with the transfer it has begun: a poll ends, with the
\* bit clear or with its time over.  IDMAC does its work and lands its writes.
Spec ==
  /\ Init /\ [][Next]_vars
  /\ SF_vars(FillDesc) /\ WF_vars(PollTimeout)
  /\ WF_vars(SyncForDevice) /\ WF_vars(Kick) /\ WF_vars(Complete)
  /\ WF_vars(IdmacRun) /\ WF_vars(IdmacLand)

----------------------------------------------------------------------------

\* Every variable stays in its type.
TypeOK ==
  /\ sg_cpu_cached \in BOOLEAN
  /\ mem \in [Descs -> Desc] /\ cache \in [Descs -> Desc]
  /\ line \in [Lines -> {"absent", "clean", "dirty"}]
  /\ pc \in {"idle", "prepare", "kick", "busy"}
  /\ sg_len \in 0 .. NDescs /\ i \in 0 .. NDescs
  /\ running \in BOOLEAN /\ at \in Descs /\ landing \subseteq Descs
  /\ drops \in 0 .. 2

\* IDMAC is never started on, or led to, a descriptor that this transfer did
\* not fill: it would move another request's data, or stop short.
RunsThisTransfer ==
  running => /\ mem[at].current /\ mem[at].own
             /\ at < sg_len /\ (mem[at].ld <=> at = sg_len - 1)

\* Invalidating the whole ring before the polls loses nothing the driver has
\* written: between transfers no line is dirty.
InvalidateLossless == pc = "idle" => \A l \in Lines : line[l] # "dirty"

\* A transfer dropped for want of a descriptor leaves a ring with which the
\* next one succeeds.
RetrySucceeds == drops <= 1

\* With the ring behind the cache, no transfer is ever dropped.
CoherentNeverDrops == ~sg_cpu_cached => drops = 0

\* Every transfer asked for completes or is dropped.
RequestEnds == pc # "idle" ~> pc = "idle"

\* A transfer is dropped only when IDMAC still owns the descriptor in memory:
\* the polls read what IDMAC wrote, not what the driver did.
DropIsReal == [][drops' > drops => mem[i].own]_vars
=============================================================================
