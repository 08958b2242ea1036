----------------------------- MODULE NommuPool -----------------------------
(***************************************************************************)
(* The reserved-memory pool that serves private NOMMU mappings, and the    *)
(* two allocators a mapping can come from                                  *)
(* (patches/linux/0010-mm-nommu-userspace-pool.patch).                     *)
(*                                                                         *)
(* Every private mapping is one contiguous run of pages.  do_mmap_private  *)
(* asks the pool first and the buddy allocator when the pool has no run    *)
(* that long; the region remembers which one answered (vm_from_pool), and  *)
(* each of the three places that give pages back must hand them to that    *)
(* allocator.  The pages of an unmapped range are given back after         *)
(* nommu_region_sem has been dropped, so another process may be allocating *)
(* between the two.                                                        *)
(*                                                                         *)
(* Pages are numbers: the pool's are 0 .. PoolPages-1, the buddy           *)
(* allocator's follow.  A region is [vm_start, vm_top), the caller's part  *)
(* of it [vm_start, vm_end).                                               *)
(***************************************************************************)
EXTENDS Integers

CONSTANTS
  PoolPages,   \* pages of the reserved region
  BuddyPages,  \* pages of the buddy allocator
  MaxLen,      \* longest mapping asked for, in pages: bounds the model
  RoundUp,     \* RoundUp[n]: 1 << get_order(n), or n when trimming applies
  Procs,       \* address spaces
  Regions,     \* slots of vm_region_jar
  NoRegion,    \* what a job that is about no region holds
  NoMm         \* the owner of a slot that is unused

ASSUME PagesAssumption == PoolPages \in Nat /\ BuddyPages \in Nat

ASSUME LenAssumption ==
  /\ MaxLen \in Nat
  /\ RoundUp \in [1 .. MaxLen -> Nat]
  /\ \A n \in 1 .. MaxLen : RoundUp[n] >= n

ASSUME NobodyAssumption == NoRegion \notin Regions /\ NoMm \notin Procs

VARIABLES
  user_pool,   \* whether nommu_userspace_pool_init built the pool
  pool_free,   \* pages the gen_pool's bitmap has clear
  buddy_free,  \* pages the buddy allocator has free
  region,      \* the struct vm_region in each slot
  job,         \* what each address space is in the middle of
  region_sem   \* TRUE while a do_mmap holds nommu_region_sem

vars == <<user_pool, pool_free, buddy_free, region, job, region_sem>>

----------------------------------------------------------------------------

Pool == 0 .. PoolPages - 1
Buddy == PoolPages .. PoolPages + BuddyPages - 1
Pages == Pool \cup Buddy
Addr == 0 .. PoolPages + BuddyPages

Span(from, to) == from .. to - 1

\* A slot is unused, being filled by do_mmap, in the region tree, or out of
\* the tree with its pages not yet given back.
RegionState == {"unused", "loading", "mapped", "dying"}

Region == [state : RegionState, vm_start : Addr, vm_end : Addr, vm_top : Addr,
           vm_from_pool : BOOLEAN, mm : Procs \cup {NoMm}]

\* kmem_cache_zalloc: every field of a fresh slot reads as zero.
Zeroed == [state |-> "unused", vm_start |-> 0, vm_end |-> 0, vm_top |-> 0,
           vm_from_pool |-> FALSE, mm |-> NoMm]

Job == [op : {"idle", "load", "shrink", "free_part", "free_all"},
        vm : Regions \cup {NoRegion}, from : Addr, to : Addr]

Idle == [op |-> "idle", vm |-> NoRegion, from |-> 0, to |-> 0]

Held(r) == IF region[r].state = "unused" THEN {}
           ELSE Span(region[r].vm_start, region[r].vm_top)

\* Pages already cut off a region and not yet back with their allocator.
InFlight(p) == IF job[p].op = "free_part" THEN Span(job[p].from, job[p].to)
               ELSE {}

Free == pool_free \cup buddy_free

\* Private copies have one user (vm_usage = 1), and mmap_lock lets an address
\* space be inside one mmap or munmap at a time.
Mapped(p, r) == region[r].state = "mapped" /\ region[r].mm = p

Unused(r) == region[r].state = "unused"

----------------------------------------------------------------------------

\* gen_pool_alloc takes the first run that fits; nommu_userspace_pool_alloc
\* answers NULL without a pool.
PoolRuns(n) == IF user_pool THEN {s \in Pool : Span(s, s + n) \subseteq pool_free}
               ELSE {}

FirstFit(s, n) == s \in PoolRuns(n) /\ \A t \in PoolRuns(n) : s <= t

\* alloc_pages_exact: some free run of that many pages, if it finds one.
BuddyRuns(n) == {s \in Buddy : Span(s, s + n) \subseteq buddy_free}

\* What it must not be: vm_from_pool keeps the zero of the fresh slot.
DoMmapPrivateUnmarked(p, r, s, len, total, fromPool) ==
  /\ region' = [region EXCEPT ![r] =
       [state |-> "loading", vm_start |-> s, vm_end |-> s + len,
        vm_top |-> s + total, vm_from_pool |-> FALSE, mm |-> p]]
  /\ job' = [job EXCEPT ![p] = [op |-> "load", vm |-> r, from |-> 0, to |-> 0]]
  /\ region_sem' = TRUE
  /\ UNCHANGED user_pool

\* do_mmap holds nommu_region_sem from before the allocation until the
\* region is in the tree or gone.
DoMmapPrivate(p, r, s, len, total, fromPool) ==
  /\ region' = [region EXCEPT ![r] =
       [state |-> "loading", vm_start |-> s, vm_end |-> s + len,
        vm_top |-> s + total, vm_from_pool |-> fromPool, mm |-> p]]
  /\ job' = [job EXCEPT ![p] = [op |-> "load", vm |-> r, from |-> 0, to |-> 0]]
  /\ region_sem' = TRUE
  /\ UNCHANGED user_pool

\* What it must not be: the region claims the buddy rounding the pool never gave.
MmapFromPoolRounded(p, r, len, s) ==
  /\ job[p].op = "idle" /\ ~region_sem /\ Unused(r)
  /\ FirstFit(s, len)
  /\ pool_free' = pool_free \ Span(s, s + len)
  /\ DoMmapPrivate(p, r, s, len, RoundUp[len], TRUE)
  /\ UNCHANGED buddy_free

MmapFromPool(p, r, len, s) ==
  /\ job[p].op = "idle" /\ ~region_sem /\ Unused(r)
  /\ FirstFit(s, len)
  /\ pool_free' = pool_free \ Span(s, s + len)
  /\ DoMmapPrivate(p, r, s, len, len, TRUE)
  /\ UNCHANGED buddy_free

MmapFromBuddy(p, r, len, s) ==
  /\ job[p].op = "idle" /\ ~region_sem /\ Unused(r)
  /\ PoolRuns(len) = {}
  /\ s \in BuddyRuns(RoundUp[len])
  /\ buddy_free' = buddy_free \ Span(s, s + RoundUp[len])
  /\ DoMmapPrivate(p, r, s, len, RoundUp[len], FALSE)
  /\ UNCHANGED pool_free

\* add_nommu_region and up_write.
MmapDone(p) ==
  /\ job[p].op = "load"
  /\ region' = [region EXCEPT ![job[p].vm].state = "mapped"]
  /\ job' = [job EXCEPT ![p] = Idle]
  /\ region_sem' = FALSE
  /\ UNCHANGED <<user_pool, pool_free, buddy_free>>

----------------------------------------------------------------------------

\* What it must not be: the pages go to the other allocator.
GiveBackSwapped(fromPool, pages) ==
  IF fromPool
  THEN buddy_free' = buddy_free \cup pages /\ UNCHANGED pool_free
  ELSE pool_free' = pool_free \cup pages /\ UNCHANGED buddy_free

\* The choice all three release paths make.
GiveBack(fromPool, pages) ==
  IF fromPool
  THEN pool_free' = pool_free \cup pages /\ UNCHANGED buddy_free
  ELSE buddy_free' = buddy_free \cup pages /\ UNCHANGED pool_free

\* error_free: the file could not be read into the pages.
MmapReadError(p) ==
  LET rg == region[job[p].vm] IN
  /\ job[p].op = "load"
  /\ GiveBack(rg.vm_from_pool, Span(rg.vm_start, rg.vm_top))
  /\ region' = [region EXCEPT ![job[p].vm] = Zeroed]
  /\ job' = [job EXCEPT ![p] = Idle]
  /\ region_sem' = FALSE
  /\ UNCHANGED user_pool

\* munmap of a whole mapping, or exit_mmap: __put_nommu_region takes the
\* region out of the tree and drops the semaphore before it frees.
PutRegion(p, r) ==
  /\ job[p].op = "idle" /\ ~region_sem /\ Mapped(p, r)
  /\ region' = [region EXCEPT ![r].state = "dying"]
  /\ job' = [job EXCEPT ![p] = [op |-> "free_all", vm |-> r, from |-> 0, to |-> 0]]
  /\ UNCHANGED <<user_pool, pool_free, buddy_free, region_sem>>

PutRegionFree(p) ==
  LET rg == region[job[p].vm] IN
  /\ job[p].op = "free_all"
  /\ GiveBack(rg.vm_from_pool, Span(rg.vm_start, rg.vm_top))
  /\ region' = [region EXCEPT ![job[p].vm] = Zeroed]
  /\ job' = [job EXCEPT ![p] = Idle]
  /\ UNCHANGED <<user_pool, region_sem>>

----------------------------------------------------------------------------

\* munmap of part of a mapping.  A hole in the middle first splits the part
\* below it off into a region of its own; the copy takes every field along.
SplitVma(p, r, new, from, to) ==
  /\ job[p].op = "idle" /\ ~region_sem /\ Mapped(p, r) /\ Unused(new)
  /\ region[r].vm_start < from /\ from < to /\ to < region[r].vm_end
  /\ region' = [region EXCEPT ![new] = [region[r] EXCEPT !.vm_end = from, !.vm_top = from],
                              ![r].vm_start = from]
  /\ job' = [job EXCEPT ![p] = [op |-> "shrink", vm |-> r, from |-> from, to |-> to]]
  /\ UNCHANGED <<user_pool, pool_free, buddy_free, region_sem>>

\* The head or the tail of a mapping goes without a split.
MunmapEnd(p, r, from, to) ==
  /\ job[p].op = "idle" /\ ~region_sem /\ Mapped(p, r)
  /\ region[r].vm_start <= from /\ from < to /\ to <= region[r].vm_end
  /\ (from = region[r].vm_start) # (to = region[r].vm_end)
  /\ job' = [job EXCEPT ![p] = [op |-> "shrink", vm |-> r, from |-> from, to |-> to]]
  /\ UNCHANGED <<user_pool, pool_free, buddy_free, region, region_sem>>

\* What it must not be: the cut stops at vm_end and forgets the rounding.
CutTailToEnd(p) ==
  LET r == job[p].vm IN
  /\ job[p].op = "shrink" /\ ~region_sem
  /\ job[p].from > region[r].vm_start
  /\ job' = [job EXCEPT ![p].op = "free_part"]
  /\ region' = [region EXCEPT ![r] = [@ EXCEPT !.vm_end = job[p].from,
                                                !.vm_top = job[p].from]]
  /\ UNCHANGED <<user_pool, pool_free, buddy_free, region_sem>>

\* vmi_shrink_vma under the semaphore: a tail goes up to vm_top, so the pages
\* the buddy rounding added go with it.
CutTail(p) ==
  LET r == job[p].vm IN
  /\ job[p].op = "shrink" /\ ~region_sem
  /\ job[p].from > region[r].vm_start
  /\ job' = [job EXCEPT ![p] = [@ EXCEPT !.op = "free_part", !.to = region[r].vm_top]]
  /\ region' = [region EXCEPT ![r] = [@ EXCEPT !.vm_end = job[p].from,
                                                !.vm_top = job[p].from]]
  /\ UNCHANGED <<user_pool, pool_free, buddy_free, region_sem>>

CutHead(p) ==
  LET r == job[p].vm IN
  /\ job[p].op = "shrink" /\ ~region_sem
  /\ job[p].from = region[r].vm_start
  /\ job' = [job EXCEPT ![p].op = "free_part"]
  /\ region' = [region EXCEPT ![r].vm_start = job[p].to]
  /\ UNCHANGED <<user_pool, pool_free, buddy_free, region_sem>>

\* ... and, with the semaphore dropped, the pages go back.
ShrinkFree(p) ==
  /\ job[p].op = "free_part"
  /\ GiveBack(region[job[p].vm].vm_from_pool, Span(job[p].from, job[p].to))
  /\ job' = [job EXCEPT ![p] = Idle]
  /\ UNCHANGED <<user_pool, region, region_sem>>

----------------------------------------------------------------------------

\* core_initcall: without a reserved region, or when the gen_pool cannot be
\* built, user_pool stays NULL and everything comes from the buddy allocator.
Init ==
  /\ user_pool \in BOOLEAN
  /\ pool_free = IF user_pool THEN Pool ELSE {}
  /\ buddy_free = Buddy
  /\ region = [r \in Regions |-> Zeroed]
  /\ job = [p \in Procs |-> Idle]
  /\ region_sem = FALSE

Mmap(p) ==
  \E r \in Regions, len \in 1 .. MaxLen, s \in Pages :
    \/ MmapFromPool(p, r, len, s)
    \/ MmapFromBuddy(p, r, len, s)

Munmap(p) ==
  \E r \in Regions :
    \/ PutRegion(p, r)
    \/ \E from, to \in Addr :
         \/ MunmapEnd(p, r, from, to)
         \/ \E new \in Regions : SplitVma(p, r, new, from, to)

Step(p) ==
  \/ Mmap(p) \/ MmapDone(p) \/ MmapReadError(p)
  \/ Munmap(p) \/ CutTail(p) \/ CutHead(p)
  \/ ShrinkFree(p) \/ PutRegionFree(p)

Next == \E p \in Procs : Step(p)

Spec == Init /\ [][Next]_vars

----------------------------------------------------------------------------

\* Every variable stays in its type; a job that is about a region names one.
TypeOK ==
  /\ user_pool \in BOOLEAN
  /\ pool_free \subseteq Pool
  /\ buddy_free \subseteq Buddy
  /\ region \in [Regions -> Region]
  /\ job \in [Procs -> Job]
  /\ region_sem \in BOOLEAN

\* No page is in two hands: two mappings never share one, a page on its way
\* back belongs to no mapping, and neither is free in an allocator, where the
\* next mmap of any process would be given it.
NoAliasing ==
  /\ \A r, s \in Regions : r # s => Held(r) \cap Held(s) = {}
  /\ \A r \in Regions, p \in Procs : Held(r) \cap InFlight(p) = {}
  /\ \A p, q \in Procs : p # q => InFlight(p) \cap InFlight(q) = {}
  /\ \A r \in Regions : Held(r) \cap Free = {}
  /\ \A p \in Procs : InFlight(p) \cap Free = {}

\* The allocator named by vm_from_pool owns every page of the region and every
\* page cut off it, so no release path hands a buddy page to gen_pool_free or
\* a reserved page to free_page_series.
HomeAllocator ==
  /\ \A r \in Regions :
       Held(r) \subseteq IF region[r].vm_from_pool THEN Pool ELSE Buddy
  /\ \A p \in Procs : job[p].op = "free_part" =>
       InFlight(p) \subseteq IF region[job[p].vm].vm_from_pool THEN Pool ELSE Buddy

\* No page is lost: whatever interleaving of mappings, partial unmappings and
\* failures happened, each page of a live allocator is free, mapped, or on its
\* way back.
NoLeak ==
  \A x \in IF user_pool THEN Pages ELSE Buddy :
    \/ x \in Free
    \/ \E r \in Regions : x \in Held(r)
    \/ \E p \in Procs : x \in InFlight(p)

----------------------------------------------------------------------------

\* What the three properties above rest on: the bounds of a region are in
\* order, and a job is about a region of its own address space, in the state
\* the job left it in and with the cut still inside it.
Bookkeeping ==
  /\ \A r \in Regions : /\ region[r].vm_start <= region[r].vm_end
                        /\ region[r].vm_end <= region[r].vm_top
  /\ \A p \in Procs : job[p].op # "idle" =>
       LET rg == region[job[p].vm] IN
       /\ job[p].vm \in Regions
       /\ rg.mm = p
       /\ rg.state = CASE job[p].op = "load" -> "loading"
                       [] job[p].op = "free_all" -> "dying"
                       [] OTHER -> "mapped"
       /\ job[p].op = "shrink" =>
            /\ rg.vm_start <= job[p].from
            /\ job[p].from < job[p].to
            /\ job[p].to <= rg.vm_end

\* The inductive invariant.
IInv == TypeOK /\ Bookkeeping /\ NoAliasing /\ HomeAllocator /\ NoLeak

----------------------------------------------------------------------------

\* Whose a page is: of the region that holds it, or of the address space that
\* has cut it off one.
Owner(x) ==
  CASE \E r \in Regions : x \in Held(r) ->
         region[CHOOSE r \in Regions : x \in Held(r)].mm
    [] (\A r \in Regions : x \notin Held(r)) /\ (\E p \in Procs : x \in InFlight(p)) ->
         CHOOSE p \in Procs : x \in InFlight(p)
    [] OTHER -> NoMm

Leaving ==
  {x \in Pages : \/ \E r \in Regions : region[r].state = "dying" /\ x \in Held(r)
                 \/ \E p \in Procs : x \in InFlight(p)}

Ledger == INSTANCE PageLedger WITH
  free <- Free, owner <- [x \in Pages |-> Owner(x)], leaving <- Leaving

\* The pool and the three release paths keep the ledger's promise: no page
\* passes from one address space to another but through its allocator.
KeepsLedger == Ledger!LedgerSpec
=============================================================================
