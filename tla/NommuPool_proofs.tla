------------------------- MODULE NommuPool_proofs -------------------------
(***************************************************************************)
(* The safety of NommuPool for every number of pages, processes and region *)
(* slots: IInv is inductive, and implies the properties the runs check.    *)
(***************************************************************************)
EXTENDS NommuPool, TLAPS

\* A nonempty run of pages inside a set of pages has its ends in Addr.
LEMMA SpanBounds ==
  ASSUME NEW s \in Nat, NEW n \in Nat, n > 0, Span(s, s + n) \subseteq Pages
  PROVE  s \in Addr /\ s + n \in Addr
  <1>1. s \in Span(s, s + n) /\ s + n - 1 \in Span(s, s + n)
    BY DEF Span
  <1>2. s \in Pages /\ s + n - 1 \in Pages
    BY <1>1
  <1> QED
    BY <1>2, PagesAssumption DEF Pages, Pool, Buddy, Addr

\* Cutting a run in two leaves two disjoint runs that make it up.
LEMMA SpanCut ==
  ASSUME NEW a \in Nat, NEW b \in Nat, NEW c \in Nat, a <= b, b <= c
  PROVE  /\ Span(a, b) \cup Span(b, c) = Span(a, c)
         /\ Span(a, b) \cap Span(b, c) = {}
  BY DEF Span

\* The pool's pages and the buddy allocator's are different pages.
LEMMA TwoAllocators == Pool \cap Buddy = {} /\ Pages \subseteq Nat
  BY PagesAssumption DEF Pool, Buddy, Pages

\* The initial state satisfies the invariant.
LEMMA InitIInv == Init => IInv
  <1> SUFFICES ASSUME Init PROVE IInv
    OBVIOUS
  <1> USE DEF Init
  <1>1. TypeOK
    <2>1. 0 \in Addr
      BY PagesAssumption DEF Addr
    <2>2. Zeroed \in Region
      BY <2>1 DEF Zeroed, Region, RegionState
    <2>3. Idle \in Job
      BY <2>1 DEF Idle, Job
    <2> QED
      BY <2>2, <2>3 DEF TypeOK
  <1>2. (\A r \in Regions : Held(r) = {}) /\ (\A p \in Procs : InFlight(p) = {})
    BY DEF Held, InFlight, Zeroed, Idle
  <1>3. Bookkeeping
    BY DEF Bookkeeping, Zeroed, Idle
  <1>4. NoAliasing
    BY <1>2 DEF NoAliasing
  <1>5. HomeAllocator
    BY <1>2 DEF HomeAllocator, Idle
  <1>6. NoLeak
    BY DEF NoLeak, Free, Pages
  <1> QED
    BY <1>1, <1>3, <1>4, <1>5, <1>6 DEF IInv

----------------------------------------------------------------------------

\* Both allocations take a free run out of one allocator and put it, whole,
\* in a region of that allocator.
LEMMA AllocIInv ==
  ASSUME IInv, NEW p \in Procs, NEW r \in Regions, NEW len \in 1 .. MaxLen,
         NEW s \in Pages, NEW total \in Nat, total >= len,
         NEW fromPool \in BOOLEAN,
         job[p].op = "idle", Unused(r),
         DoMmapPrivate(p, r, s, len, total, fromPool),
         Span(s, s + total) \subseteq IF fromPool THEN pool_free ELSE buddy_free,
         pool_free' = IF fromPool THEN pool_free \ Span(s, s + total) ELSE pool_free,
         buddy_free' = IF fromPool THEN buddy_free ELSE buddy_free \ Span(s, s + total)
  PROVE  IInv'
  <1> USE DEF IInv, DoMmapPrivate
  <1>1. /\ s \in Nat /\ s \in Addr /\ s + len \in Addr /\ s + total \in Addr
        /\ len \in Nat /\ len > 0
    <2>1. s \in Nat /\ len \in Nat /\ len > 0 /\ total > 0
      BY TwoAllocators, LenAssumption
    <2>2. Span(s, s + total) \subseteq Pages
      BY DEF TypeOK, Pages
    <2>3. s \in Addr /\ s + total \in Addr
      BY <2>1, <2>2, SpanBounds
    <2> QED
      BY <2>1, <2>3, PagesAssumption DEF Addr
  <1>2. TypeOK'
    BY <1>1, PagesAssumption DEF TypeOK, Region, RegionState, Job, Addr
  <1>3. Held(r)' = Span(s, s + total) /\ Held(r) = {}
    BY DEF Held, Unused, TypeOK
  <1>4. \A t \in Regions \ {r} : Held(t)' = Held(t)
    BY DEF Held, TypeOK
  <1>5. \A q \in Procs : InFlight(q)' = InFlight(q)
    BY DEF InFlight, TypeOK
  <1>6. \A q \in Procs \ {p} : job'[q] = job[q] /\ (job[q].op # "idle" => job[q].vm # r)
    BY DEF Bookkeeping, TypeOK, Unused
  <1>7. Bookkeeping'
    <2>1. \A t \in Regions : region'[t].vm_start <= region'[t].vm_end
                             /\ region'[t].vm_end <= region'[t].vm_top
      BY <1>1 DEF Bookkeeping, TypeOK
    <2>2. job'[p].vm = r /\ job'[p].op = "load" /\ region'[r].mm = p
          /\ region'[r].state = "loading"
      BY DEF TypeOK
    <2>3. \A q \in Procs \ {p} : job[q].op # "idle" =>
            job[q].vm \in Regions /\ region'[job[q].vm] = region[job[q].vm]
      BY <1>6 DEF Bookkeeping, TypeOK
    <2> QED
      BY <1>6, <2>1, <2>2, <2>3 DEF Bookkeeping
  <1>8. Free' = Free \ Span(s, s + total) /\ Span(s, s + total) \subseteq Free
    BY TwoAllocators DEF Free, TypeOK
  <1>9. NoAliasing'
    BY <1>3, <1>4, <1>5, <1>8 DEF NoAliasing
  <1>10. HomeAllocator'
    <2>1. \A t \in Regions :
            Held(t)' \subseteq IF region'[t].vm_from_pool THEN Pool ELSE Buddy
      BY <1>3, <1>4 DEF HomeAllocator, TypeOK
    <2>2. \A q \in Procs : job'[q].op = "free_part" =>
            q # p /\ region'[job'[q].vm] = region[job[q].vm]
      BY <1>6 DEF TypeOK, Bookkeeping
    <2> QED
      BY <1>5, <1>6, <2>1, <2>2 DEF HomeAllocator
  <1>11. NoLeak'
    BY <1>3, <1>4, <1>5, <1>8 DEF NoLeak
  <1> QED
    BY <1>2, <1>7, <1>9, <1>10, <1>11

\* error_free and the last half of __put_nommu_region: the region's pages go
\* back to the allocator it names and its slot is unused again.
LEMMA DropIInv ==
  ASSUME IInv, NEW p \in Procs, NEW r \in Regions,
         job[p].op \in {"load", "free_all"}, job[p].vm = r,
         GiveBack(region[r].vm_from_pool, Span(region[r].vm_start, region[r].vm_top)),
         region' = [region EXCEPT ![r] = Zeroed],
         job' = [job EXCEPT ![p] = Idle],
         region_sem' \in BOOLEAN, user_pool' = user_pool
  PROVE  IInv'
  <1> DEFINE pages == Span(region[r].vm_start, region[r].vm_top)
  <1> USE DEF IInv
  <1>1. region[r].state # "unused" /\ region[r].mm = p
    BY DEF Bookkeeping, TypeOK
  <1>2. Held(r) = pages /\ Held(r)' = {}
    <2>1. region'[r] = Zeroed
      BY DEF TypeOK
    <2>2. region'[r].state = "unused"
      BY <2>1 DEF Zeroed
    <2> QED
      BY <1>1, <2>2 DEF Held
  <1>3. \A t \in Regions \ {r} : region'[t] = region[t] /\ Held(t)' = Held(t)
    BY DEF Held, TypeOK
  <1>4. \A q \in Procs \ {p} : job'[q] = job[q] /\ (job[q].op # "idle" => job[q].vm # r)
    BY <1>1 DEF Bookkeeping, TypeOK
  <1>5. InFlight(p) = {} /\ InFlight(p)' = {} /\ job'[p].op = "idle"
    BY DEF InFlight, TypeOK, Idle
  <1>6. \A q \in Procs : InFlight(q)' = InFlight(q)
    BY <1>4, <1>5 DEF InFlight
  <1>7. pages \subseteq IF region[r].vm_from_pool THEN Pool ELSE Buddy
    BY <1>1, <1>2 DEF HomeAllocator
  <1>8. Free' = Free \cup pages
    BY DEF GiveBack, Free
  <1>9. TypeOK'
    <2>1. pool_free' \subseteq Pool /\ buddy_free' \subseteq Buddy
      BY <1>7 DEF GiveBack, TypeOK
    <2>2. 0 \in Addr
      BY PagesAssumption DEF Addr
    <2>3. Zeroed \in Region /\ Idle \in Job
      BY <2>2 DEF Zeroed, Idle, Region, RegionState, Job
    <2> QED
      BY <1>1, <2>1, <2>3 DEF TypeOK
  <1>10. Bookkeeping'
    <2>1. \A t \in Regions : region'[t].vm_start <= region'[t].vm_end
                             /\ region'[t].vm_end <= region'[t].vm_top
      <3>1. region'[r] = Zeroed
        BY <1>1 DEF TypeOK
      <3> QED
        BY <1>3, <3>1 DEF Bookkeeping, Zeroed
    <2> QED
      BY <1>3, <1>4, <1>5, <2>1 DEF Bookkeeping
  <1>11. NoAliasing'
    <2>1. ASSUME NEW t \in Regions
          PROVE  Held(t)' \subseteq Held(t) /\ Held(t)' \cap pages = {}
      <3> HIDE DEF pages
      <3>1. CASE t = r
        BY <1>2, <3>1
      <3>2. CASE t # r
        BY <1>1, <1>2, <1>3, <3>2 DEF NoAliasing
      <3> QED
        BY <3>1, <3>2
    <2>2. \A q \in Procs : InFlight(q) \cap pages = {}
      BY <1>1, <1>2 DEF NoAliasing
    <2> HIDE DEF pages
    <2> QED
      BY <1>6, <1>8, <2>1, <2>2 DEF NoAliasing
  <1>12. HomeAllocator'
    <2>1. ASSUME NEW t \in Regions
          PROVE  Held(t)' \subseteq IF region'[t].vm_from_pool THEN Pool ELSE Buddy
      <3> HIDE DEF pages
      <3>1. CASE t = r
        BY <1>2, <3>1
      <3>2. CASE t # r
        BY <1>3, <3>2 DEF HomeAllocator
      <3> QED
        BY <3>1, <3>2
    <2>2. \A q \in Procs : job'[q].op = "free_part" =>
            q # p /\ region'[job'[q].vm] = region[job[q].vm]
      BY <1>3, <1>4, <1>5 DEF Bookkeeping
    <2> QED
      BY <1>4, <1>6, <2>1, <2>2 DEF HomeAllocator
  <1>13. NoLeak'
    BY <1>1, <1>2, <1>3, <1>6, <1>8 DEF NoLeak
  <1> QED
    BY <1>9, <1>10, <1>11, <1>12, <1>13

\* vmi_shrink_vma's last step: the pages cut off go back.
LEMMA ShrinkFreeIInv ==
  ASSUME IInv, NEW p \in Procs, ShrinkFree(p)
  PROVE  IInv'
  <1> USE DEF IInv, ShrinkFree
  <1>1. InFlight(p) = Span(job[p].from, job[p].to) /\ InFlight(p)' = {}
        /\ job'[p].op = "idle"
    BY DEF InFlight, TypeOK, Idle
  <1>2. \A q \in Procs \ {p} : job'[q] = job[q] /\ InFlight(q)' = InFlight(q)
    BY DEF InFlight, TypeOK
  <1>3. \A r \in Regions : Held(r)' = Held(r)
    BY DEF Held
  <1>4. InFlight(p) \subseteq IF region[job[p].vm].vm_from_pool THEN Pool ELSE Buddy
    BY DEF HomeAllocator
  <1>5. Free' = Free \cup InFlight(p)
    BY <1>1 DEF GiveBack, Free
  <1>6. TypeOK'
    <2>1. 0 \in Addr
      BY PagesAssumption DEF Addr
    <2>2. Idle \in Job
      BY <2>1 DEF Idle, Job
    <2> QED
      BY <1>1, <1>4, <2>2 DEF TypeOK, GiveBack
  <1>7. Bookkeeping'
    BY <1>1, <1>2 DEF Bookkeeping
  <1>8. NoAliasing'
    BY <1>1, <1>2, <1>3, <1>5 DEF NoAliasing
  <1>9. HomeAllocator'
    BY <1>1, <1>2, <1>3 DEF HomeAllocator
  <1>10. NoLeak'
    <2> SUFFICES ASSUME NEW x \in IF user_pool THEN Pages ELSE Buddy
                 PROVE  \/ x \in Free'
                        \/ \E r \in Regions : x \in Held(r)'
                        \/ \E q \in Procs : x \in InFlight(q)'
      BY DEF NoLeak
    <2>1. CASE \E q \in Procs : x \in InFlight(q)
      BY <1>2, <1>5, <2>1
    <2> QED
      BY <1>3, <1>5, <2>1 DEF NoLeak
  <1> QED
    BY <1>6, <1>7, <1>8, <1>9, <1>10

----------------------------------------------------------------------------

\* Steps that move no page: the region enters or leaves the tree, or a munmap
\* has found the part it is to cut.
LEMMA RelabelIInv ==
  ASSUME IInv, NEW p \in Procs, NEW r \in Regions,
         region[r].state # "unused", region[r].mm = p,
         region'[r].state \in {"mapped", "dying"},
         region' \in [Regions -> Region],
         \A t \in Regions \ {r} : region'[t] = region[t],
         region'[r].mm = p, region'[r].vm_from_pool = region[r].vm_from_pool,
         region'[r].vm_start = region[r].vm_start,
         region'[r].vm_end = region[r].vm_end, region'[r].vm_top = region[r].vm_top,
         job[p].op # "free_part", job' \in [Procs -> Job],
         \A q \in Procs \ {p} : job'[q] = job[q],
         job'[p].op # "idle" => job'[p].vm = r,
         job'[p].op \in {"idle", "shrink", "free_all"},
         job'[p].op = "free_all" => region'[r].state = "dying",
         job'[p].op = "shrink" => /\ region'[r].state = "mapped"
                                  /\ region[r].vm_start <= job'[p].from
                                  /\ job'[p].from < job'[p].to
                                  /\ job'[p].to <= region[r].vm_end,
         \A q \in Procs \ {p} : job[q].op # "idle" => job[q].vm # r,
         region_sem' \in BOOLEAN,
         UNCHANGED <<user_pool, pool_free, buddy_free>>
  PROVE  IInv'
  <1> USE DEF IInv
  <1>1. \A t \in Regions : Held(t)' = Held(t)
    BY DEF Held
  <1>2. \A q \in Procs : InFlight(q)' = InFlight(q)
    BY DEF InFlight
  <1>3. TypeOK'
    BY DEF TypeOK
  <1>4. Bookkeeping'
    <2>1. \A t \in Regions : region'[t].vm_start <= region'[t].vm_end
                             /\ region'[t].vm_end <= region'[t].vm_top
      BY DEF Bookkeeping
    <2>2. \A q \in Procs \ {p} : job'[q] = job[q] /\
            (job[q].op # "idle" =>
               job[q].vm \in Regions /\ region'[job[q].vm] = region[job[q].vm])
      BY DEF Bookkeeping
    <2> QED
      BY <2>1, <2>2 DEF Bookkeeping
  <1>5. NoAliasing'
    BY <1>1, <1>2 DEF NoAliasing, Free
  <1>6. HomeAllocator'
    <2>1. \A t \in Regions : region'[t].vm_from_pool = region[t].vm_from_pool
      OBVIOUS
    <2>2. \A q \in Procs : job'[q].op = "free_part" =>
            job'[q] = job[q] /\ job[q].vm \in Regions
      BY DEF Bookkeeping
    <2> QED
      BY <1>1, <1>2, <2>1, <2>2 DEF HomeAllocator
  <1>7. NoLeak'
    BY <1>1, <1>2 DEF NoLeak, Free
  <1> QED
    BY <1>3, <1>4, <1>5, <1>6, <1>7

\* Moving a bound of a region leaves a region.
LEMMA MoveBound ==
  ASSUME NEW rg \in Region, NEW a \in Addr
  PROVE  /\ [rg EXCEPT !.vm_start = a] \in Region
         /\ [rg EXCEPT !.vm_end = a] \in Region
         /\ [rg EXCEPT !.vm_top = a] \in Region
  BY DEF Region

\* vmi_shrink_vma's first half: one end of the region is cut off and is in
\* flight until it is freed.
LEMMA CutIInv ==
  ASSUME IInv, NEW p \in Procs, NEW r \in Regions,
         NEW lo \in Addr, NEW end \in Addr, NEW hi \in Addr, lo <= end, end <= hi,
         NEW from \in Addr, NEW to \in Addr,
         job[p].op = "shrink", job[p].vm = r,
         Span(lo, hi) \cup Span(from, to) = Span(region[r].vm_start, region[r].vm_top),
         Span(lo, hi) \cap Span(from, to) = {},
         region' \in [Regions -> Region],
         \A t \in Regions \ {r} : region'[t] = region[t],
         region'[r].state = region[r].state, region'[r].mm = region[r].mm,
         region'[r].vm_from_pool = region[r].vm_from_pool,
         region'[r].vm_start = lo, region'[r].vm_end = end, region'[r].vm_top = hi,
         job' = [job EXCEPT ![p] = job'[p]], job'[p] \in Job,
         job'[p].op = "free_part", job'[p].vm = r, job'[p].from = from, job'[p].to = to,
         UNCHANGED <<user_pool, pool_free, buddy_free, region_sem>>
  PROVE  IInv'
  <1> USE DEF IInv
  <1>1. region[r].state = "mapped" /\ region[r].mm = p
    BY DEF Bookkeeping
  <1>2. TypeOK'
    BY DEF TypeOK, Region, Job
  <1>3. /\ region'[r].vm_start = lo /\ region'[r].vm_end = end /\ region'[r].vm_top = hi
        /\ region'[r].state = "mapped" /\ region'[r].mm = p
        /\ region'[r].vm_from_pool = region[r].vm_from_pool
    BY <1>1 DEF TypeOK, Region
  <1>4. /\ Held(r) = Span(region[r].vm_start, region[r].vm_top)
        /\ Held(r)' = Span(lo, hi)
    BY <1>1, <1>3 DEF Held
  <1>5. \A t \in Regions \ {r} : region'[t] = region[t] /\ Held(t)' = Held(t)
    BY DEF Held, TypeOK
  <1>6. \A q \in Procs \ {p} : job'[q] = job[q] /\ InFlight(q)' = InFlight(q)
                               /\ (job[q].op # "idle" => job[q].vm # r)
    BY <1>1 DEF InFlight, TypeOK, Bookkeeping
  <1>7. /\ job'[p].op = "free_part" /\ job'[p].vm = r
        /\ InFlight(p) = {} /\ InFlight(p)' = Span(from, to)
    BY DEF InFlight, TypeOK
  <1>8. Held(r) = Held(r)' \cup InFlight(p)' /\ Held(r)' \cap InFlight(p)' = {}
    BY <1>4, <1>7
  <1>9. Bookkeeping'
    <2>1. \A t \in Regions : region'[t].vm_start <= region'[t].vm_end
                             /\ region'[t].vm_end <= region'[t].vm_top
      BY <1>3, <1>5 DEF Bookkeeping
    <2> QED
      BY <1>3, <1>5, <1>6, <1>7, <2>1 DEF Bookkeeping
  <1>10. Free' = Free
    BY DEF Free
  <1>11. NoAliasing'
    <2>1. \A t \in Regions : Held(t)' \subseteq Held(t)
      BY <1>5, <1>8
    <2>2. \A t \in Regions : t # r => Held(t) \cap Held(r) = {}
      BY DEF NoAliasing
    <2>3. \A t \in Regions : Held(t)' \cap InFlight(p)' = {}
      BY <1>5, <1>8, <2>2
    <2>4. InFlight(p)' \cap Free = {}
      BY <1>8 DEF NoAliasing
    <2>5. \A q \in Procs : q # p => InFlight(q) \cap InFlight(p)' = {}
      BY <1>8 DEF NoAliasing
    <2>6. \A t \in Regions, q \in Procs : Held(t)' \cap InFlight(q)' = {}
      BY <1>6, <2>1, <2>3 DEF NoAliasing
    <2>7. \A q1, q2 \in Procs : q1 # q2 => InFlight(q1)' \cap InFlight(q2)' = {}
      BY <1>6, <2>5 DEF NoAliasing
    <2>8. \A t \in Regions : Held(t)' \cap Free' = {}
      BY <1>10, <2>1 DEF NoAliasing
    <2>9. \A q \in Procs : InFlight(q)' \cap Free' = {}
      BY <1>6, <1>10, <2>4 DEF NoAliasing
    <2>10. \A t, u \in Regions : t # u => Held(t)' \cap Held(u)' = {}
      BY <2>1 DEF NoAliasing
    <2> QED
      BY <2>6, <2>7, <2>8, <2>9, <2>10 DEF NoAliasing
  <1>12. HomeAllocator'
    <2>1. \A t \in Regions :
            /\ Held(t)' \subseteq Held(t)
            /\ region'[t].vm_from_pool = region[t].vm_from_pool
      BY <1>3, <1>5, <1>8
    <2>2. InFlight(p)' \subseteq IF region[r].vm_from_pool THEN Pool ELSE Buddy
      BY <1>8 DEF HomeAllocator
    <2>3. \A q \in Procs \ {p} : job[q].op = "free_part" => job[q].vm \in Regions
      BY DEF Bookkeeping
    <2>4. \A t \in Regions : Held(t)' \subseteq IF region'[t].vm_from_pool THEN Pool ELSE Buddy
      BY <2>1 DEF HomeAllocator
    <2>5. ASSUME NEW q \in Procs, job'[q].op = "free_part"
          PROVE  InFlight(q)' \subseteq IF region'[job'[q].vm].vm_from_pool THEN Pool ELSE Buddy
      <3>1. CASE q = p
        BY <1>7, <2>1, <2>2, <3>1
      <3>2. CASE q # p
        BY <1>6, <2>1, <2>3, <2>5, <3>2 DEF HomeAllocator
      <3> QED
        BY <3>1, <3>2
    <2> QED
      BY <2>4, <2>5 DEF HomeAllocator
  <1>13. NoLeak'
    <2> SUFFICES ASSUME NEW x \in IF user_pool THEN Pages ELSE Buddy
                 PROVE  \/ x \in Free'
                        \/ \E t \in Regions : x \in Held(t)'
                        \/ \E q \in Procs : x \in InFlight(q)'
      BY DEF NoLeak
    <2>1. CASE \E t \in Regions : x \in Held(t)
      BY <1>5, <1>8, <2>1
    <2>2. CASE \E q \in Procs : x \in InFlight(q)
      BY <1>6, <1>7, <2>2
    <2> QED
      BY <1>10, <2>1, <2>2 DEF NoLeak
  <1> QED
    BY <1>2, <1>9, <1>11, <1>12, <1>13

\* split_vma divides one region's pages between two and moves none of them.
LEMMA SplitIInv ==
  ASSUME IInv, NEW p \in Procs, NEW r \in Regions, NEW new \in Regions,
         NEW from \in Addr, NEW to \in Addr, SplitVma(p, r, new, from, to)
  PROVE  IInv'
  <1> USE DEF IInv, SplitVma, Mapped, Unused
  <1> DEFINE low == [region[r] EXCEPT !.vm_end = from, !.vm_top = from]
  <1>1. r # new
    OBVIOUS
  <1>2. region'[new] = low /\ region'[r] = [region[r] EXCEPT !.vm_start = from]
    BY <1>1 DEF TypeOK
  <1>3. \A t \in Regions \ {r, new} : region'[t] = region[t] /\ Held(t)' = Held(t)
    BY DEF Held, TypeOK
  <1>4. TypeOK'
    <2>0. region[r] \in Region
      BY DEF TypeOK
    <2>1. low \in Region /\ region'[r] \in Region
      BY <1>2, <2>0, MoveBound
    <2>2. [op |-> "shrink", vm |-> r, from |-> from, to |-> to] \in Job
      BY DEF Job
    <2> QED
      BY <1>2, <2>1, <2>2 DEF TypeOK
  <1>5. /\ region[r].vm_start \in Nat /\ region[r].vm_end \in Nat
        /\ region[r].vm_top \in Nat /\ from \in Nat /\ to \in Nat
    BY PagesAssumption DEF TypeOK, Region, Addr
  <1>6. region[r].vm_end <= region[r].vm_top /\ region[r].vm_start <= region[r].vm_end
    BY DEF Bookkeeping
  <1>7. /\ low.vm_start = region[r].vm_start /\ low.vm_end = from /\ low.vm_top = from
        /\ low.state = "mapped" /\ low.mm = p
        /\ low.vm_from_pool = region[r].vm_from_pool
        /\ region'[r].vm_start = from /\ region'[r].vm_end = region[r].vm_end
        /\ region'[r].vm_top = region[r].vm_top
        /\ region'[r].state = "mapped" /\ region'[r].mm = p
        /\ region'[r].vm_from_pool = region[r].vm_from_pool
    BY <1>2 DEF TypeOK, Region
  <1> HIDE DEF low
  <1>8. /\ Held(r) = Span(region[r].vm_start, region[r].vm_top) /\ Held(new) = {}
        /\ Held(new)' = Span(region[r].vm_start, from)
        /\ Held(r)' = Span(from, region[r].vm_top)
    BY <1>2, <1>7 DEF Held
  <1>9. from <= region[r].vm_top
    BY <1>5, <1>6
  <1>10. Held(r) = Held(new)' \cup Held(r)' /\ Held(new)' \cap Held(r)' = {}
    BY <1>5, <1>8, <1>9, SpanCut
  <1>11. \A q \in Procs \ {p} : job'[q] = job[q] /\ InFlight(q)' = InFlight(q)
                                /\ (job[q].op # "idle" => job[q].vm \notin {r, new})
    BY DEF InFlight, TypeOK, Bookkeeping
  <1>12. /\ job'[p] = [op |-> "shrink", vm |-> r, from |-> from, to |-> to]
         /\ InFlight(p) = {} /\ InFlight(p)' = {}
    BY DEF InFlight, TypeOK
  <1>13. \A q \in Procs : InFlight(q)' = InFlight(q)
    BY <1>11, <1>12
  <1>14. Bookkeeping'
    <2>1. \A t \in Regions : region'[t].vm_start <= region'[t].vm_end
                             /\ region'[t].vm_end <= region'[t].vm_top
      <3>1. \A t \in Regions \ {r, new} : region'[t].vm_start <= region'[t].vm_end
                                          /\ region'[t].vm_end <= region'[t].vm_top
        BY <1>3 DEF Bookkeeping
      <3>2. region'[new].vm_start <= region'[new].vm_end /\ region'[new].vm_end <= region'[new].vm_top
        BY <1>2, <1>5, <1>7
      <3>3. region'[r].vm_start <= region'[r].vm_end /\ region'[r].vm_end <= region'[r].vm_top
        BY <1>5, <1>6, <1>7
      <3> QED
        BY <3>1, <3>2, <3>3
    <2>2. \A q \in Procs \ {p} : job[q].op # "idle" =>
            job[q].vm \in Regions /\ region'[job[q].vm] = region[job[q].vm]
      BY <1>3, <1>11 DEF Bookkeeping
    <2>3. from <= to /\ from < to /\ to <= region[r].vm_end
      BY <1>5
    <2>4. \A q \in Procs \ {p} : job'[q] = job[q]
      BY <1>11
    <2>5. /\ job'[p].op = "shrink" /\ job'[p].vm = r
          /\ job'[p].from = from /\ job'[p].to = to
      BY <1>12
    <2> HIDE DEF SplitVma
    <2> QED
      BY <1>5, <1>7, <2>1, <2>2, <2>3, <2>4, <2>5 DEF Bookkeeping
  <1>15. Free' = Free
    BY DEF Free
  <1>16. NoAliasing'
    <2>1. \A t, u \in Regions : t # u => Held(t)' \cap Held(u)' = {}
      <3>1. \A t \in Regions \ {r, new} : Held(t) \cap Held(r) = {}
        BY DEF NoAliasing
      <3>2. \A t, u \in Regions \ {r, new} : t # u => Held(t)' \cap Held(u)' = {}
        BY <1>3 DEF NoAliasing
      <3>3. \A t \in Regions \ {r, new} : Held(t)' \cap Held(r)' = {}
                                          /\ Held(t)' \cap Held(new)' = {}
        BY <1>3, <1>10, <3>1
      <3> QED
        BY <1>10, <3>2, <3>3
    <2>2. \A t \in Regions, q \in Procs : Held(t)' \cap InFlight(q)' = {}
      BY <1>3, <1>10, <1>13 DEF NoAliasing
    <2>3. \A q1, q2 \in Procs : q1 # q2 => InFlight(q1)' \cap InFlight(q2)' = {}
      BY <1>13 DEF NoAliasing
    <2>4. \A t \in Regions : Held(t)' \cap Free' = {}
      BY <1>3, <1>10, <1>15 DEF NoAliasing
    <2>5. \A q \in Procs : InFlight(q)' \cap Free' = {}
      BY <1>13, <1>15 DEF NoAliasing
    <2> QED
      BY <2>1, <2>2, <2>3, <2>4, <2>5 DEF NoAliasing
  <1>17. HomeAllocator'
    <2>1. Held(r) \subseteq IF region[r].vm_from_pool THEN Pool ELSE Buddy
      BY DEF HomeAllocator
    <2>2. ASSUME NEW t \in Regions
          PROVE  Held(t)' \subseteq IF region'[t].vm_from_pool THEN Pool ELSE Buddy
      <3>1. CASE t = r
        BY <1>7, <1>10, <2>1, <3>1
      <3>2. CASE t = new
        BY <1>2, <1>7, <1>10, <2>1, <3>2
      <3>3. CASE t \notin {r, new}
        BY <1>3, <3>3 DEF HomeAllocator
      <3> QED
        BY <3>1, <3>2, <3>3
    <2>3. \A q \in Procs : job'[q].op = "free_part" =>
            /\ job'[q] = job[q]
            /\ region'[job'[q].vm] = region[job[q].vm]
      <3>1. ASSUME NEW q \in Procs, job'[q].op = "free_part"
            PROVE  q # p /\ job'[q] = job[q] /\ job[q].op = "free_part"
        BY <1>11, <1>12, <3>1
      <3>2. \A q \in Procs \ {p} : job[q].op = "free_part" =>
              job[q].vm \in Regions \ {r, new}
        BY <1>11 DEF Bookkeeping
      <3>3. \A q \in Procs \ {p} : job[q].op = "free_part" =>
              region'[job[q].vm] = region[job[q].vm]
        BY <1>3, <3>2
      <3> HIDE DEF SplitVma, IInv
      <3> QED
        BY <3>1, <3>3
    <2>4. ASSUME NEW q \in Procs, job'[q].op = "free_part"
          PROVE  InFlight(q)' \subseteq IF region'[job'[q].vm].vm_from_pool THEN Pool ELSE Buddy
      <3>1. job'[q] = job[q] /\ region'[job'[q].vm] = region[job[q].vm]
        BY <2>3, <2>4
      <3>2. InFlight(q) \subseteq IF region[job[q].vm].vm_from_pool THEN Pool ELSE Buddy
        BY <2>4, <3>1 DEF HomeAllocator
      <3> QED
        BY <1>13, <3>1, <3>2
    <2> QED
      BY <2>2, <2>4 DEF HomeAllocator
  <1>18. NoLeak'
    <2> SUFFICES ASSUME NEW x \in IF user_pool THEN Pages ELSE Buddy
                 PROVE  \/ x \in Free'
                        \/ \E t \in Regions : x \in Held(t)'
                        \/ \E q \in Procs : x \in InFlight(q)'
      BY DEF NoLeak
    <2>1. CASE \E t \in Regions : x \in Held(t)
      BY <1>3, <1>8, <1>10, <2>1
    <2> QED
      BY <1>13, <1>15, <2>1 DEF NoLeak
  <1> QED
    BY <1>4, <1>14, <1>16, <1>17, <1>18

----------------------------------------------------------------------------

\* A process in the middle of a munmap or mmap is the only one whose job is
\* about its region.
LEMMA OneJobPerRegion ==
  ASSUME IInv, NEW p \in Procs, NEW r \in Regions, region[r].mm = p
  PROVE  \A q \in Procs \ {p} : job[q].op # "idle" => job[q].vm # r
  BY DEF IInv, Bookkeeping

\* Every step of one process keeps the invariant.
LEMMA StepIInv ==
  ASSUME IInv, NEW p \in Procs, Step(p)
  PROVE  IInv'
  <1>0. TypeOK /\ Bookkeeping
    BY DEF IInv
  <1>1. ASSUME NEW r \in Regions, NEW len \in 1 .. MaxLen, NEW s \in Pages,
               MmapFromPool(p, r, len, s)
        PROVE  IInv'
    <2>1. Span(s, s + len) \subseteq pool_free
      BY <1>1 DEF MmapFromPool, FirstFit, PoolRuns
    <2>2. len \in Nat /\ len >= len
      BY LenAssumption
    <2> QED
      BY <1>1, <2>1, <2>2, AllocIInv DEF MmapFromPool
  <1>2. ASSUME NEW r \in Regions, NEW len \in 1 .. MaxLen, NEW s \in Pages,
               MmapFromBuddy(p, r, len, s)
        PROVE  IInv'
    <2>1. Span(s, s + RoundUp[len]) \subseteq buddy_free
      BY <1>2 DEF MmapFromBuddy, BuddyRuns
    <2>2. RoundUp[len] \in Nat /\ RoundUp[len] >= len
      BY LenAssumption
    <2> QED
      BY <1>2, <2>1, <2>2, AllocIInv DEF MmapFromBuddy
  <1>3. CASE MmapDone(p)
    <2> DEFINE r == job[p].vm
    <2>1. r \in Regions /\ region[r].state = "loading" /\ region[r].mm = p
      BY <1>0, <1>3 DEF MmapDone, Bookkeeping
    <2>2. 0 \in Addr
      BY PagesAssumption DEF Addr
    <2>3. Idle \in Job /\ Idle.op = "idle"
      BY <2>2 DEF Idle, Job
    <2>4. /\ region'[r].state = "mapped"
          /\ region' \in [Regions -> Region]
          /\ \A t \in Regions \ {r} : region'[t] = region[t]
          /\ region'[r].mm = p /\ region'[r].vm_from_pool = region[r].vm_from_pool
          /\ region'[r].vm_start = region[r].vm_start
          /\ region'[r].vm_end = region[r].vm_end /\ region'[r].vm_top = region[r].vm_top
          /\ job'[p] = Idle /\ job' \in [Procs -> Job]
          /\ \A q \in Procs \ {p} : job'[q] = job[q]
      BY <1>0, <1>3, <2>1, <2>3 DEF MmapDone, TypeOK, Region, RegionState
    <2>5. \A q \in Procs \ {p} : job[q].op # "idle" => job[q].vm # r
      BY <2>1, OneJobPerRegion
    <2>6. /\ job[p].op # "free_part" /\ region_sem' \in BOOLEAN
          /\ UNCHANGED <<user_pool, pool_free, buddy_free>>
      BY <1>3 DEF MmapDone
    <2> QED
      BY <2>1, <2>3, <2>4, <2>5, <2>6, RelabelIInv
  <1>4. CASE MmapReadError(p)
    <2>1. job[p].vm \in Regions
      BY <1>0, <1>4 DEF MmapReadError, Bookkeeping
    <2> QED
      BY <1>4, <2>1, DropIInv DEF MmapReadError
  <1>5. ASSUME NEW r \in Regions, PutRegion(p, r)
        PROVE  IInv'
    <2>1. 0 \in Addr
      BY PagesAssumption DEF Addr
    <2>2. /\ region'[r].state = "dying"
          /\ region' \in [Regions -> Region]
          /\ \A t \in Regions \ {r} : region'[t] = region[t]
          /\ region'[r].mm = p /\ region'[r].vm_from_pool = region[r].vm_from_pool
          /\ region'[r].vm_start = region[r].vm_start
          /\ region'[r].vm_end = region[r].vm_end /\ region'[r].vm_top = region[r].vm_top
      BY <1>0, <1>5 DEF PutRegion, Mapped, TypeOK, Region, RegionState
    <2>3. /\ job'[p].op = "free_all" /\ job'[p].vm = r
          /\ job' \in [Procs -> Job]
          /\ \A q \in Procs \ {p} : job'[q] = job[q]
      BY <1>0, <1>5, <2>1 DEF PutRegion, TypeOK, Job
    <2>4. region[r].state # "unused" /\ region[r].mm = p /\ job[p].op = "idle"
      BY <1>5 DEF PutRegion, Mapped
    <2>5. region_sem' \in BOOLEAN /\ UNCHANGED <<user_pool, pool_free, buddy_free>>
      BY <1>0, <1>5 DEF PutRegion, TypeOK
    <2>6. \A q \in Procs \ {p} : job[q].op # "idle" => job[q].vm # r
      BY <2>4, OneJobPerRegion
    <2> QED
      BY <2>2, <2>3, <2>4, <2>5, <2>6, RelabelIInv
  <1>6. ASSUME NEW r \in Regions, NEW from \in Addr, NEW to \in Addr,
               MunmapEnd(p, r, from, to)
        PROVE  IInv'
    <2>1. /\ job'[p].op = "shrink" /\ job'[p].vm = r
          /\ job'[p].from = from /\ job'[p].to = to
          /\ job' \in [Procs -> Job]
          /\ \A q \in Procs \ {p} : job'[q] = job[q]
      BY <1>0, <1>6 DEF MunmapEnd, TypeOK, Job
    <2>3. /\ region[r].state = "mapped" /\ region[r].mm = p /\ job[p].op = "idle"
          /\ region[r].vm_start <= from /\ from < to /\ to <= region[r].vm_end
          /\ region' = region
      BY <1>6 DEF MunmapEnd, Mapped
    <2>4. region' \in [Regions -> Region]
      BY <1>0, <2>3 DEF TypeOK
    <2>5. region_sem' \in BOOLEAN /\ UNCHANGED <<user_pool, pool_free, buddy_free>>
      BY <1>0, <1>6 DEF MunmapEnd, TypeOK
    <2>6. \A q \in Procs \ {p} : job[q].op # "idle" => job[q].vm # r
      BY <2>3, OneJobPerRegion
    <2> QED
      BY <2>1, <2>3, <2>4, <2>5, <2>6, RelabelIInv
  <1>7. ASSUME NEW r \in Regions, NEW new \in Regions,
               NEW from \in Addr, NEW to \in Addr, SplitVma(p, r, new, from, to)
        PROVE  IInv'
    BY <1>7, SplitIInv
  <1>8. ASSUME NEW r \in Regions, job[p].vm = r, CutTail(p)
        PROVE  IInv'
    <2> DEFINE from == job[p].from
               top == region[r].vm_top
               lo == region[r].vm_start
    <2>1. region[r] \in Region /\ job[p] \in Job
      BY <1>0 DEF TypeOK
    <2>2. lo \in Addr /\ top \in Addr /\ from \in Addr
      BY <2>1 DEF Region, Job
    <2>3. lo <= from /\ from <= top /\ job[p].op = "shrink"
      <3>1. /\ region[r].vm_end <= top /\ lo <= from
            /\ from < job[p].to /\ job[p].to <= region[r].vm_end /\ job[p].op = "shrink"
        BY <1>0, <1>8 DEF CutTail, Bookkeeping
      <3>2. region[r].vm_end \in Nat /\ job[p].to \in Nat /\ from \in Nat /\ top \in Nat
        BY <2>1, PagesAssumption DEF Region, Job, Addr
      <3> QED
        BY <3>1, <3>2
    <2>4. region' = [region EXCEPT ![r] =
                       [region[r] EXCEPT !.vm_end = from, !.vm_top = from]]
      BY <1>8 DEF CutTail
    <2>5. /\ region' \in [Regions -> Region]
          /\ \A t \in Regions \ {r} : region'[t] = region[t]
          /\ region'[r].state = region[r].state /\ region'[r].mm = region[r].mm
          /\ region'[r].vm_from_pool = region[r].vm_from_pool
          /\ region'[r].vm_start = lo /\ region'[r].vm_end = from /\ region'[r].vm_top = from
      <3>1. [region[r] EXCEPT !.vm_end = from, !.vm_top = from] \in Region
        BY <2>1, <2>2, MoveBound
      <3> QED
        BY <1>0, <2>1, <2>4, <3>1 DEF TypeOK, Region
    <2>9. /\ job' = [job EXCEPT ![p] = job'[p]] /\ job'[p] \in Job
          /\ job'[p].op = "free_part" /\ job'[p].vm = r
          /\ job'[p].from = from /\ job'[p].to = top
      <3>1. job' = [job EXCEPT ![p] = [job[p] EXCEPT !.op = "free_part", !.to = top]]
        BY <1>8 DEF CutTail
      <3>2. /\ [job[p] EXCEPT !.op = "free_part"] \in Job
            /\ \A j \in Job : [j EXCEPT !.to = top] \in Job
        BY <2>1, <2>2 DEF Job
      <3>3. [job[p] EXCEPT !.op = "free_part", !.to = top] \in Job
        BY <3>2
      <3> QED
        BY <1>0, <1>8, <2>1, <3>1, <3>3 DEF TypeOK, Job
    <2>6. /\ Span(lo, from) \cup Span(from, top) = Span(lo, top)
          /\ Span(lo, from) \cap Span(from, top) = {}
      BY <2>2, <2>3, SpanCut, PagesAssumption DEF Addr
    <2>7. UNCHANGED <<user_pool, pool_free, buddy_free, region_sem>>
      BY <1>8 DEF CutTail
    <2>8. from <= from
      BY <2>2, PagesAssumption DEF Addr
    <2> QED
      BY <1>8, <2>2, <2>3, <2>5, <2>6, <2>7, <2>8, <2>9, CutIInv
  <1>9. ASSUME NEW r \in Regions, job[p].vm = r, CutHead(p)
        PROVE  IInv'
    <2> DEFINE to == job[p].to
               from == job[p].from
               end == region[r].vm_end
               top == region[r].vm_top
    <2>1. region[r] \in Region /\ job[p] \in Job
      BY <1>0 DEF TypeOK
    <2>2. end \in Addr /\ top \in Addr /\ from \in Addr /\ to \in Addr
      BY <2>1 DEF Region, Job
    <2>3. /\ from = region[r].vm_start /\ from < to /\ to <= end /\ end <= top
          /\ job[p].op = "shrink"
      BY <1>0, <1>9 DEF CutHead, Bookkeeping
    <2>4. /\ region' \in [Regions -> Region]
          /\ \A t \in Regions \ {r} : region'[t] = region[t]
          /\ region'[r].state = region[r].state /\ region'[r].mm = region[r].mm
          /\ region'[r].vm_from_pool = region[r].vm_from_pool
          /\ region'[r].vm_start = to /\ region'[r].vm_end = end /\ region'[r].vm_top = top
      <3>1. region' = [region EXCEPT ![r].vm_start = to]
        BY <1>9 DEF CutHead
      <3>2. [region[r] EXCEPT !.vm_start = to] \in Region
        BY <2>1, <2>2, MoveBound
      <3> QED
        BY <1>0, <2>1, <3>1, <3>2 DEF TypeOK, Region
    <2>5. /\ job' = [job EXCEPT ![p] = job'[p]] /\ job'[p] \in Job
          /\ job'[p].op = "free_part" /\ job'[p].vm = r
          /\ job'[p].from = from /\ job'[p].to = to
      BY <1>0, <1>9, <2>1 DEF CutHead, TypeOK, Job
    <2>6. /\ Span(to, top) \cup Span(from, to) = Span(from, top)
          /\ Span(to, top) \cap Span(from, to) = {}
      <3>1. from \in Nat /\ to \in Nat /\ top \in Nat /\ from <= to /\ to <= top
        BY <2>2, <2>3, PagesAssumption DEF Addr
      <3> QED
        BY <3>1, SpanCut
    <2>7. UNCHANGED <<user_pool, pool_free, buddy_free, region_sem>>
      BY <1>9 DEF CutHead
    <2> QED
      BY <1>9, <2>2, <2>3, <2>4, <2>5, <2>6, <2>7, CutIInv
  <1>10. CASE ShrinkFree(p)
    BY <1>10, ShrinkFreeIInv
  <1>11. CASE PutRegionFree(p)
    <2>1. job[p].vm \in Regions
      BY <1>0, <1>11 DEF PutRegionFree, Bookkeeping
    <2> QED
      BY <1>0, <1>11, <2>1, DropIInv DEF PutRegionFree, TypeOK
  <1>12. (CutTail(p) \/ CutHead(p)) => job[p].vm \in Regions
    BY <1>0 DEF CutTail, CutHead, Bookkeeping
  <1> QED
    BY <1>1, <1>2, <1>3, <1>4, <1>5, <1>6, <1>7, <1>8, <1>9, <1>10, <1>11, <1>12
       DEF Step, Mmap, Munmap

\* A stuttering step keeps the invariant.
LEMMA StutterIInv == IInv /\ UNCHANGED vars => IInv'
  <1> SUFFICES ASSUME IInv, UNCHANGED vars PROVE IInv'
    OBVIOUS
  <1> USE DEF IInv, vars
  <1>1. /\ \A r \in Regions : Held(r)' = Held(r)
        /\ \A p \in Procs : InFlight(p)' = InFlight(p)
        /\ Free' = Free
    BY DEF Held, InFlight, Free
  <1>2. TypeOK'
    BY DEF TypeOK
  <1>3. Bookkeeping'
    BY DEF Bookkeeping
  <1>4. NoAliasing'
    BY <1>1 DEF NoAliasing
  <1>5. HomeAllocator'
    BY <1>1 DEF HomeAllocator
  <1>6. NoLeak'
    BY <1>1 DEF NoLeak
  <1> QED
    BY <1>2, <1>3, <1>4, <1>5, <1>6

\* Every reachable state satisfies the inductive invariant.
THEOREM Safety == Spec => []IInv
  <1>1. IInv /\ [Next]_vars => IInv'
    BY StepIInv, StutterIInv DEF Next
  <1> QED
    BY <1>1, InitIInv, PTL DEF Spec

\* Type correctness: every field of every region and job stays a page address,
\* for whatever pool, buddy allocator and number of processes.
THEOREM TypeCorrect == Spec => []TypeOK
  <1>1. IInv => TypeOK
    BY DEF IInv
  <1> QED
    BY <1>1, Safety, PTL

\* No page is ever in two hands: the frees that run after nommu_region_sem is
\* dropped never give back a page a region still has.
THEOREM Aliasing == Spec => []NoAliasing
  <1>1. IInv => NoAliasing
    BY DEF IInv
  <1> QED
    BY <1>1, Safety, PTL

\* Every page is given back to the allocator it came from, through splits,
\* partial unmappings and failed reads.
THEOREM Home == Spec => []HomeAllocator
  <1>1. IInv => HomeAllocator
    BY DEF IInv
  <1> QED
    BY <1>1, Safety, PTL

\* No page is ever lost.
THEOREM Leak == Spec => []NoLeak
  <1>1. IInv => NoLeak
    BY DEF IInv
  <1> QED
    BY <1>1, Safety, PTL

----------------------------------------------------------------------------
(* The refinement of PageLedger.                                           *)

Mms == Procs \cup {NoMm}

\* The address space m has page x in a region, or in what it has cut off one.
Hand(x, m) ==
  \/ \E r \in Regions : region[r].mm = m /\ x \in Held(r)
  \/ m \in Procs /\ x \in InFlight(m)

\* The page is unmapped and not yet back.
Gone(x) ==
  \/ \E r \in Regions : region[r].state = "dying" /\ x \in Held(r)
  \/ \E p \in Procs : x \in InFlight(p)

\* Since no page is in two hands, the one it is in is its owner.
OwnersOK ==
  \A x \in Pages :
    /\ \A m \in Mms : Hand(x, m) => Owner(x) = m
    /\ (\A m \in Mms : ~Hand(x, m)) => Owner(x) = NoMm

LEMMA Owners == IInv => OwnersOK
  <1> SUFFICES ASSUME IInv, NEW x \in Pages
               PROVE  /\ \A m \in Mms : Hand(x, m) => Owner(x) = m
                      /\ (\A m \in Mms : ~Hand(x, m)) => Owner(x) = NoMm
    BY DEF OwnersOK
  <1>1. NoAliasing /\ \A r \in Regions : region[r].mm \in Mms
    BY DEF IInv, TypeOK, Region, Mms
  <1>2. ASSUME NEW r \in Regions, x \in Held(r)
        PROVE  /\ Owner(x) = region[r].mm
               /\ \A m \in Mms : Hand(x, m) => m = region[r].mm
    <2>1. \A t \in Regions : x \in Held(t) => t = r
      BY <1>1, <1>2 DEF NoAliasing
    <2>2. (CHOOSE t \in Regions : x \in Held(t)) = r
      BY <1>2, <2>1
    <2>3. \A q \in Procs : x \notin InFlight(q)
      BY <1>1, <1>2 DEF NoAliasing
    <2>4. Owner(x) = region[r].mm
      BY <1>2, <2>2 DEF Owner
    <2> QED
      BY <2>1, <2>3, <2>4 DEF Hand
  <1>3. ASSUME NEW p \in Procs, x \in InFlight(p)
        PROVE  /\ Owner(x) = p
               /\ \A m \in Mms : Hand(x, m) => m = p
    <2>1. \A t \in Regions : x \notin Held(t)
      BY <1>1, <1>3 DEF NoAliasing
    <2>2. \A q \in Procs : x \in InFlight(q) => q = p
      BY <1>1, <1>3 DEF NoAliasing
    <2>3. (CHOOSE q \in Procs : x \in InFlight(q)) = p
      BY <1>3, <2>2
    <2>4. Owner(x) = p
      BY <1>3, <2>1, <2>3 DEF Owner
    <2> QED
      BY <2>1, <2>2, <2>4 DEF Hand
  <1>4. ASSUME \A r \in Regions : x \notin Held(r), \A p \in Procs : x \notin InFlight(p)
        PROVE  Owner(x) = NoMm /\ \A m \in Mms : ~Hand(x, m)
    BY <1>4 DEF Owner, Hand
  <1>5. ASSUME NEW m \in Mms, Hand(x, m)
        PROVE  Owner(x) = m
    BY <1>2, <1>3, <1>5 DEF Hand
  <1>6. ASSUME \A m \in Mms : ~Hand(x, m)
        PROVE  Owner(x) = NoMm
    <2>1. \A r \in Regions : x \notin Held(r)
      BY <1>1, <1>6 DEF Hand
    <2>2. \A p \in Procs : x \notin InFlight(p)
      BY <1>6 DEF Hand, Mms
    <2> QED
      BY <1>4, <2>1, <2>2
  <1> QED
    BY <1>5, <1>6

LEMMA OwnersNext == IInv' => OwnersOK'
  BY Owners, PTL

\* A page stays whose it is if it stays in the same hands.
LEMMA SameOwner ==
  ASSUME IInv, IInv', NEW x \in Pages, \A m \in Mms : Hand(x, m)' <=> Hand(x, m)
  PROVE  Owner(x)' = Owner(x)
  <1>1. OwnersOK /\ OwnersOK'
    BY Owners, OwnersNext
  <1>2. CASE \E m \in Mms : Hand(x, m)
    <2>1. PICK m \in Mms : Hand(x, m)
      BY <1>2
    <2>2. Owner(x) = m
      BY <1>1, <2>1 DEF OwnersOK
    <2>3. Owner(x)' = m
      BY <1>1, <2>1 DEF OwnersOK
    <2> QED
      BY <2>2, <2>3
  <1>3. CASE \A m \in Mms : ~Hand(x, m)
    <2>1. Owner(x) = NoMm
      BY <1>1, <1>3 DEF OwnersOK
    <2>2. Owner(x)' = NoMm
      BY <1>1, <1>3 DEF OwnersOK
    <2> QED
      BY <2>1, <2>2
  <1> QED
    BY <1>2, <1>3

\* The pages of one allocator from s up to t are a run of the ledger's.
LEMMA RunOf ==
  ASSUME NEW a \in Nat, NEW b \in Nat, Span(a, b) # {},
         Span(a, b) \subseteq Pool \/ Span(a, b) \subseteq Buddy
  PROVE  Span(a, b) \in Ledger!Runs
  <1>1. a \in Span(a, b) /\ b - 1 \in Span(a, b) /\ Span(a, b) = a .. b - 1
    BY DEF Span
  <1>2. CASE Span(a, b) \subseteq Pool
    BY <1>1, <1>2 DEF Ledger!Runs
  <1>3. CASE Span(a, b) \subseteq Buddy
    BY <1>1, <1>3 DEF Ledger!Runs
  <1> QED
    BY <1>2, <1>3

\* What the ledger sees of a step, from what the step does to hands.
LEMMA LedgerIdle ==
  ASSUME IInv, IInv', Free' = Free,
         \A x \in Pages : (Gone(x)' <=> Gone(x)) /\ \A m \in Mms : Hand(x, m)' <=> Hand(x, m)
  PROVE  UNCHANGED Ledger!ledgerVars
  <1>1. \A x \in Pages : Owner(x)' = Owner(x)
    BY SameOwner
  <1>2. Leaving' = Leaving
    BY DEF Leaving, Gone
  <1> QED
    BY <1>1, <1>2 DEF Ledger!ledgerVars

LEMMA LedgerLend ==
  ASSUME IInv, IInv', NEW p \in Procs, NEW S \in Ledger!Runs, S \subseteq Free,
         Free' = Free \ S,
         \A x \in Pages : Gone(x)' <=> Gone(x),
         \A x \in S : Hand(x, p)',
         \A x \in Pages \ S : \A m \in Mms : Hand(x, m)' <=> Hand(x, m)
  PROVE  Ledger!LedgerNext
  <1>1. \A x \in Pages \ S : Owner(x)' = Owner(x)
    BY SameOwner
  <1>2. \A x \in Pages \cap S : Owner(x)' = p
    BY OwnersNext DEF OwnersOK, Mms
  <1>3. Leaving' = Leaving
    BY DEF Leaving, Gone
  <1>4. Ledger!Lend(p, S)
    BY <1>1, <1>2, <1>3 DEF Ledger!Lend, Ledger!Pages, Pages
  <1> QED
    BY <1>4 DEF Ledger!LedgerNext

LEMMA LedgerUnmap ==
  ASSUME IInv, IInv', NEW p \in Procs, NEW S \in Ledger!Runs, S \subseteq Pages,
         Free' = Free,
         \A x \in S : Hand(x, p) /\ ~Gone(x),
         \A x \in Pages : Gone(x)' <=> Gone(x) \/ x \in S,
         \A x \in Pages : \A m \in Mms : Hand(x, m)' <=> Hand(x, m)
  PROVE  Ledger!LedgerNext
  <1>1. \A x \in Pages : Owner(x)' = Owner(x)
    BY SameOwner
  <1>2. \A x \in S : Owner(x) = p
    BY Owners DEF OwnersOK, Mms
  <1>3. Leaving' = Leaving \cup S /\ S \cap Leaving = {}
    BY DEF Leaving, Gone
  <1>4. Ledger!Unmap(p, S)
    BY <1>1, <1>2, <1>3 DEF Ledger!Unmap, Ledger!OwnedBy, Ledger!Pages, Pages
  <1> QED
    BY <1>4 DEF Ledger!LedgerNext

LEMMA LedgerTakeBack ==
  ASSUME IInv, IInv', NEW p \in Procs, NEW S \in Ledger!Runs, S \subseteq Pages,
         Free' = Free \cup S,
         \A x \in S : Hand(x, p),
         \A x \in Pages : Gone(x)' <=> Gone(x) /\ x \notin S,
         \A x \in Pages \ S : \A m \in Mms : Hand(x, m)' <=> Hand(x, m)
  PROVE  Ledger!LedgerNext
  <1>1. \A x \in Pages \ S : Owner(x)' = Owner(x)
    BY SameOwner
  <1>2. \A x \in S : Owner(x) = p
    BY Owners DEF OwnersOK, Mms
  <1>3. \A x \in S : Owner(x)' = NoMm
    <2>1. \A x \in S : \A m \in Mms : ~Hand(x, m)'
      BY DEF IInv, NoAliasing, Hand
    <2> QED
      BY <2>1, OwnersNext DEF OwnersOK
  <1>4. Leaving' = Leaving \ S
    BY DEF Leaving, Gone
  <1>5. Ledger!TakeBack(p, S)
    BY <1>1, <1>2, <1>3, <1>4 DEF Ledger!TakeBack, Ledger!OwnedBy, Ledger!Pages, Pages
  <1> QED
    BY <1>5 DEF Ledger!LedgerNext

----------------------------------------------------------------------------

\* An allocation is a loan.
LEMMA AllocLedger ==
  ASSUME IInv, IInv', NEW p \in Procs, NEW r \in Regions, NEW len \in 1 .. MaxLen,
         NEW s \in Pages, NEW total \in Nat, total >= len,
         NEW fromPool \in BOOLEAN,
         job[p].op = "idle", Unused(r),
         DoMmapPrivate(p, r, s, len, total, fromPool),
         Span(s, s + total) \subseteq IF fromPool THEN pool_free ELSE buddy_free,
         pool_free' = IF fromPool THEN pool_free \ Span(s, s + total) ELSE pool_free,
         buddy_free' = IF fromPool THEN buddy_free ELSE buddy_free \ Span(s, s + total)
  PROVE  Ledger!LedgerNext
  <1> DEFINE S == Span(s, s + total)
  <1>1. TypeOK
    BY DEF IInv
  <1>2. S \in Ledger!Runs
    <2>1. s \in Nat /\ total > 0
      BY TwoAllocators, LenAssumption
    <2>2. S # {} /\ s + total \in Nat
      BY <2>1 DEF Span
    <2>3. S \subseteq Pool \/ S \subseteq Buddy
      BY <1>1 DEF TypeOK
    <2> QED
      BY <2>1, <2>2, <2>3, RunOf
  <1>3. S \subseteq Free /\ Free' = Free \ S
    BY <1>1, TwoAllocators DEF Free, TypeOK
  <1>4. Held(r)' = S /\ Held(r) = {} /\ region'[r].mm = p /\ region'[r].state = "loading"
    BY <1>1 DEF Held, Unused, DoMmapPrivate, TypeOK
  <1>5. \A t \in Regions \ {r} : region'[t] = region[t] /\ Held(t)' = Held(t)
    BY <1>1 DEF Held, DoMmapPrivate, TypeOK
  <1>6. \A q \in Procs : InFlight(q)' = InFlight(q)
    BY <1>1 DEF InFlight, DoMmapPrivate, TypeOK
  <1> HIDE DEF S
  <1>7. \A x \in Pages : Gone(x)' <=> Gone(x)
    BY <1>4, <1>5, <1>6 DEF Gone
  <1>8. \A x \in S : Hand(x, p)'
    BY <1>4 DEF Hand
  <1>9. \A x \in Pages \ S : \A m \in Mms : Hand(x, m)' <=> Hand(x, m)
    BY <1>4, <1>5, <1>6 DEF Hand
  <1> QED
    BY <1>2, <1>3, <1>7, <1>8, <1>9, LedgerLend

\* A failed load and the free after an unmap are taken back.
LEMMA DropLedger ==
  ASSUME IInv, IInv', NEW p \in Procs, NEW r \in Regions,
         job[p].op \in {"load", "free_all"}, job[p].vm = r,
         GiveBack(region[r].vm_from_pool, Span(region[r].vm_start, region[r].vm_top)),
         region' = [region EXCEPT ![r] = Zeroed],
         job' = [job EXCEPT ![p] = Idle]
  PROVE  [Ledger!LedgerNext]_(Ledger!ledgerVars)
  <1> DEFINE a == region[r].vm_start
             b == region[r].vm_top
             S == Span(a, b)
  <1>1. TypeOK /\ Bookkeeping /\ NoAliasing /\ HomeAllocator
    BY DEF IInv
  <1>2. region[r].state \in {"loading", "dying"} /\ region[r].mm = p
    BY <1>1 DEF Bookkeeping
  <1>3. region'[r] = Zeroed
    BY <1>1 DEF TypeOK
  <1>4. Held(r) = S /\ Held(r)' = {}
    BY <1>2, <1>3 DEF Held, Zeroed
  <1>5. \A t \in Regions \ {r} : region'[t] = region[t] /\ Held(t)' = Held(t)
    BY <1>1 DEF Held, TypeOK
  <1>6. \A q \in Procs : InFlight(q)' = InFlight(q)
    BY <1>1 DEF InFlight, TypeOK, Idle
  <1>7. Free' = Free \cup S
    BY DEF GiveBack, Free
  <1>8. S \subseteq Pool \/ S \subseteq Buddy
    BY <1>1, <1>4 DEF HomeAllocator
  <1>9. a \in Nat /\ b \in Nat
    BY <1>1, PagesAssumption DEF TypeOK, Region, Addr
  <1>10. S # {} => S \in Ledger!Runs
    BY <1>8, <1>9, RunOf
  <1> HIDE DEF S
  <1>11. \A x \in S : Hand(x, p)
    BY <1>2, <1>4 DEF Hand
  <1>12. \A x \in Pages \ S : \A m \in Mms : Hand(x, m)' <=> Hand(x, m)
    BY <1>4, <1>5, <1>6 DEF Hand
  <1>13. \A x \in Pages \ S : Gone(x)' <=> Gone(x)
    BY <1>4, <1>5, <1>6 DEF Gone
  <1>14. \A x \in S : ~Gone(x)'
    BY <1>1, <1>4, <1>5, <1>6 DEF Gone, NoAliasing
  <1>15. CASE S = {}
    BY <1>7, <1>12, <1>13, <1>15, LedgerIdle
  <1>16. CASE S # {}
    BY <1>7, <1>8, <1>10, <1>11, <1>12, <1>13, <1>14, <1>16, LedgerTakeBack DEF Pages
  <1> QED
    BY <1>15, <1>16

\* The pages a shrink cut off are taken back.
LEMMA ShrinkFreeLedger ==
  ASSUME IInv, IInv', NEW p \in Procs, ShrinkFree(p)
  PROVE  [Ledger!LedgerNext]_(Ledger!ledgerVars)
  <1> DEFINE S == Span(job[p].from, job[p].to)
  <1>1. TypeOK /\ NoAliasing /\ HomeAllocator
    BY DEF IInv
  <1>2. InFlight(p) = S /\ InFlight(p)' = {}
    BY <1>1 DEF InFlight, TypeOK, Idle, ShrinkFree
  <1>3. \A q \in Procs \ {p} : InFlight(q)' = InFlight(q)
    BY <1>1 DEF InFlight, TypeOK, ShrinkFree
  <1>4. region' = region /\ \A t \in Regions : Held(t)' = Held(t)
    BY DEF Held, ShrinkFree
  <1>5. Free' = Free \cup S
    BY DEF GiveBack, Free, ShrinkFree
  <1>6. S \subseteq Pool \/ S \subseteq Buddy
    BY <1>1, <1>2 DEF HomeAllocator, ShrinkFree
  <1>7. job[p].from \in Nat /\ job[p].to \in Nat
    BY <1>1, PagesAssumption DEF TypeOK, Job, Addr
  <1>8. S # {} => S \in Ledger!Runs
    BY <1>6, <1>7, RunOf
  <1> HIDE DEF S
  <1>9. \A x \in S : Hand(x, p)
    BY <1>2 DEF Hand
  <1>10. \A x \in Pages \ S : \A m \in Mms : Hand(x, m)' <=> Hand(x, m)
    BY <1>2, <1>3, <1>4 DEF Hand
  <1>11. \A x \in Pages \ S : Gone(x)' <=> Gone(x)
    BY <1>2, <1>3, <1>4 DEF Gone
  <1>12. \A x \in S : ~Gone(x)'
    BY <1>1, <1>2, <1>3, <1>4 DEF Gone, NoAliasing
  <1>13. CASE S = {}
    BY <1>5, <1>10, <1>11, <1>13, LedgerIdle
  <1>14. CASE S # {}
    BY <1>5, <1>6, <1>8, <1>9, <1>10, <1>11, <1>12, <1>14, LedgerTakeBack DEF Pages
  <1> QED
    BY <1>13, <1>14

\* A region that enters the tree, or that a munmap has picked, is all the same
\* to the ledger.
LEMMA RelabelLedger ==
  ASSUME IInv, IInv', Free' = Free,
         \A t \in Regions : /\ Held(t)' = Held(t)
                            /\ region'[t].mm = region[t].mm
                            /\ region'[t].state = "dying" <=> region[t].state = "dying",
         \A q \in Procs : InFlight(q)' = InFlight(q)
  PROVE  UNCHANGED Ledger!ledgerVars
  <1>1. \A x \in Pages : Gone(x)' <=> Gone(x)
    BY DEF Gone
  <1>2. \A x \in Pages : \A m \in Mms : Hand(x, m)' <=> Hand(x, m)
    BY DEF Hand
  <1> QED
    BY <1>1, <1>2, LedgerIdle

\* Splitting a region divides its pages between two of the same owner.
LEMMA SplitLedger ==
  ASSUME IInv, IInv', NEW p \in Procs, NEW r \in Regions, NEW new \in Regions,
         NEW from \in Addr, NEW to \in Addr, SplitVma(p, r, new, from, to)
  PROVE  UNCHANGED Ledger!ledgerVars
  <1> DEFINE a == region[r].vm_start
             b == region[r].vm_top
  <1>1. TypeOK /\ Bookkeeping
    BY DEF IInv
  <1>2. /\ region[r].state = "mapped" /\ region[r].mm = p /\ region[new].state = "unused"
        /\ r # new /\ job[p].op = "idle"
        /\ region[r].vm_start < from /\ from < to /\ to < region[r].vm_end
    BY DEF SplitVma, Mapped, Unused
  <1>3. /\ region'[new] = [region[r] EXCEPT !.vm_end = from, !.vm_top = from]
        /\ region'[r] = [region[r] EXCEPT !.vm_start = from]
        /\ \A t \in Regions \ {r, new} : region'[t] = region[t]
    BY <1>1, <1>2 DEF SplitVma, TypeOK
  <1>4. /\ region'[new].state = "mapped" /\ region'[new].mm = p
        /\ region'[new].vm_start = a /\ region'[new].vm_top = from
        /\ region'[r].state = "mapped" /\ region'[r].mm = p
        /\ region'[r].vm_start = from /\ region'[r].vm_top = b
    BY <1>1, <1>2, <1>3 DEF TypeOK, Region
  <1>5. /\ Held(r) = Span(a, b) /\ Held(new) = {}
        /\ Held(new)' = Span(a, from) /\ Held(r)' = Span(from, b)
    BY <1>2, <1>4 DEF Held
  <1>6. Held(r) = Held(new)' \cup Held(r)'
    <2>1. /\ a \in Nat /\ b \in Nat /\ from \in Nat /\ to \in Nat
          /\ region[r].vm_end \in Nat /\ region[r].vm_end <= b
      BY <1>1, PagesAssumption DEF TypeOK, Region, Addr, Bookkeeping
    <2>2. a <= from /\ from <= b
      BY <1>2, <2>1
    <2> QED
      BY <1>5, <2>1, <2>2, SpanCut
  <1>7. \A t \in Regions \ {r, new} : Held(t)' = Held(t)
    BY <1>3 DEF Held
  <1>8. \A q \in Procs : InFlight(q)' = InFlight(q)
    BY <1>1, <1>2 DEF InFlight, TypeOK, SplitVma
  <1>9. Free' = Free
    BY DEF SplitVma, Free
  <1>10. \A x \in Pages : Gone(x)' <=> Gone(x)
    <2>1. \A t \in Regions : /\ region[t].state = "dying" => t \notin {r, new}
                             /\ region'[t].state = "dying" => t \notin {r, new}
      BY <1>2, <1>4
    <2>2. \A x \in Pages : Gone(x) => Gone(x)'
      BY <1>3, <1>7, <1>8, <2>1 DEF Gone
    <2>3. \A x \in Pages : Gone(x)' => Gone(x)
      BY <1>3, <1>7, <1>8, <2>1 DEF Gone
    <2> QED
      BY <2>2, <2>3
  <1>11. ASSUME NEW x \in Pages, NEW m \in Mms
         PROVE  Hand(x, m)' <=> Hand(x, m)
    <2>1. (x \in Held(r)' \/ x \in Held(new)') <=> x \in Held(r)
      BY <1>6
    <2>2. ASSUME NEW t \in Regions, region[t].mm = m, x \in Held(t)
          PROVE  Hand(x, m)'
      <3>1. CASE t = r
        BY <1>2, <1>4, <2>1, <2>2, <3>1 DEF Hand
      <3>2. CASE t \in Regions \ {r, new}
        BY <1>3, <1>7, <2>2, <3>2 DEF Hand
      <3>3. t # new
        BY <1>5, <2>2
      <3> QED
        BY <3>1, <3>2, <3>3
    <2>3. ASSUME NEW t \in Regions, region'[t].mm = m, x \in Held(t)'
          PROVE  Hand(x, m)
      <3>1. CASE t \in {r, new}
        BY <1>2, <1>4, <2>1, <2>3, <3>1 DEF Hand
      <3>2. CASE t \in Regions \ {r, new}
        BY <1>3, <1>7, <2>3, <3>2 DEF Hand
      <3> QED
        BY <3>1, <3>2
    <2>4. m \in Procs => (x \in InFlight(m)' <=> x \in InFlight(m))
      BY <1>8
    <2> QED
      BY <2>2, <2>3, <2>4 DEF Hand
  <1> QED
    BY <1>9, <1>10, <1>11, LedgerIdle

\* __put_nommu_region unmaps the whole region.
LEMMA PutLedger ==
  ASSUME IInv, IInv', NEW p \in Procs, NEW r \in Regions, PutRegion(p, r)
  PROVE  [Ledger!LedgerNext]_(Ledger!ledgerVars)
  <1> DEFINE a == region[r].vm_start
             b == region[r].vm_top
             S == Span(a, b)
  <1>1. TypeOK /\ NoAliasing /\ HomeAllocator
    BY DEF IInv
  <1>2. region[r].state = "mapped" /\ region[r].mm = p /\ job[p].op = "idle"
    BY DEF PutRegion, Mapped
  <1>3. /\ region'[r].state = "dying" /\ region'[r].mm = p
        /\ region'[r].vm_start = a /\ region'[r].vm_top = b
        /\ \A t \in Regions \ {r} : region'[t] = region[t]
    BY <1>1, <1>2 DEF PutRegion, TypeOK, Region, RegionState
  <1>4. Held(r) = S /\ Held(r)' = S
    BY <1>2, <1>3 DEF Held
  <1>5. \A t \in Regions \ {r} : Held(t)' = Held(t)
    BY <1>3 DEF Held
  <1>6. \A q \in Procs : InFlight(q)' = InFlight(q)
    BY <1>1, <1>2 DEF InFlight, TypeOK, PutRegion
  <1>7. Free' = Free
    BY DEF PutRegion, Free
  <1>8. S \subseteq Pool \/ S \subseteq Buddy
    BY <1>1, <1>4 DEF HomeAllocator
  <1>9. a \in Nat /\ b \in Nat
    BY <1>1, PagesAssumption DEF TypeOK, Region, Addr
  <1>10. S # {} => S \in Ledger!Runs
    BY <1>8, <1>9, RunOf
  <1> HIDE DEF S
  <1>11. \A x \in S : Hand(x, p)
    BY <1>2, <1>4 DEF Hand
  <1>12. \A x \in S : ~Gone(x)
    BY <1>1, <1>2, <1>4 DEF Gone, NoAliasing
  <1>13. \A x \in Pages : \A m \in Mms : Hand(x, m)' <=> Hand(x, m)
    BY <1>2, <1>3, <1>4, <1>5, <1>6 DEF Hand
  <1>14. \A x \in Pages : Gone(x)' <=> Gone(x) \/ x \in S
    BY <1>2, <1>3, <1>4, <1>5, <1>6 DEF Gone
  <1>15. CASE S = {}
    BY <1>7, <1>13, <1>14, <1>15, LedgerIdle
  <1>16. CASE S # {}
    BY <1>7, <1>8, <1>10, <1>11, <1>12, <1>13, <1>14, <1>16, LedgerUnmap DEF Pages
  <1> QED
    BY <1>15, <1>16

\* vmi_shrink_vma unmaps the end it cuts off.
LEMMA CutLedger ==
  ASSUME IInv, IInv', NEW p \in Procs, NEW r \in Regions,
         NEW lo \in Addr, NEW hi \in Addr, NEW from \in Addr, NEW to \in Addr,
         job[p].op = "shrink", job[p].vm = r,
         Span(lo, hi) \cup Span(from, to) = Span(region[r].vm_start, region[r].vm_top),
         \A t \in Regions \ {r} : region'[t] = region[t],
         region'[r].state = region[r].state, region'[r].mm = region[r].mm,
         region'[r].vm_start = lo, region'[r].vm_top = hi,
         \A q \in Procs \ {p} : job'[q] = job[q],
         job'[p].op = "free_part", job'[p].from = from, job'[p].to = to,
         UNCHANGED <<pool_free, buddy_free>>
  PROVE  [Ledger!LedgerNext]_(Ledger!ledgerVars)
  <1> DEFINE S == Span(from, to)
  <1>1. TypeOK /\ Bookkeeping /\ NoAliasing /\ HomeAllocator
    BY DEF IInv
  <1>2. region[r].state = "mapped" /\ region[r].mm = p
    BY <1>1 DEF Bookkeeping
  <1>3. Held(r) = Held(r)' \cup S
    BY <1>2 DEF Held
  <1>4. \A t \in Regions \ {r} : Held(t)' = Held(t)
    BY DEF Held
  <1>5. \A q \in Procs \ {p} : InFlight(q)' = InFlight(q)
    BY DEF InFlight
  <1>6. InFlight(p) = {} /\ InFlight(p)' = S
    BY DEF InFlight
  <1>7. Free' = Free
    BY DEF Free
  <1>8. S \subseteq Pool \/ S \subseteq Buddy
    BY <1>1, <1>3 DEF HomeAllocator
  <1>9. from \in Nat /\ to \in Nat
    BY PagesAssumption DEF Addr
  <1>10. S # {} => S \in Ledger!Runs
    BY <1>8, <1>9, RunOf
  <1> HIDE DEF S
  <1>11. \A x \in S : Hand(x, p)
    BY <1>2, <1>3 DEF Hand
  <1>12. \A x \in S : ~Gone(x)
    BY <1>1, <1>2, <1>3 DEF Gone, NoAliasing
  <1>13. \A x \in Pages : \A m \in Mms : Hand(x, m)' <=> Hand(x, m)
    BY <1>2, <1>3, <1>4, <1>5, <1>6 DEF Hand
  <1>14. \A x \in Pages : Gone(x)' <=> Gone(x) \/ x \in S
    BY <1>2, <1>3, <1>4, <1>5, <1>6 DEF Gone
  <1>15. CASE S = {}
    BY <1>7, <1>13, <1>14, <1>15, LedgerIdle
  <1>16. CASE S # {}
    BY <1>7, <1>8, <1>10, <1>11, <1>12, <1>13, <1>14, <1>16, LedgerUnmap DEF Pages
  <1> QED
    BY <1>15, <1>16

----------------------------------------------------------------------------

\* Every step of one process is a step of the ledger, or none.
LEMMA StepLedger ==
  ASSUME IInv, NEW p \in Procs, Step(p)
  PROVE  [Ledger!LedgerNext]_(Ledger!ledgerVars)
  <1>0. IInv' /\ TypeOK /\ Bookkeeping
    BY StepIInv DEF IInv
  <1>1. ASSUME NEW r \in Regions, NEW len \in 1 .. MaxLen, NEW s \in Pages,
               MmapFromPool(p, r, len, s)
        PROVE  Ledger!LedgerNext
    <2>1. Span(s, s + len) \subseteq pool_free
      BY <1>1 DEF MmapFromPool, FirstFit, PoolRuns
    <2>2. len \in Nat /\ len >= len
      BY LenAssumption
    <2> QED
      BY <1>0, <1>1, <2>1, <2>2, AllocLedger DEF MmapFromPool
  <1>2. ASSUME NEW r \in Regions, NEW len \in 1 .. MaxLen, NEW s \in Pages,
               MmapFromBuddy(p, r, len, s)
        PROVE  Ledger!LedgerNext
    <2>1. Span(s, s + RoundUp[len]) \subseteq buddy_free
      BY <1>2 DEF MmapFromBuddy, BuddyRuns
    <2>2. RoundUp[len] \in Nat /\ RoundUp[len] >= len
      BY LenAssumption
    <2> QED
      BY <1>0, <1>2, <2>1, <2>2, AllocLedger DEF MmapFromBuddy
  <1>3. ASSUME MmapDone(p)
        PROVE  UNCHANGED Ledger!ledgerVars
    <2> DEFINE r == job[p].vm
    <2>1. r \in Regions /\ region[r].state = "loading"
      BY <1>0, <1>3 DEF MmapDone, Bookkeeping
    <2>2. /\ region'[r].state = "mapped" /\ region'[r].mm = region[r].mm
          /\ region'[r].vm_start = region[r].vm_start
          /\ region'[r].vm_top = region[r].vm_top
          /\ \A t \in Regions \ {r} : region'[t] = region[t]
      BY <1>0, <1>3, <2>1 DEF MmapDone, TypeOK, Region, RegionState
    <2> HIDE DEF r
    <2>3. \A t \in Regions : /\ Held(t)' = Held(t)
                             /\ region'[t].mm = region[t].mm
                             /\ region'[t].state = "dying" <=> region[t].state = "dying"
      BY <2>1, <2>2 DEF Held
    <2>4. \A q \in Procs : InFlight(q)' = InFlight(q)
      BY <1>0, <1>3 DEF MmapDone, InFlight, TypeOK, Idle
    <2>5. Free' = Free
      BY <1>3 DEF MmapDone, Free
    <2> QED
      BY <1>0, <2>3, <2>4, <2>5, RelabelLedger
  <1>4. CASE MmapReadError(p)
    <2>1. job[p].vm \in Regions
      BY <1>0, <1>4 DEF MmapReadError, Bookkeeping
    <2> QED
      BY <1>0, <1>4, <2>1, DropLedger DEF MmapReadError
  <1>5. ASSUME NEW r \in Regions, PutRegion(p, r)
        PROVE  [Ledger!LedgerNext]_(Ledger!ledgerVars)
    BY <1>0, <1>5, PutLedger
  <1>6. ASSUME NEW r \in Regions, NEW from \in Addr, NEW to \in Addr,
               MunmapEnd(p, r, from, to)
        PROVE  UNCHANGED Ledger!ledgerVars
    <2>1. region' = region /\ \A t \in Regions : Held(t)' = Held(t)
      BY <1>6 DEF MunmapEnd, Held
    <2>2. \A q \in Procs : InFlight(q)' = InFlight(q)
      BY <1>0, <1>6 DEF MunmapEnd, InFlight, TypeOK
    <2>3. Free' = Free
      BY <1>6 DEF MunmapEnd, Free
    <2> QED
      BY <1>0, <2>1, <2>2, <2>3, RelabelLedger
  <1>7. ASSUME NEW r \in Regions, NEW new \in Regions,
               NEW from \in Addr, NEW to \in Addr, SplitVma(p, r, new, from, to)
        PROVE  UNCHANGED Ledger!ledgerVars
    BY <1>0, <1>7, SplitLedger
  <1>8. ASSUME NEW r \in Regions, job[p].vm = r, CutTail(p)
        PROVE  [Ledger!LedgerNext]_(Ledger!ledgerVars)
    <2> DEFINE from == job[p].from
               top == region[r].vm_top
               lo == region[r].vm_start
    <2>1. region[r] \in Region /\ job[p] \in Job
      BY <1>0 DEF TypeOK
    <2>2. /\ lo \in Addr /\ top \in Addr /\ from \in Addr
          /\ region[r].vm_end \in Addr /\ job[p].to \in Addr
      BY <2>1 DEF Region, Job
    <2>3. /\ region[r].vm_end <= top /\ lo <= from /\ from < job[p].to
          /\ job[p].to <= region[r].vm_end /\ job[p].op = "shrink"
      BY <1>0, <1>8 DEF CutTail, Bookkeeping
    <2>4. Span(lo, from) \cup Span(from, top) = Span(lo, top)
      <3>1. /\ lo \in Nat /\ from \in Nat /\ top \in Nat /\ job[p].to \in Nat
            /\ region[r].vm_end \in Nat
        BY <2>2, PagesAssumption DEF Addr
      <3>2. from <= top
        BY <2>3, <3>1
      <3> QED
        BY <2>3, <3>1, <3>2, SpanCut
    <2>5. region' = [region EXCEPT ![r] =
                       [region[r] EXCEPT !.vm_end = from, !.vm_top = from]]
      BY <1>8 DEF CutTail
    <2>6. /\ \A t \in Regions \ {r} : region'[t] = region[t]
          /\ region'[r].state = region[r].state /\ region'[r].mm = region[r].mm
          /\ region'[r].vm_start = lo /\ region'[r].vm_top = from
      BY <1>0, <2>1, <2>5 DEF TypeOK, Region
    <2>7. /\ \A q \in Procs \ {p} : job'[q] = job[q]
          /\ job'[p].op = "free_part" /\ job'[p].from = from /\ job'[p].to = top
      BY <1>0, <1>8, <2>1 DEF CutTail, TypeOK, Job
    <2>8. UNCHANGED <<pool_free, buddy_free>>
      BY <1>8 DEF CutTail
    <2> HIDE DEF from, top, lo
    <2> QED
      BY <1>0, <1>8, <2>2, <2>3, <2>4, <2>6, <2>7, <2>8, CutLedger DEF lo, top
  <1>9. ASSUME NEW r \in Regions, job[p].vm = r, CutHead(p)
        PROVE  [Ledger!LedgerNext]_(Ledger!ledgerVars)
    <2> DEFINE from == job[p].from
               to == job[p].to
               top == region[r].vm_top
    <2>1. region[r] \in Region /\ job[p] \in Job
      BY <1>0 DEF TypeOK
    <2>2. from \in Addr /\ to \in Addr /\ top \in Addr /\ region[r].vm_end \in Addr
      BY <2>1 DEF Region, Job
    <2>3. /\ from = region[r].vm_start /\ from < to /\ to <= region[r].vm_end
          /\ region[r].vm_end <= top /\ job[p].op = "shrink"
      BY <1>0, <1>9 DEF CutHead, Bookkeeping
    <2>4. Span(to, top) \cup Span(from, to) = Span(region[r].vm_start, top)
      <3>1. /\ from \in Nat /\ to \in Nat /\ top \in Nat /\ region[r].vm_end \in Nat
        BY <2>2, PagesAssumption DEF Addr
      <3>2. from <= to /\ to <= top
        BY <2>3, <3>1
      <3>3. Span(from, to) \cup Span(to, top) = Span(from, top)
        BY <3>1, <3>2, SpanCut
      <3> QED
        BY <2>3, <3>3
    <2>5. /\ \A t \in Regions \ {r} : region'[t] = region[t]
          /\ region'[r].state = region[r].state /\ region'[r].mm = region[r].mm
          /\ region'[r].vm_start = to /\ region'[r].vm_top = top
      BY <1>0, <1>9, <2>1 DEF CutHead, TypeOK, Region
    <2>6. /\ \A q \in Procs \ {p} : job'[q] = job[q]
          /\ job'[p].op = "free_part" /\ job'[p].from = from /\ job'[p].to = to
      BY <1>0, <1>9, <2>1 DEF CutHead, TypeOK, Job
    <2>7. UNCHANGED <<pool_free, buddy_free>>
      BY <1>9 DEF CutHead
    <2> HIDE DEF from, top, to
    <2> QED
      BY <1>0, <1>9, <2>2, <2>3, <2>4, <2>5, <2>6, <2>7, CutLedger DEF top
  <1>10. ASSUME ShrinkFree(p)
         PROVE  [Ledger!LedgerNext]_(Ledger!ledgerVars)
    BY <1>0, <1>10, ShrinkFreeLedger
  <1>11. CASE PutRegionFree(p)
    <2>1. job[p].vm \in Regions
      BY <1>0, <1>11 DEF PutRegionFree, Bookkeeping
    <2> QED
      BY <1>0, <1>11, <2>1, DropLedger DEF PutRegionFree
  <1>12. (CutTail(p) \/ CutHead(p)) => job[p].vm \in Regions
    BY <1>0 DEF CutTail, CutHead, Bookkeeping
  <1> QED
    BY <1>1, <1>2, <1>3, <1>4, <1>5, <1>6, <1>7, <1>8, <1>9, <1>10, <1>11, <1>12
       DEF Step, Mmap, Munmap

\* A step of nobody is none of the ledger's.
LEMMA StutterLedger ==
  ASSUME IInv, UNCHANGED vars
  PROVE  UNCHANGED Ledger!ledgerVars
  <1>1. IInv'
    BY StutterIInv
  <1>2. region' = region /\ \A t \in Regions : Held(t)' = Held(t)
    BY DEF vars, Held
  <1>3. \A q \in Procs : InFlight(q)' = InFlight(q)
    BY DEF vars, InFlight
  <1>4. Free' = Free
    BY DEF vars, Free
  <1> QED
    BY <1>1, <1>2, <1>3, <1>4, RelabelLedger

\* At boot every page is nobody's.
LEMMA InitLedger == Init => Ledger!LedgerInit
  <1> SUFFICES ASSUME Init PROVE Ledger!LedgerInit
    OBVIOUS
  <1>1. (\A r \in Regions : Held(r) = {}) /\ (\A p \in Procs : InFlight(p) = {})
    BY DEF Init, Held, InFlight, Zeroed, Idle
  <1>2. \A x \in Pages : Owner(x) = NoMm
    <2>1. IInv
      BY InitIInv
    <2>2. \A x \in Pages : \A m \in Mms : ~Hand(x, m)
      BY <1>1 DEF Hand
    <2> QED
      BY <2>1, <2>2, Owners DEF OwnersOK
  <1>3. Leaving = {}
    BY <1>1 DEF Leaving
  <1>4. Free \in {Buddy, Pool \cup Buddy}
    <2>1. CASE user_pool = TRUE
      BY <2>1 DEF Init, Free
    <2>2. CASE user_pool = FALSE
      BY <2>2 DEF Init, Free
    <2> QED
      BY <2>1, <2>2 DEF Init
  <1>5. [x \in Pages |-> Owner(x)] = [x \in Ledger!Pages |-> NoMm]
    BY <1>2 DEF Ledger!Pages, Pages
  <1> QED
    BY <1>3, <1>4, <1>5 DEF Ledger!LedgerInit

\* The pool implements the ledger: a page passes from one address space to
\* another only by being unmapped, taken back by the allocator that lent it and
\* lent again, in whole runs of one allocator, through every split, partial
\* unmap, failed read and late free.
THEOREM Ledgered == Spec => KeepsLedger
  <1>1. IInv /\ [Next]_vars => [Ledger!LedgerNext]_(Ledger!ledgerVars)
    BY StepLedger, StutterLedger DEF Next
  <1> QED
    BY <1>1, Safety, InitLedger, PTL DEF Spec, KeepsLedger, Ledger!LedgerSpec
=============================================================================
