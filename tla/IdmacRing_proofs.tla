-------------------------- MODULE IdmacRing_proofs --------------------------
(***************************************************************************)
(* IdmacRing for every length of the ring and of a cache line: IDMAC only  *)
(* carries out descriptors of the transfer in hand, no write of the        *)
(* driver's is lost, and a dropped transfer costs one retry.               *)
(***************************************************************************)
EXTENDS IdmacRing, FiniteSets, FiniteSetTheorems, TLAPS

Present(d) == line[LineOf(d)] # "absent"

\* The descriptors the driver has filled and IDMAC has not carried out.
Given(d) ==
  \/ pc = "prepare" /\ d < i
  \/ pc = "kick" /\ d < sg_len
  \/ pc = "busy" /\ running /\ at <= d /\ d < sg_len

\* What the driver fills descriptor d of a transfer of n with.
Ready(desc, d, n) == desc.own /\ desc.current /\ (desc.ld <=> d = n - 1)

\* Where each side is.
ControlOK ==
  /\ pc # "idle" => 1 <= sg_len
  /\ pc = "prepare" => i <= sg_len
  /\ running => pc = "busy" /\ at < sg_len

\* Only a ring that is being filled has lines to write back, and a ring behind
\* the cache has none in it.
LinesOK ==
  /\ pc # "prepare" => \A l \in Lines : line[l] # "dirty"
  /\ ~sg_cpu_cached => \A l \in Lines : line[l] = "absent"

\* What is given is filled, in memory unless it is yet to be written back, and
\* in the cache if it is there; nothing will clear its OWN bit.
GivenOK ==
  \A d \in Descs : Given(d) =>
    /\ d \notin landing
    /\ ~Dirty(d) => Ready(mem[d], d, sg_len)
    /\ pc = "prepare" /\ Present(d) => Ready(cache[d], d, sg_len)

\* Until its clear OWN bit lands, a descriptor looks owned wherever it is read:
\* the driver does not fill it.
LandingOK ==
  \A d \in landing :
    mem[d].own /\ (pc = "prepare" /\ Present(d) => cache[d].own)

\* Behind the cache, and in the first transfer after a drop, no OWN bit is set
\* but those of descriptors that are given or still to land.
Accounted ==
  ~sg_cpu_cached \/ drops > 0 => \A d \in Descs : mem[d].own => Given(d) \/ d \in landing

DropsOK ==
  /\ ~sg_cpu_cached => drops = 0
  /\ drops > 0 =>
       /\ drops = 1
       /\ pc # "busy" => landing = {}
       /\ \A d \in Descs : pc = "prepare" /\ Present(d) /\ cache[d].own => Given(d)

\* The inductive invariant.
IInv ==
  /\ TypeOK /\ ControlOK /\ LinesOK /\ GivenOK
  /\ LandingOK /\ Accounted /\ DropsOK

----------------------------------------------------------------------------

LEMMA DescsLines == \A d \in Descs : LineOf(d) \in Lines
  BY DEF Lines

LEMMA FilledReady ==
  ASSUME NEW d \in Descs, NEW n \in Nat
  PROVE  /\ [own |-> TRUE, ld |-> d = n - 1, current |-> TRUE] \in Desc
         /\ Ready([own |-> TRUE, ld |-> d = n - 1, current |-> TRUE], d, n)
  BY DEF Desc, Ready

LEMMA InitIInv == Init => IInv
  <1> SUFFICES ASSUME Init PROVE IInv
    OBVIOUS
  <1>1. TypeOK
    <2>1. mem \in [Descs -> Desc] /\ cache \in [Descs -> Desc]
      BY DEF Init, Zeroed, Desc
    <2>2. sg_cpu_cached \in BOOLEAN /\ running \in BOOLEAN
      BY Zenon DEF Init
    <2>3. at \in Descs /\ sg_len \in 0 .. NDescs /\ i \in 0 .. NDescs /\ drops \in 0 .. 2
      BY RingAssumption DEF Init, Descs
    <2> QED
      BY <2>1, <2>2, <2>3 DEF Init, TypeOK
  <1>2. ControlOK /\ LinesOK /\ GivenOK
    BY DEF Init, ControlOK, LinesOK, GivenOK, Given
  <1>3. LandingOK /\ Accounted /\ DropsOK
    BY DEF Init, LandingOK, Accounted, DropsOK, Zeroed
  <1> QED
    BY <1>1, <1>2, <1>3 DEF IInv

\* A transfer begins with nothing given and no line in the cache.
LEMMA RequestIInv ==
  ASSUME IInv, NEW n \in 1 .. NDescs, Request(n)
  PROVE  IInv'
  <1> USE DEF IInv
  <1>1. /\ pc = "idle" /\ pc' = "prepare" /\ sg_len' = n /\ i' = 0
        /\ UNCHANGED <<sg_cpu_cached, running, at, landing, drops>>
    BY DEF Request, hardware
  <1>2. /\ mem' \in [Descs -> Desc] /\ cache' \in [Descs -> Desc]
        /\ \A d \in Descs : mem'[d].own = mem[d].own
    BY DEF Request, Outdated, TypeOK, Desc
  <1>3. line' \in [Lines -> {"absent", "clean", "dirty"}] /\ \A l \in Lines : line'[l] = "absent"
    BY DEF Request, LinesOK, TypeOK
  <1>4. \A d \in Descs : ~Present(d)'
    BY <1>3, DescsLines DEF Present
  <1>5. \A d \in Descs : ~Given(d) /\ ~Given(d)'
    BY <1>1 DEF Given, Descs
  <1>6. landing \subseteq Descs
    BY DEF TypeOK
  <1>7. TypeOK'
    BY <1>1, <1>2, <1>3, RingAssumption DEF TypeOK
  <1>8. ControlOK'
    BY <1>1, RingAssumption DEF ControlOK
  <1>9. LinesOK' /\ GivenOK'
    BY <1>1, <1>3, <1>5 DEF LinesOK, GivenOK
  <1>10. LandingOK'
    BY <1>1, <1>2, <1>4, <1>6 DEF LandingOK
  <1>11. Accounted' /\ DropsOK'
    BY <1>1, <1>2, <1>4, <1>5 DEF Accounted, DropsOK
  <1> QED
    BY <1>7, <1>8, <1>9, <1>10, <1>11

\* A load brings a line in as memory has it.
LEMMA FilledLine ==
  ASSUME IInv, sg_cpu_cached, NEW e \in Descs
  PROVE  /\ Filled(e) \in [Descs -> Desc]
         /\ \A d \in Descs : Filled(e)[d] = IF LineOf(d) = LineOf(e) /\ ~Present(d)
                                            THEN mem[d] ELSE cache[d]
  BY DEF Filled, Present, IInv, TypeOK

LEMMA PollOwnedIInv ==
  ASSUME IInv, PollOwned
  PROVE  IInv'
  <1> USE DEF IInv
  <1>1. /\ pc = "prepare" /\ sg_cpu_cached /\ line[LineOf(i)] = "absent"
        /\ UNCHANGED <<sg_cpu_cached, mem, pc, sg_len, i, drops, running, at, landing>>
    BY DEF PollOwned, hardware
  <1>2. i \in Descs /\ LineOf(i) \in Lines
    <2>1. i \in Descs
      BY RingAssumption DEF PollOwned, TypeOK, Descs
    <2> QED
      BY <2>1, DescsLines
  <1>3. /\ cache' \in [Descs -> Desc] /\ line' = [line EXCEPT ![LineOf(i)] = "clean"]
        /\ \A d \in Descs : cache'[d] = IF LineOf(d) = LineOf(i) THEN mem[d] ELSE cache[d]
    BY <1>1, <1>2, FilledLine DEF PollOwned, Present
  <1>4. \A d \in Descs : (Present(d)' <=> Present(d) \/ LineOf(d) = LineOf(i)) /\ (Dirty(d)' <=> Dirty(d))
    BY <1>1, <1>2, <1>3, DescsLines DEF Present, Dirty, TypeOK
  <1>5. \A d \in Descs : (Given(d)' <=> Given(d)) /\ (LineOf(d) = LineOf(i) => ~Dirty(d))
    BY <1>1 DEF Given, Dirty
  <1>6. landing \subseteq Descs
    BY DEF TypeOK
  <1>7. TypeOK'
    BY <1>1, <1>2, <1>3 DEF TypeOK
  <1>8. ControlOK' /\ LinesOK'
    BY <1>1 DEF ControlOK, LinesOK
  <1>9. GivenOK'
    BY <1>1, <1>3, <1>4, <1>5 DEF GivenOK
  <1>10. LandingOK'
    BY <1>1, <1>3, <1>4, <1>6 DEF LandingOK
  <1>11. Accounted' /\ DropsOK'
    BY <1>1, <1>3, <1>4, <1>5 DEF Accounted, DropsOK
  <1> QED
    BY <1>7, <1>8, <1>9, <1>10, <1>11

\* What the driver fills was not its own to give, nor is still to land.
LEMMA FillDescIInv ==
  ASSUME IInv, FillDesc
  PROVE  IInv'
  <1> USE DEF IInv
  <1> DEFINE new == [own |-> TRUE, ld |-> i = sg_len - 1, current |-> TRUE]
  <1>1. /\ pc = "prepare" /\ i' = i + 1 /\ i \in Descs /\ i < sg_len /\ sg_len \in Nat /\ ~Load(i).own
        /\ UNCHANGED <<sg_cpu_cached, pc, sg_len, drops, running, at, landing>>
    <2>1. /\ pc = "prepare" /\ i' = i + 1 /\ i < sg_len /\ ~Load(i).own
          /\ UNCHANGED <<sg_cpu_cached, pc, sg_len, drops, running, at, landing>>
      BY DEF FillDesc, hardware
    <2>2. i \in Descs /\ sg_len \in Nat
      BY <2>1, RingAssumption DEF TypeOK, Descs
    <2> QED
      BY <2>1, <2>2
  <1>2. new \in Desc /\ Ready(new, i, sg_len)
    BY <1>1, FilledReady
  <1> HIDE DEF new
  <1>3. \A d \in Descs : Given(d)' <=> Given(d) \/ d = i
    BY <1>1 DEF Given, Descs
  <1>4. i \notin landing
    BY <1>1, FilledLine DEF LandingOK, Load, Present
  <1>5. LineOf(i) \in Lines /\ landing \subseteq Descs
    BY <1>1, DescsLines DEF TypeOK
  <1>6. ControlOK'
    BY <1>1 DEF ControlOK, TypeOK, Descs
  <1>7. CASE sg_cpu_cached
    <2>1. /\ UNCHANGED mem /\ line' = [line EXCEPT ![LineOf(i)] = "dirty"]
          /\ cache' = [Filled(i) EXCEPT ![i] = new]
      BY <1>7 DEF FillDesc, new
    <2>2. /\ cache' \in [Descs -> Desc] /\ cache'[i] = new
          /\ \A d \in Descs \ {i} : cache'[d] = IF LineOf(d) = LineOf(i) /\ ~Present(d)
                                               THEN mem[d] ELSE cache[d]
      BY <1>1, <1>2, <1>7, <2>1, FilledLine
    <2>3. /\ \A d \in Descs : Present(d)' <=> (Present(d) \/ LineOf(d) = LineOf(i))
          /\ \A d \in Descs : LineOf(d) = LineOf(i) => Dirty(d)'
          /\ \A d \in Descs : LineOf(d) # LineOf(i) => (Dirty(d)' <=> Dirty(d))
          /\ \A d \in Descs : ~Present(d) => ~Dirty(d)
      BY <1>5, <2>1, DescsLines DEF Present, Dirty, TypeOK
    <2>4. TypeOK'
      BY <1>1, <1>5, <2>1, <2>2, RingAssumption DEF TypeOK, Descs
    <2>5. LinesOK'
      BY <1>1, <1>7 DEF LinesOK
    <2>6. GivenOK'
      <3>1. \A d \in Descs : LineOf(d) = LineOf(i) => Dirty(d)'
        BY <2>3
      <3>2. /\ i \notin landing' /\ Ready(cache'[i], i, sg_len')
        BY <1>1, <1>2, <1>4, <2>2
      <3>3. \A d \in Descs \ {i} : Given(d) =>
              /\ d \notin landing'
              /\ ~Dirty(d)' => Ready(mem'[d], d, sg_len')
              /\ Present(d)' => Ready(cache'[d], d, sg_len')
        BY <1>1, <2>1, <2>2, <2>3 DEF GivenOK
      <3> QED
        BY <1>1, <1>3, <3>1, <3>2, <3>3 DEF GivenOK
    <2>7. LandingOK'
      BY <1>1, <1>4, <1>5, <2>1, <2>2, <2>3 DEF LandingOK
    <2>8. Accounted'
      BY <1>1, <1>3, <2>1 DEF Accounted
    <2>9. DropsOK'
      <3>1. drops > 0 => \A d \in Descs \ {i} : Present(d)' /\ cache'[d].own => Given(d)
        BY <1>1, <2>2, <2>3 DEF DropsOK, Accounted
      <3> QED
        BY <1>1, <1>3, <3>1 DEF DropsOK
    <2> QED
      BY <1>6, <2>4, <2>5, <2>6, <2>7, <2>8, <2>9
  <1>8. CASE ~sg_cpu_cached
    <2>1. mem' = [mem EXCEPT ![i] = new] /\ UNCHANGED <<cache, line>>
      BY <1>8 DEF FillDesc, new
    <2>2. \A d \in Descs : ~Present(d) /\ ~Present(d)' /\ ~Dirty(d) /\ ~Dirty(d)'
      BY <1>8, <2>1, DescsLines DEF Present, Dirty, LinesOK
    <2>3. /\ mem' \in [Descs -> Desc] /\ mem'[i] = new
          /\ \A d \in Descs \ {i} : mem'[d] = mem[d]
      BY <1>1, <1>2, <2>1 DEF TypeOK
    <2>4. TypeOK'
      BY <1>1, <2>1, <2>3, RingAssumption DEF TypeOK, Descs
    <2>5. LinesOK'
      BY <1>1, <2>1 DEF LinesOK
    <2>6. GivenOK'
      BY <1>1, <1>2, <1>3, <1>4, <2>2, <2>3 DEF GivenOK
    <2>7. LandingOK'
      BY <1>1, <1>4, <1>5, <2>2, <2>3 DEF LandingOK
    <2>8. Accounted' /\ DropsOK'
      BY <1>1, <1>3, <1>8, <2>2, <2>3 DEF Accounted, DropsOK
    <2> QED
      BY <1>6, <2>4, <2>5, <2>6, <2>7, <2>8
  <1> QED
    BY <1>7, <1>8

\* A poll times out only on a stale copy of a descriptor, and the ring is made
\* anew: this happens once in a row, and only with a cached ring.
LEMMA PollTimeoutIInv ==
  ASSUME IInv, PollTimeout
  PROVE  IInv'
  <1> USE DEF IInv
  <1>1. /\ pc = "prepare" /\ i < sg_len /\ Load(i).own /\ landing = {}
        /\ pc' = "idle" /\ drops' = (IF drops < 2 THEN drops + 1 ELSE drops)
        /\ UNCHANGED <<sg_cpu_cached, sg_len, i, running, at, landing>>
    BY DEF PollTimeout, hardware
  <1>2. i \in Descs /\ ~Given(i)
    BY <1>1, RingAssumption DEF TypeOK, Descs, Given
  <1>3. sg_cpu_cached
    BY <1>1, <1>2 DEF Accounted, Load
  <1>4. /\ mem' \in [Descs -> Desc] /\ cache' \in [Descs -> Desc]
        /\ \A d \in Descs : ~mem'[d].own
        /\ line' = [l \in Lines |-> "clean"]
    BY <1>3 DEF PollTimeout, Reinit, Zeroed, Desc
  <1>5. drops = 0
    <2>1. drops > 0 => ~Load(i).own
      BY <1>1, <1>2, FilledLine DEF Accounted, DropsOK, Load
    <2> QED
      BY <1>1, <2>1 DEF TypeOK
  <1>6. \A d \in Descs : ~Given(d)'
    BY <1>1 DEF Given
  <1>7. TypeOK'
    BY <1>1, <1>4, <1>5 DEF TypeOK
  <1>8. ControlOK' /\ LinesOK'
    BY <1>1, <1>3, <1>4 DEF ControlOK, LinesOK
  <1>9. GivenOK' /\ LandingOK' /\ Accounted'
    BY <1>1, <1>4, <1>6 DEF GivenOK, LandingOK, Accounted
  <1>10. DropsOK'
    BY <1>1, <1>3, <1>5 DEF DropsOK
  <1> QED
    BY <1>7, <1>8, <1>9, <1>10

\* After the write-back memory has everything that was given.
LEMMA SyncForDeviceIInv ==
  ASSUME IInv, SyncForDevice
  PROVE  IInv'
  <1> USE DEF IInv
  <1>1. /\ pc = "prepare" /\ i = sg_len /\ pc' = "kick"
        /\ UNCHANGED <<sg_cpu_cached, cache, sg_len, i, drops, running, at, landing>>
    BY DEF SyncForDevice, hardware
  <1>2. /\ mem' \in [Descs -> Desc]
        /\ \A d \in Descs : Dirty(d) => mem'[d] = cache[d]
        /\ \A d \in Descs : ~Dirty(d) => mem'[d] = mem[d]
    BY DEF SyncForDevice, WrittenBack, TypeOK
  <1>3. /\ line' \in [Lines -> {"absent", "clean", "dirty"}]
        /\ \A l \in Lines : line'[l] # "dirty" /\ (line[l] = "absent" => line'[l] = "absent")
    BY DEF SyncForDevice, TypeOK
  <1>4. /\ \A d \in Descs : ~Dirty(d)'
        /\ \A d \in Descs : Dirty(d) => Present(d)
    BY <1>3, DescsLines DEF Dirty, Present
  <1>5. \A d \in Descs : Given(d)' <=> Given(d)
    BY <1>1 DEF Given
  <1>6. landing \subseteq Descs
    BY DEF TypeOK
  <1>7. TypeOK'
    BY <1>1, <1>2, <1>3 DEF TypeOK
  <1>8. ControlOK' /\ LinesOK'
    BY <1>1, <1>3 DEF ControlOK, LinesOK
  <1>9. GivenOK'
    BY <1>1, <1>2, <1>4, <1>5 DEF GivenOK
  <1>10. LandingOK'
    BY <1>1, <1>2, <1>4, <1>6 DEF LandingOK
  <1>11. Accounted'
    <2>1. ~sg_cpu_cached => \A d \in Descs : ~Dirty(d)
      BY DescsLines DEF LinesOK, Dirty
    <2> QED
      BY <1>1, <1>2, <1>4, <1>5, <2>1 DEF Accounted, DropsOK
  <1>12. DropsOK'
    BY <1>1 DEF DropsOK
  <1> QED
    BY <1>7, <1>8, <1>9, <1>10, <1>11, <1>12

LEMMA KickIInv ==
  ASSUME IInv, Kick
  PROVE  IInv'
  <1> USE DEF IInv
  <1>1. /\ pc = "kick" /\ pc' = "busy" /\ running' = TRUE /\ at' = 0
        /\ UNCHANGED <<sg_cpu_cached, mem, cache, line, sg_len, i, landing, drops>>
    BY DEF Kick
  <1>2. \A d \in Descs : Given(d)' <=> Given(d)
    BY <1>1 DEF Given, Descs
  <1>3. \A d \in Descs : Dirty(d)' <=> Dirty(d)
    BY <1>1 DEF Dirty
  <1>4. TypeOK'
    <2>1. running' \in BOOLEAN
      BY <1>1, Zenon
    <2>2. at' \in Descs
      BY <1>1, RingAssumption DEF Descs
    <2> QED
      BY <1>1, <2>1, <2>2 DEF TypeOK
  <1>5. ControlOK' /\ LinesOK'
    BY <1>1 DEF ControlOK, LinesOK, TypeOK
  <1>6. GivenOK' /\ LandingOK'
    BY <1>1, <1>2, <1>3 DEF GivenOK, LandingOK
  <1>7. Accounted' /\ DropsOK'
    BY <1>1, <1>2 DEF Accounted, DropsOK
  <1> QED
    BY <1>4, <1>5, <1>6, <1>7

LEMMA CompleteIInv ==
  ASSUME IInv, Complete
  PROVE  IInv'
  <1> USE DEF IInv
  <1>1. /\ pc = "busy" /\ ~running /\ pc' = "idle" /\ drops' = 0
        /\ UNCHANGED <<sg_cpu_cached, mem, cache, line, sg_len, i, running, at, landing>>
    BY DEF Complete, hardware
  <1>2. \A d \in Descs : ~Given(d) /\ ~Given(d)'
    BY <1>1 DEF Given
  <1>3. TypeOK'
    BY <1>1 DEF TypeOK
  <1>4. ControlOK' /\ LinesOK'
    BY <1>1 DEF ControlOK, LinesOK
  <1>5. GivenOK' /\ LandingOK'
    BY <1>1, <1>2 DEF GivenOK, LandingOK
  <1>6. Accounted' /\ DropsOK'
    BY <1>1, <1>2 DEF Accounted, DropsOK
  <1> QED
    BY <1>3, <1>4, <1>5, <1>6

\* IDMAC goes from one given descriptor to the next, up to the last.
LEMMA IdmacRunIInv ==
  ASSUME IInv, IdmacRun
  PROVE  IInv'
  <1> USE DEF IInv
  <1>1. /\ running /\ landing' = landing \cup {at}
        /\ UNCHANGED <<sg_cpu_cached, mem, cache, line, pc, sg_len, i, drops>>
    BY DEF IdmacRun
  <1>2. pc = "busy" /\ at \in Descs /\ at < sg_len /\ sg_len \in Nat /\ sg_len <= NDescs
    BY <1>1, RingAssumption DEF ControlOK, TypeOK
  <1>3. Given(at)
    BY <1>1, <1>2 DEF Given, Descs
  <1>4. ~Dirty(at)
    BY <1>2, DescsLines DEF LinesOK, Dirty
  <1>5. mem[at].own /\ (mem[at].ld <=> at = sg_len - 1)
    BY <1>2, <1>3, <1>4 DEF GivenOK, Ready
  <1>6. /\ \A d \in Descs : Given(d)' <=> Given(d) /\ d # at
        /\ at' \in Descs /\ running' \in BOOLEAN /\ (running' => at' < sg_len)
    <2>1. CASE mem[at].ld
      <3>1. ~running' /\ running' \in BOOLEAN /\ at' = at
        BY <2>1, Zenon DEF IdmacRun
      <3>2. at = sg_len - 1
        BY <1>5, <2>1
      <3>3. \A d \in Descs : ~(Given(d) /\ d # at)
        BY <1>2, <3>2 DEF Given, Descs
      <3> QED
        BY <1>1, <1>2, <3>1, <3>3 DEF Given
    <2>2. CASE ~mem[at].ld
      <3>1. running' /\ running' \in BOOLEAN
        BY <1>1, <2>2, Zenon DEF IdmacRun, TypeOK
      <3>2. at' = at + 1 /\ at' < sg_len
        BY <1>2, <1>5, <2>2 DEF IdmacRun, Descs
      <3>3. \A d \in Descs : Given(d)' <=> Given(d) /\ d # at
        BY <1>1, <1>2, <3>1, <3>2 DEF Given, Descs
      <3>4. at' \in Descs
        BY <1>2, <3>2, RingAssumption DEF Descs
      <3> QED
        BY <3>1, <3>2, <3>3, <3>4
    <2> QED
      BY <2>1, <2>2
  <1>7. \A d \in Descs : Dirty(d)' <=> Dirty(d)
    BY <1>1 DEF Dirty
  <1>8. TypeOK'
    BY <1>1, <1>2, <1>6 DEF TypeOK
  <1>9. ControlOK' /\ LinesOK'
    BY <1>1, <1>2, <1>6 DEF ControlOK, LinesOK
  <1>10. GivenOK'
    BY <1>1, <1>2, <1>6, <1>7 DEF GivenOK
  <1>11. LandingOK'
    BY <1>1, <1>2, <1>5 DEF LandingOK
  <1>12. Accounted' /\ DropsOK'
    BY <1>1, <1>2, <1>6 DEF Accounted, DropsOK
  <1> QED
    BY <1>8, <1>9, <1>10, <1>11, <1>12

LEMMA IdmacLandIInv ==
  ASSUME IInv, IdmacLand
  PROVE  IInv'
  <1> USE DEF IInv
  <1>1. PICK e \in landing : /\ mem' = [mem EXCEPT ![e].own = FALSE]
                             /\ landing' = landing \ {e}
    BY DEF IdmacLand
  <1>2. UNCHANGED <<sg_cpu_cached, cache, line, pc, sg_len, i, running, at, drops>>
    BY DEF IdmacLand
  <1>3. e \in Descs /\ landing \subseteq Descs
    BY DEF TypeOK
  <1>4. /\ mem' \in [Descs -> Desc] /\ ~mem'[e].own
        /\ \A d \in Descs \ {e} : mem'[d] = mem[d]
    BY <1>1, <1>3 DEF TypeOK, Desc
  <1>5. \A d \in Descs : Given(d)' <=> Given(d)
    BY <1>2 DEF Given
  <1>6. \A d \in Descs : (Dirty(d)' <=> Dirty(d)) /\ (Present(d)' <=> Present(d))
    BY <1>2 DEF Dirty, Present
  <1>7. TypeOK'
    BY <1>1, <1>2, <1>4 DEF TypeOK
  <1>8. ControlOK' /\ LinesOK'
    BY <1>2 DEF ControlOK, LinesOK
  <1>9. GivenOK'
    BY <1>1, <1>2, <1>4, <1>5, <1>6 DEF GivenOK
  <1>10. LandingOK'
    BY <1>1, <1>2, <1>3, <1>4, <1>6 DEF LandingOK
  <1>11. Accounted' /\ DropsOK'
    BY <1>1, <1>2, <1>4, <1>5, <1>6 DEF Accounted, DropsOK
  <1> QED
    BY <1>7, <1>8, <1>9, <1>10, <1>11

\* A line goes only after what it holds is in memory.
LEMMA EvictIInv ==
  ASSUME IInv, NEW l \in Lines, Evict(l)
  PROVE  IInv'
  <1> USE DEF IInv
  <1>1. /\ line[l] # "absent" /\ line' = [line EXCEPT ![l] = "absent"]
        /\ UNCHANGED <<sg_cpu_cached, cache, pc, sg_len, i, drops, running, at, landing>>
    BY DEF Evict, hardware
  <1>2. sg_cpu_cached
    BY <1>1 DEF LinesOK
  <1>3. /\ mem' \in [Descs -> Desc]
        /\ \A d \in Descs : LineOf(d) = l /\ Dirty(d) => mem'[d] = cache[d]
        /\ \A d \in Descs : ~(LineOf(d) = l /\ Dirty(d)) => mem'[d] = mem[d]
    BY DEF Evict, TypeOK
  <1>4. /\ \A d \in Descs : LineOf(d) = l => Present(d) /\ ~Present(d)' /\ ~Dirty(d)'
        /\ \A d \in Descs : LineOf(d) # l => (Present(d)' <=> Present(d)) /\ (Dirty(d)' <=> Dirty(d))
    BY <1>1, DescsLines DEF Present, Dirty, TypeOK
  <1>5. \A d \in Descs : Given(d)' <=> Given(d)
    BY <1>1 DEF Given
  <1>6. (\E d \in Descs : Dirty(d)) => pc = "prepare"
    BY DescsLines DEF LinesOK, Dirty
  <1>7. landing \subseteq Descs
    BY DEF TypeOK
  <1>8. TypeOK'
    BY <1>1, <1>3 DEF TypeOK
  <1>9. ControlOK' /\ LinesOK'
    BY <1>1, <1>2 DEF ControlOK, LinesOK, TypeOK
  <1>10. GivenOK'
    BY <1>1, <1>3, <1>4, <1>5, <1>6 DEF GivenOK
  <1>11. LandingOK'
    BY <1>1, <1>3, <1>4, <1>6, <1>7 DEF LandingOK
  <1>12. Accounted' /\ DropsOK'
    BY <1>1, <1>2, <1>3, <1>4, <1>5, <1>6 DEF Accounted, DropsOK
  <1> QED
    BY <1>8, <1>9, <1>10, <1>11, <1>12

LEMMA StepIInv == IInv /\ [Next]_vars => IInv'
  <1> SUFFICES ASSUME IInv, [Next]_vars PROVE IInv'
    OBVIOUS
  <1>1. CASE UNCHANGED vars
    <2>1. IInv' <=> IInv
      BY <1>1 DEF vars, IInv, TypeOK, ControlOK, LinesOK, GivenOK, LandingOK, Accounted,
                  DropsOK, Given, Present, Dirty
    <2> QED
      BY <2>1
  <1> QED
    BY <1>1, RequestIInv, PollOwnedIInv, FillDescIInv, PollTimeoutIInv, SyncForDeviceIInv,
       KickIInv, CompleteIInv, IdmacRunIInv, IdmacLandIInv, EvictIInv DEF Next, Driver

----------------------------------------------------------------------------

\* The invariant holds whatever the cache evicts, and whenever IDMAC's writes
\* land.
THEOREM Safety == Spec => []IInv
  <1>1. IInv /\ [Next]_vars => IInv'
    BY StepIInv
  <1> QED
    BY InitIInv, <1>1, PTL DEF Spec

\* Every variable stays in its type.
THEOREM TypeCorrect == Spec => []TypeOK
  <1>1. IInv => TypeOK
    BY DEF IInv
  <1> QED
    BY Safety, <1>1, PTL

\* IDMAC is never at a descriptor that is not this transfer's, and stops at its
\* last one.
THEOREM OwnTransfer == Spec => []RunsThisTransfer
  <1>1. ASSUME IInv, running
        PROVE  mem[at].current /\ mem[at].own /\ at < sg_len /\ (mem[at].ld <=> at = sg_len - 1)
    <2>1. pc = "busy" /\ at \in Descs /\ at < sg_len
      BY <1>1 DEF IInv, TypeOK, ControlOK
    <2>2. Given(at)
      BY <1>1, <2>1 DEF Given, Descs
    <2>3. ~Dirty(at)
      BY <1>1, <2>1, DescsLines DEF IInv, LinesOK, Dirty
    <2> QED
      BY <1>1, <2>1, <2>2, <2>3 DEF IInv, GivenOK, Ready
  <1>2. IInv => RunsThisTransfer
    BY <1>1 DEF RunsThisTransfer
  <1> QED
    BY Safety, <1>2, PTL

\* The invalidation a transfer begins with drops no write of the driver's.
THEOREM NothingLost == Spec => []InvalidateLossless
  <1>1. IInv => InvalidateLossless
    BY DEF IInv, LinesOK, InvalidateLossless
  <1> QED
    BY Safety, <1>1, PTL

\* No two transfers in a row are dropped, and behind the cache none is.
THEOREM RetryWorks == Spec => [](RetrySucceeds /\ CoherentNeverDrops)
  <1>1. IInv => RetrySucceeds /\ CoherentNeverDrops
    BY DEF IInv, TypeOK, DropsOK, RetrySucceeds, CoherentNeverDrops
  <1> QED
    BY Safety, <1>1, PTL

----------------------------------------------------------------------------
(* A transfer is finitely many steps and polls.                            *)

\* The driver's steps to the end of the transfer, and two for each descriptor
\* IDMAC has to carry out.
Todo ==
  CASE pc = "idle" -> 0
    [] pc = "prepare" -> 3 + (sg_len - i) + 2 * sg_len
    [] pc = "kick" -> 2 + 2 * sg_len
    [] pc = "busy" -> 1 + (IF running THEN 2 * (sg_len - at) ELSE 0)

\* What is left of it: those, and the OWN bits still to land.
Left == Todo + Cardinality(landing)

\* The steps that take a transfer to its end.
Advance ==
  \/ FillDesc \/ PollTimeout \/ SyncForDevice \/ Kick \/ Complete
  \/ IdmacRun \/ IdmacLand

\* Each brings the end nearer; a poll that goes round and the cache's evictions
\* do not put it off.
Nearer ==
  /\ Advance => Left' < Left
  /\ pc # "idle" => Left' <= Left

\* The OWN bits on their way can be counted.
LEMMA LandingFinite == TypeOK => IsFiniteSet(landing) /\ Cardinality(landing) \in Nat
  <1>1. IsFiniteSet(Descs)
    BY RingAssumption, FS_Interval DEF Descs
  <1> QED
    BY <1>1, FS_Subset, FS_CardinalityType DEF TypeOK

\* And so can what is left.
LEMMA LeftOK == IInv => Todo \in Nat /\ Left \in Nat
  <1> SUFFICES ASSUME IInv PROVE Todo \in Nat /\ Left \in Nat
    OBVIOUS
  <1>1. Todo \in Nat
    <2>1. sg_len \in Nat /\ i \in Nat /\ at \in Nat
      BY RingAssumption DEF IInv, TypeOK, Descs
    <2>2. /\ pc \in {"idle", "prepare", "kick", "busy"}
          /\ pc = "prepare" => i <= sg_len
          /\ running => at < sg_len
      BY DEF IInv, TypeOK, ControlOK
    <2> QED
      BY <2>1, <2>2 DEF Todo
  <1>2. Cardinality(landing) \in Nat
    BY LandingFinite DEF IInv
  <1> QED
    BY <1>1, <1>2 DEF Left

\* The driver's own steps leave what is to land alone.
LEMMA DriverNearer ==
  ASSUME IInv, FillDesc \/ PollTimeout \/ SyncForDevice \/ Kick \/ Complete
  PROVE  Left' < Left
  <1> USE DEF IInv
  <1>1. landing' = landing
    BY DEF FillDesc, PollTimeout, SyncForDevice, Kick, Complete, hardware
  <1>2. sg_len \in Nat /\ i \in Nat /\ sg_len' = sg_len
    BY RingAssumption
       DEF TypeOK, FillDesc, PollTimeout, SyncForDevice, Kick, Complete
  <1>3. Todo' \in Int /\ Todo \in Int /\ Todo' < Todo
    <2>1. CASE FillDesc
      BY <1>2, <2>1 DEF FillDesc, Todo
    <2>2. CASE PollTimeout
      BY <1>2, <2>2 DEF PollTimeout, Todo
    <2>3. CASE SyncForDevice
      BY <1>2, <2>3 DEF SyncForDevice, Todo
    <2>4. CASE Kick
      BY <1>2, <2>4 DEF Kick, Todo
    <2>5. CASE Complete
      BY <1>2, <2>5 DEF Complete, Todo, hardware
    <2> QED
      BY <2>1, <2>2, <2>3, <2>4, <2>5
  <1>4. Cardinality(landing) \in Nat
    BY LandingFinite
  <1> QED
    BY <1>1, <1>3, <1>4 DEF Left

LEMMA LessSum ==
  ASSUME NEW a \in Int, NEW b \in Int, NEW m \in Nat, NEW n \in Nat, b + 2 <= a, n <= m + 1
  PROVE  b + n < a + m
  OBVIOUS

\* Carrying out a descriptor leaves one OWN bit more to land, and two steps less.
LEMMA IdmacRunNearer == ASSUME IInv, IdmacRun PROVE Left' < Left
  <1> USE DEF IInv
  <1>1. pc = "busy" /\ pc' = pc /\ running /\ at \in Descs /\ at < sg_len
        /\ sg_len \in Nat /\ sg_len' = sg_len
    BY RingAssumption DEF IdmacRun, ControlOK, TypeOK
  <1>2. Todo \in Int /\ Todo' \in Int /\ Todo' + 2 <= Todo
    <2>1. Todo = 1 + 2 * (sg_len - at) /\ at \in Nat
      BY <1>1, RingAssumption DEF Todo, Descs
    <2>2. CASE mem[at].ld
      <3>1. Todo' = 1
        BY <1>1, <2>2 DEF IdmacRun, Todo
      <3> QED
        BY <1>1, <2>1, <3>1
    <2>3. CASE ~mem[at].ld
      <3>1. Todo' = 1 + 2 * (sg_len - (at + 1))
        BY <1>1, <2>3 DEF IdmacRun, Todo
      <3> QED
        BY <1>1, <2>1, <3>1
    <2> QED
      BY <2>2, <2>3
  <1>3. /\ Cardinality(landing) \in Nat /\ Cardinality(landing') \in Nat
        /\ Cardinality(landing') <= Cardinality(landing) + 1
    <2>1. IsFiniteSet(landing) /\ landing' = landing \cup {at}
      BY LandingFinite DEF IdmacRun
    <2> QED
      BY <2>1, LandingFinite, FS_AddElement
  <1> QED
    BY <1>2, <1>3, LessSum, Zenon DEF Left

\* A clear OWN bit that lands is one less.
LEMMA IdmacLandNearer == ASSUME IInv, IdmacLand PROVE Left' < Left
  <1>1. Todo' = Todo /\ Todo \in Nat
    BY LeftOK DEF IdmacLand, Todo
  <1>2. PICK d \in landing : landing' = landing \ {d}
    BY DEF IdmacLand
  <1>3. /\ Cardinality(landing) \in Nat /\ Cardinality(landing') \in Nat
        /\ Cardinality(landing') = Cardinality(landing) - 1
    <2>1. IsFiniteSet(landing) /\ Cardinality(landing) \in Nat
      BY LandingFinite DEF IInv
    <2>2. IsFiniteSet(landing') /\ Cardinality(landing') = Cardinality(landing) - 1
      BY <1>2, <2>1, FS_RemoveElement
    <2> QED
      BY <2>1, <2>2, FS_CardinalityType
  <1> QED
    BY <1>1, <1>3 DEF Left

\* A poll and an eviction touch neither.
LEMMA PollAndEvictSame ==
  ASSUME PollOwned \/ (\E l \in Lines : Evict(l)) \/ UNCHANGED vars
  PROVE  Left' = Left
  <1>1. UNCHANGED <<pc, sg_len, i, running, at, landing>>
    BY DEF PollOwned, Evict, hardware, vars
  <1> QED
    BY <1>1 DEF Left, Todo

LEMMA StepNearer == ASSUME IInv, [Next]_vars PROVE Nearer
  <1>0. Left' \in Nat
    <2>1. IInv'
      BY StepIInv
    <2>2. (IInv => Todo \in Nat /\ Left \in Nat)'
      BY LeftOK, PTL
    <2> QED
      BY <2>1, <2>2
  <1>1. Advance => Left' < Left
    BY DriverNearer, IdmacRunNearer, IdmacLandNearer DEF Advance
  <1>2. Left \in Nat
    BY LeftOK
  <1>3. ASSUME pc # "idle"
        PROVE  Left' <= Left
    <2>1. CASE Advance
      <3>1. Left' < Left
        BY <1>1, <2>1
      <3> QED
        BY <1>0, <1>2, <3>1
    <2>2. CASE ~Advance
      <3>1. PollOwned \/ (\E l \in Lines : Evict(l)) \/ UNCHANGED vars
        BY <1>3, <2>2 DEF Next, Driver, Advance, Request
      <3>2. Left' = Left
        BY <3>1, PollAndEvictSame
      <3> QED
        BY <1>2, <3>2
    <2> QED
      BY <2>1, <2>2
  <1> QED
    BY <1>1, <1>3 DEF Nearer

\* A transfer that has been asked for has finitely many steps of the driver's and
\* of IDMAC's left; the polls that find OWN set, which the 100 ms bound, and the
\* cache's evictions in between add none.
THEOREM TransferBounded == Spec => [](Left \in Nat) /\ [][Nearer]_vars
  <1>1. IInv => Left \in Nat
    BY LeftOK
  <1>2. IInv /\ [Next]_vars => [Nearer]_vars
    BY StepNearer
  <1> QED
    BY Safety, <1>1, <1>2, PTL DEF Spec
=============================================================================
