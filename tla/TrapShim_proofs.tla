--------------------------- MODULE TrapShim_proofs ---------------------------
(***************************************************************************)
(* TrapShim for any nesting of traps and of signal handlers: how a trap is *)
(* told apart and returned from, and which system calls are restarted.     *)
(***************************************************************************)
EXTENDS TrapShim, SequenceTheorems, TLAPS

\* What the k-th pt_regs holds at any time: which kind of trap it is of, what
\* the return will need, and how far the restart of a system call has got.
FrameOK(f, k) ==
  /\ f.tp = "user" <=> k = 1
  /\ f.mpp = "U" <=> k = 1
  /\ f.int <=> f.why = "irq"
  /\ ~f.minhv
  /\ IF k = 1 THEN f.was ELSE f.mpie <=> f.was
  /\ f.why = "ecall" => k = 1
  /\ f.code = "syscall" => f.why = "ecall"
  /\ \/ f.rewinds = 0
     \/ f.rewinds = 1 /\ f.result = "restart" /\ f.code # "syscall" /\ f.stage = "exit"

FramesOK == \A k \in 1 .. Len(frames) : FrameOK(frames[k], k)

\* While cause still says system call, an a0 that reads as a restart error is
\* the one that call returned.
RestartOK ==
  \A k \in 1 .. Len(frames) :
    frames[k].stage = "exit" /\ frames[k].code = "syscall" /\ a0 => frames[k].result = "restart"

ModeOK == priv = "M" /\ (InUser => mie)

\* The inductive invariant.
TrapIInv == TrapTypeOK /\ ModeOK /\ FramesOK /\ RestartOK

----------------------------------------------------------------------------

LEMMA InitTrap == TrapInit => TrapIInv
  <1> SUFFICES ASSUME TrapInit PROVE TrapIInv
    OBVIOUS
  <1>1. frames \in Seq(Regs) /\ sigframes \in Seq(BOOLEAN) /\ Len(frames) = 0 /\ Len(sigframes) = 0
    BY EmptySeq DEF TrapInit
  <1>2. TrapTypeOK
    <2>1. mie \in BOOLEAN /\ a0 \in BOOLEAN
      BY Zenon DEF TrapInit
    <2>2. mcause \in [int : BOOLEAN, minhv : BOOLEAN, mpp : {"M", "U"}, mpie : BOOLEAN]
      BY DEF TrapInit
    <2>3. Depth <= MaxTraps /\ Len(sigframes) <= MaxHandlers
      BY <1>1, TrapAssumption DEF Depth
    <2> QED
      BY <1>1, <2>1, <2>2, <2>3 DEF TrapInit, TrapTypeOK
  <1>3. ModeOK
    BY DEF TrapInit, ModeOK
  <1>4. FramesOK /\ RestartOK
    BY <1>1 DEF FramesOK, RestartOK
  <1> QED
    BY <1>2, <1>3, <1>4 DEF TrapIInv

\* In the kernel there is a trap being handled.
LEMMA TopFrame ==
  ASSUME TrapIInv, ~InUser
  PROVE  /\ Depth \in Nat \ {0} /\ Depth <= MaxTraps /\ Depth = Len(frames)
         /\ Top \in Regs /\ Top = frames[Depth] /\ FrameOK(Top, Depth)
  <1>1. frames \in Seq(Regs) /\ frames # <<>> /\ Depth = Len(frames) /\ Depth <= MaxTraps
    BY DEF TrapIInv, TrapTypeOK, InUser, Depth
  <1>2. Len(frames) \in Nat /\ Len(frames) # 0
    BY <1>1, EmptySeq
  <1>3. Depth \in 1 .. Len(frames)
    BY <1>1, <1>2
  <1>4. Top \in Regs
    BY <1>1, <1>3, ElementOfSeq DEF Top
  <1>5. FrameOK(Top, Depth)
    BY <1>1, <1>3 DEF TrapIInv, FramesOK, Top
  <1> QED
    BY <1>1, <1>2, <1>3, <1>4, <1>5, TrapAssumption DEF Top

\* What every step that changes one pt_regs has to show.
LEMMA FrameChange ==
  ASSUME TrapIInv, ~InUser, NEW k \in 1 .. Depth, NEW f \in Regs,
         frames' = [frames EXCEPT ![k] = f],
         FrameOK(f, k),
         f.stage = "exit" /\ f.code = "syscall" /\ a0' => f.result = "restart",
         (a0' => a0) \/ Depth = 1,
         UNCHANGED <<priv, mcause>>, mie' \in BOOLEAN, a0' \in BOOLEAN,
         sigframes' \in Seq(BOOLEAN), Len(sigframes') <= MaxHandlers
  PROVE  TrapIInv' /\ Depth' = Depth
  <1>1. /\ frames \in Seq(Regs) /\ Depth = Len(frames) /\ k \in 1 .. Len(frames)
        /\ Depth \in Nat \ {0} /\ Depth <= MaxTraps
    BY TopFrame DEF TrapIInv, TrapTypeOK
  <1>2. /\ frames' \in Seq(Regs) /\ Len(frames') = Len(frames)
        /\ \A j \in 1 .. Len(frames) : frames'[j] = IF j = k THEN f ELSE frames[j]
    BY <1>1, ExceptSeq
  <1>3. TrapTypeOK' /\ Depth' = Depth
    BY <1>1, <1>2 DEF TrapIInv, TrapTypeOK, Depth
  <1>4. frames' # <<>>
    BY <1>1, <1>2, EmptySeq
  <1>5. ModeOK'
    BY <1>4 DEF TrapIInv, ModeOK, InUser
  <1>6. FramesOK'
    BY <1>2 DEF TrapIInv, FramesOK
  <1>7. RestartOK'
    BY <1>1, <1>2 DEF TrapIInv, RestartOK
  <1> QED
    BY <1>3, <1>5, <1>6, <1>7 DEF TrapIInv

\* A trap is saved for what it is, and will be returned from as it was taken.
LEMMA TrapStep ==
  ASSUME TrapIInv, NEW why \in {"irq", "ecall", "fault"}, Trap(why)
  PROVE  TrapIInv' /\ Depth' = Depth + 1
  <1> DEFINE tp == IF InUser THEN "user" ELSE "kernel"
             f == [tp |-> tp, mpp |-> EntryMpp(tp), mpie |-> mie,
                   int |-> why = "irq", minhv |-> FALSE, code |-> EntryCode(why),
                   why |-> why, was |-> mie, stage |-> "entered", result |-> "none",
                   rewinds |-> 0]
  <1>1. /\ frames \in Seq(Regs) /\ Len(frames) \in Nat /\ Len(frames) < MaxTraps
        /\ mie \in BOOLEAN /\ priv = "M"
        /\ (InUser => mie) /\ (why = "ecall" => InUser)
    BY DEF Trap, TrapIInv, TrapTypeOK, ModeOK, Depth
  <1>2. InUser <=> Len(frames) + 1 = 1
    BY <1>1, EmptySeq DEF InUser
  <1>3. f \in Regs
    BY <1>1 DEF Regs, EntryMpp, EntryCode
  <1>4. FrameOK(f, Len(frames) + 1) /\ f.stage # "exit"
    BY <1>1, <1>2 DEF FrameOK, EntryMpp, EntryCode
  <1>5. frames' = Append(frames, f) /\ UNCHANGED <<a0, sigframes>>
    BY DEF Trap
  <1> HIDE DEF f
  <1>6. /\ frames' \in Seq(Regs) /\ Len(frames') = Len(frames) + 1
        /\ \A j \in 1 .. Len(frames) : frames'[j] = frames[j]
        /\ frames'[Len(frames) + 1] = f
    BY <1>1, <1>3, <1>5, AppendProperties
  <1>7. \A j \in 1 .. Len(frames') : j \in 1 .. Len(frames) \/ j = Len(frames) + 1
    BY <1>1, <1>6
  <1>8. TrapTypeOK' /\ Depth' = Depth + 1
    <2>1. mcause' \in [int : BOOLEAN, minhv : BOOLEAN, mpp : {"M", "U"}, mpie : BOOLEAN]
      BY <1>1 DEF Trap
    <2>2. mie' = FALSE /\ priv' = "M"
      BY DEF Trap
    <2>3. mie' \in BOOLEAN
      BY <2>2, Zenon
    <2> QED
      BY <1>1, <1>5, <1>6, <2>1, <2>2, <2>3, TrapAssumption DEF TrapIInv, TrapTypeOK, Depth
  <1>9. ModeOK'
    <2>1. frames' # <<>>
      BY <1>1, <1>6, EmptySeq
    <2> QED
      BY <2>1 DEF Trap, ModeOK, InUser
  <1>10. FramesOK'
    BY <1>4, <1>6, <1>7 DEF TrapIInv, FramesOK
  <1>11. RestartOK'
    BY <1>4, <1>5, <1>6, <1>7 DEF TrapIInv, RestartOK
  <1> QED
    BY <1>8, <1>9, <1>10, <1>11 DEF TrapIInv

\* The return puts back what the trap found.
LEMMA ReturnStep ==
  ASSUME TrapIInv, Return
  PROVE  TrapIInv' /\ ReturnExact /\ Depth' = Depth - 1
  <1>1. /\ Depth \in Nat \ {0} /\ Depth <= MaxTraps /\ Depth = Len(frames)
        /\ Top \in Regs /\ FrameOK(Top, Depth) /\ frames \in Seq(Regs)
    BY TopFrame DEF Return, TrapIInv, TrapTypeOK
  <1>2. /\ frames' \in Seq(Regs) /\ Len(frames') = Depth - 1
        /\ \A j \in 1 .. Depth - 1 : frames'[j] = frames[j]
    <2>1. frames' = SubSeq(frames, 1, Depth - 1)
      BY DEF Return
    <2> QED
      BY <1>1, <2>1, SubSeqProperties
  <1>3. /\ mcause' \in [int : BOOLEAN, minhv : BOOLEAN, mpp : {"M", "U"}, mpie : BOOLEAN]
        /\ mcause'.mpp = "M" /\ ~mcause'.minhv
        /\ mcause'.int <=> Top.why = "irq"
        /\ mcause'.mpie <=> Top.was
        /\ Depth = 1 => mcause'.mpie
    <2>1. /\ Top.tp = "user" <=> Depth = 1
          /\ Top.mpp = "U" <=> Depth = 1
          /\ Top.int <=> Top.why = "irq"
          /\ IF Depth = 1 THEN Top.was ELSE Top.mpie <=> Top.was
      BY <1>1 DEF FrameOK
    <2>2. Top.mpp \in {"M", "U"} /\ Top.int \in BOOLEAN /\ Top.mpie \in BOOLEAN
      BY <1>1 DEF Regs
    <2>3. mcause' = ExitCause(Top)
      BY DEF Return
    <2> QED
      BY <2>1, <2>2, <2>3 DEF ExitCause
  <1>4. mie' = mcause'.mpie /\ priv' = mcause'.mpp /\ UNCHANGED <<a0, sigframes>>
    BY DEF Return
  <1>5. mie' \in BOOLEAN /\ (mie' <=> Top.was) /\ (Depth = 1 => mie') /\ priv' = "M"
    BY <1>3, <1>4
  <1>6. TrapTypeOK' /\ Depth' = Depth - 1
    BY <1>1, <1>2, <1>3, <1>4, <1>5, TrapAssumption DEF TrapIInv, TrapTypeOK, Depth
  <1>7. ModeOK'
    <2>1. frames' = <<>> => Depth = 1
      <3>1. frames' = <<>> => Len(frames') = 0
        BY EmptySeq
      <3>2. Len(frames') = Depth - 1 /\ Depth \in Nat
        BY <1>1, <1>2
      <3> QED
        BY <3>1, <3>2
    <2> QED
      BY <1>5, <2>1 DEF ModeOK, InUser
  <1>8. FramesOK' /\ RestartOK'
    BY <1>1, <1>2, <1>4 DEF TrapIInv, FramesOK, RestartOK
  <1>9. ReturnExact
    <2>1. Top.was \in BOOLEAN
      BY <1>1 DEF Regs
    <2>2. mie' = Top.was
      BY <1>5, <2>1, Zenon
    <2> QED
      BY <1>3, <1>5, <2>2 DEF ReturnExact
  <1> QED
    BY <1>6, <1>7, <1>8, <1>9 DEF TrapIInv

----------------------------------------------------------------------------

LEMMA IrqsOnStep ==
  ASSUME TrapIInv, IrqsOn
  PROVE  TrapIInv' /\ Depth' = Depth
  <1> DEFINE f == [Top EXCEPT !.stage = "body"]
  <1>1. Depth \in 1 .. Depth /\ Top \in Regs /\ FrameOK(Top, Depth)
    BY TopFrame DEF IrqsOn
  <1>2. f \in Regs /\ f.stage # "exit"
    BY <1>1 DEF Regs
  <1>3. FrameOK(f, Depth)
    BY <1>1 DEF IrqsOn, FrameOK, Regs
  <1>4. frames' = [frames EXCEPT ![Depth] = f] /\ UNCHANGED <<priv, mcause, a0, sigframes>>
    BY DEF IrqsOn, SetTop
  <1>5. mie' = TRUE
    BY DEF IrqsOn
  <1>6. mie' \in BOOLEAN
    BY <1>5, Zenon
  <1>7. ~InUser /\ a0' \in BOOLEAN /\ (a0' => a0) /\ sigframes' \in Seq(BOOLEAN)
        /\ Len(sigframes') <= MaxHandlers
    BY <1>4 DEF IrqsOn, TrapIInv, TrapTypeOK
  <1> HIDE DEF f
  <1> QED
    BY <1>1, <1>2, <1>3, <1>4, <1>6, <1>7, FrameChange

LEMMA LockStep ==
  ASSUME TrapIInv, LockIrqs \/ UnlockIrqs
  PROVE  TrapIInv' /\ Depth' = Depth
  <1>1. mie' \in BOOLEAN
    BY Zenon DEF LockIrqs, UnlockIrqs
  <1>2. UNCHANGED <<priv, mcause, frames, a0, sigframes>> /\ ~InUser /\ ~InUser'
    BY DEF LockIrqs, UnlockIrqs, InUser
  <1> QED
    BY <1>1, <1>2 DEF TrapIInv, TrapTypeOK, ModeOK, FramesOK, RestartOK, Depth

LEMMA DoneStep ==
  ASSUME TrapIInv, FaultDone \/ IrqDone
  PROVE  TrapIInv' /\ Depth' = Depth
  <1> DEFINE f == [Top EXCEPT !.stage = "exit"]
  <1>1. Depth \in 1 .. Depth /\ Top \in Regs /\ FrameOK(Top, Depth) /\ Top.why \in {"fault", "irq"}
    BY TopFrame DEF FaultDone, IrqDone
  <1>2. f \in Regs /\ f.code # "syscall"
    BY <1>1 DEF Regs, FrameOK
  <1>3. FrameOK(f, Depth)
    BY <1>1 DEF FaultDone, IrqDone, FrameOK, Regs
  <1>4. frames' = [frames EXCEPT ![Depth] = f] /\ UNCHANGED <<priv, mcause, a0, sigframes>>
    BY DEF FaultDone, IrqDone, SetTop
  <1>5. mie' = FALSE \/ mie' = mie
    BY DEF FaultDone, IrqDone
  <1>6. mie \in BOOLEAN
    BY DEF TrapIInv, TrapTypeOK
  <1>7. mie' \in BOOLEAN
    BY <1>5, <1>6, Zenon
  <1> QED
    BY <1>1, <1>2, <1>3, <1>4, <1>7, FrameChange DEF FaultDone, IrqDone, TrapIInv, TrapTypeOK

LEMMA SyscallDoneStep ==
  ASSUME TrapIInv, SyscallDone
  PROVE  TrapIInv' /\ Depth' = Depth
  <1>1. PICK r \in {"done", "restart"} :
          /\ frames' = [frames EXCEPT ![Depth] = [Top EXCEPT !.stage = "exit", !.result = r]]
          /\ a0' = (r = "restart")
    BY DEF SyscallDone, SetTop
  <1> DEFINE f == [Top EXCEPT !.stage = "exit", !.result = r]
  <1>2. /\ Depth \in 1 .. Depth /\ Top \in Regs /\ FrameOK(Top, Depth)
        /\ Top.why = "ecall" /\ Top.stage = "body"
    BY TopFrame DEF SyscallDone
  <1>3. Depth = 1
    BY <1>2 DEF FrameOK
  <1>4. f \in Regs /\ f.result = r
    BY <1>2 DEF Regs
  <1>5. FrameOK(f, Depth)
    BY <1>2 DEF FrameOK, Regs
  <1>6. a0' \in BOOLEAN /\ (a0' => f.result = "restart")
    BY <1>1, <1>4, Zenon
  <1>7. mie' \in BOOLEAN
    BY Zenon DEF SyscallDone
  <1>8. UNCHANGED <<priv, mcause, sigframes>> /\ ~InUser
    BY DEF SyscallDone
  <1>9. frames' = [frames EXCEPT ![Depth] = f]
    BY <1>1
  <1> HIDE DEF f
  <1> QED
    BY <1>2, <1>3, <1>4, <1>5, <1>6, <1>7, <1>8, <1>9, FrameChange DEF TrapIInv, TrapTypeOK

\* After rt_sigreturn cause says neither system call nor interrupt.
LEMMA SigreturnStep ==
  ASSUME TrapIInv, Sigreturn
  PROVE  TrapIInv' /\ Depth' = Depth
  <1> DEFINE f == [Top EXCEPT !.stage = "exit", !.result = "sigreturn",
                              !.int = FALSE, !.code = "zero"]
  <1>1. /\ Depth \in 1 .. Depth /\ Top \in Regs /\ FrameOK(Top, Depth)
        /\ Top.why = "ecall" /\ Top.stage = "body"
    BY TopFrame DEF Sigreturn
  <1>2. Depth = 1
    BY <1>1 DEF FrameOK
  <1>3. f \in Regs /\ f.code # "syscall"
    BY <1>1 DEF Regs
  <1>4. FrameOK(f, Depth)
    BY <1>1 DEF FrameOK, Regs
  <1>5. /\ frames' = [frames EXCEPT ![Depth] = f] /\ UNCHANGED <<priv, mcause>> /\ ~InUser
        /\ a0' = sigframes[Len(sigframes)]
        /\ sigframes' = SubSeq(sigframes, 1, Len(sigframes) - 1)
        /\ sigframes # <<>>
    BY DEF Sigreturn, SetTop
  <1>6. sigframes \in Seq(BOOLEAN) /\ Len(sigframes) \in Nat \ {0} /\ Len(sigframes) <= MaxHandlers
    BY <1>5, EmptySeq DEF TrapIInv, TrapTypeOK
  <1>7. a0' \in BOOLEAN
    <2>1. Len(sigframes) \in 1 .. Len(sigframes)
      BY <1>6
    <2> QED
      BY <1>5, <1>6, <2>1, ElementOfSeq
  <1>8. sigframes' \in Seq(BOOLEAN) /\ Len(sigframes') <= MaxHandlers
    <2>1. PICK n \in Nat : n = Len(sigframes) - 1
      BY <1>6
    <2>2. \A j \in 1 .. n : sigframes[j] \in BOOLEAN
      <3>1. \A j \in 1 .. n : j \in 1 .. Len(sigframes)
        BY <1>6, <2>1
      <3> QED
        BY <1>6, <3>1, ElementOfSeq
    <2>3. SubSeq(sigframes, 1, n) \in Seq(BOOLEAN) /\ Len(SubSeq(sigframes, 1, n)) <= n
      BY <2>2, SubSeqProperties
    <2>4. sigframes' = SubSeq(sigframes, 1, n)
      BY <1>5, <2>1
    <2> QED
      BY <1>6, <2>1, <2>3, <2>4, TrapAssumption
  <1>9. mie' \in BOOLEAN
    BY Zenon DEF Sigreturn
  <1> HIDE DEF f
  <1> QED
    BY <1>1, <1>2, <1>3, <1>4, <1>5, <1>7, <1>8, <1>9, FrameChange

\* What signal work makes of a trap's pt_regs.
Signalled(g, n, c) == [g EXCEPT !.rewinds = n, !.code = c]

LEMMA SignalledOK ==
  ASSUME NEW g \in Regs, NEW n \in 0 .. 3, NEW c \in {"irq", "fault", "zero"}
  PROVE  /\ Signalled(g, n, c) \in Regs /\ Signalled(g, n, c).code = c
         /\ Signalled(g, n, c).stage = g.stage /\ Signalled(g, n, c).result = g.result
  BY DEF Signalled, Regs

\* A restart uses up the error of the system call: cause is 0 afterwards.
LEMMA SignalStep ==
  ASSUME TrapIInv, Signal
  PROVE  TrapIInv' /\ Depth' = Depth
  <1>1. PICK back \in BOOLEAN, restored \in BOOLEAN :
          /\ back => Restartable
          /\ SetTop([Top EXCEPT !.rewinds = IF back THEN @ + 1 ELSE @,
                                !.code = IF @ = "syscall" THEN "zero" ELSE @])
          /\ \/ /\ Len(sigframes) < MaxHandlers
                /\ sigframes' = Append(sigframes, restored)
                /\ a0' = FALSE
             \/ a0' = restored /\ UNCHANGED sigframes
    BY DEF Signal
  <1> DEFINE f == [Top EXCEPT !.rewinds = IF back THEN @ + 1 ELSE @,
                              !.code = IF @ = "syscall" THEN "zero" ELSE @]
  <1>2. Depth = 1 /\ Top.stage = "exit" /\ UNCHANGED <<mie, priv, mcause>>
    BY DEF Signal
  <1>3. ~InUser
    <2>1. frames = <<>> => Len(frames) = 0
      BY EmptySeq
    <2> QED
      BY <1>2, <2>1 DEF InUser, Depth
  <1>4. Top \in Regs /\ FrameOK(Top, 1) /\ Top = frames[1] /\ 1 \in 1 .. Len(frames)
    <2>1. Top \in Regs /\ Top = frames[Depth] /\ Depth = Len(frames) /\ FrameOK(Top, Depth)
      BY <1>3, TopFrame
    <2> QED
      BY <1>2, <2>1
  <1>5. back => Top.rewinds = 0 /\ Top.result = "restart" /\ Top.code = "syscall"
    BY <1>1, <1>2, <1>4 DEF Restartable, FrameOK, TrapIInv, RestartOK
  <1>6. Top.code = "syscall" => Top.rewinds = 0
    BY <1>4 DEF FrameOK
  <1>7. f \in Regs /\ f.code # "syscall" /\ f.stage = "exit" /\ f.result = Top.result
    <2>1. (IF back THEN Top.rewinds + 1 ELSE Top.rewinds) \in 0 .. 3
      BY <1>4, <1>5 DEF Regs
    <2>2. (IF Top.code = "syscall" THEN "zero" ELSE Top.code) \in {"irq", "fault", "zero"}
      BY <1>4 DEF Regs
    <2>4. PICK n \in 0 .. 3 : n = IF back THEN Top.rewinds + 1 ELSE Top.rewinds
      BY <2>1
    <2>5. PICK c \in {"irq", "fault", "zero"} :
            c = IF Top.code = "syscall" THEN "zero" ELSE Top.code
      BY <2>2
    <2>6. f = Signalled(Top, n, c)
      BY <1>4, <2>4, <2>5 DEF Signalled, Regs
    <2> HIDE DEF f
    <2>7. f \in Regs /\ f.code = c /\ f.stage = Top.stage /\ f.result = Top.result
      BY <1>4, <2>6, SignalledOK
    <2> QED
      BY <1>2, <2>7
  <1>8. f.rewinds = (IF back THEN 1 ELSE Top.rewinds)
    BY <1>4, <1>5 DEF Regs
  <1>9. FrameOK(f, 1)
    <2>1. f.rewinds = 0 \/ (f.rewinds = 1 /\ f.result = "restart")
      BY <1>4, <1>5, <1>7, <1>8 DEF FrameOK
    <2>2. /\ f.tp = Top.tp /\ f.mpp = Top.mpp /\ f.int = Top.int /\ f.minhv = Top.minhv
          /\ f.mpie = Top.mpie /\ f.was = Top.was /\ f.why = Top.why
      BY <1>4 DEF Regs
    <2> HIDE DEF f
    <2> QED
      BY <1>4, <1>7, <2>1, <2>2 DEF FrameOK
  <1>10. frames' = [frames EXCEPT ![1] = f]
    BY <1>1, <1>2 DEF SetTop
  <1>11. a0' = FALSE \/ a0' = restored
    BY <1>1
  <1>12. a0' \in BOOLEAN
    BY <1>11, Zenon
  <1>13. mie' \in BOOLEAN
    BY <1>2 DEF TrapIInv, TrapTypeOK
  <1>14. sigframes' \in Seq(BOOLEAN) /\ Len(sigframes') <= MaxHandlers
    <2>1. sigframes \in Seq(BOOLEAN) /\ Len(sigframes) <= MaxHandlers /\ Len(sigframes) \in Nat
      BY DEF TrapIInv, TrapTypeOK
    <2>2. CASE Len(sigframes) < MaxHandlers /\ sigframes' = Append(sigframes, restored)
      BY <2>1, <2>2, AppendProperties, TrapAssumption
    <2>3. CASE UNCHANGED sigframes
      BY <2>1, <2>3
    <2> QED
      BY <1>1, <2>2, <2>3
  <1> HIDE DEF f
  <1> QED
    <2>1. 1 \in 1 .. Depth
      BY <1>2
    <2> QED
      BY <1>2, <1>3, <1>7, <1>9, <1>10, <1>12, <1>13, <1>14, <2>1, FrameChange

\* What 0023 found costs nothing: a user's mpie is not believed.
LEMMA MpieLostStep ==
  ASSUME TrapIInv, MpieLost
  PROVE  TrapIInv' /\ Depth' = Depth
  <1> DEFINE f == [frames[1] EXCEPT !.mpie = FALSE]
  <1>1. /\ ~InUser /\ frames' = [frames EXCEPT ![1].mpie = FALSE]
        /\ UNCHANGED <<mie, priv, mcause, a0, sigframes>>
    BY DEF MpieLost
  <1>2. 1 \in 1 .. Depth /\ frames \in Seq(Regs) /\ Depth = Len(frames)
    BY <1>1, TopFrame DEF TrapIInv, TrapTypeOK
  <1>3. frames[1] \in Regs /\ FrameOK(frames[1], 1)
    BY <1>2, ElementOfSeq DEF TrapIInv, FramesOK
  <1>4. f \in Regs /\ f.stage = frames[1].stage /\ f.code = frames[1].code
        /\ f.result = frames[1].result
    BY <1>3 DEF Regs
  <1>5. FrameOK(f, 1)
    BY <1>3 DEF FrameOK, Regs
  <1>6. f.stage = "exit" /\ f.code = "syscall" /\ a0' => f.result = "restart"
    BY <1>1, <1>2, <1>4 DEF TrapIInv, RestartOK
  <1>7. frames' = [frames EXCEPT ![1] = f]
    BY <1>1
  <1> HIDE DEF f
  <1> QED
    BY <1>1, <1>2, <1>4, <1>5, <1>6, <1>7, FrameChange DEF TrapIInv, TrapTypeOK

LEMMA UserStep ==
  ASSUME TrapIInv, UserRuns
  PROVE  TrapIInv' /\ Depth' = Depth
  <1>1. a0' \in BOOLEAN
    BY Zenon DEF UserRuns
  <1>2. UNCHANGED <<mie, priv, mcause, frames, sigframes>> /\ Len(frames) = 0
    BY EmptySeq DEF UserRuns, InUser
  <1> QED
    BY <1>1, <1>2 DEF TrapIInv, TrapTypeOK, ModeOK, FramesOK, RestartOK, InUser, Depth

\* Every step keeps the invariant, and whatever leaves a trap leaves it exactly.
LEMMA TrapNextIInv == TrapIInv /\ [TrapNext]_trapVars => TrapIInv' /\ ReturnExact
  <1> SUFFICES ASSUME TrapIInv, [TrapNext]_trapVars PROVE TrapIInv' /\ ReturnExact
    OBVIOUS
  <1>1. Depth \in Nat
    BY DEF TrapIInv, TrapTypeOK, Depth
  <1>2. CASE Return
    BY <1>2, ReturnStep
  <1>3. CASE UNCHANGED trapVars
    <2>1. TrapIInv' /\ Depth' = Depth
      BY <1>3 DEF trapVars, TrapIInv, TrapTypeOK, ModeOK, FramesOK, RestartOK, InUser, Depth
    <2> QED
      BY <1>1, <2>1 DEF ReturnExact
  <1>4. ASSUME NEW why \in {"irq", "ecall", "fault"}, Trap(why)
        PROVE  TrapIInv' /\ ReturnExact
    BY <1>1, <1>4, TrapStep DEF ReturnExact
  <1>5. CASE IrqsOn \/ LockIrqs \/ UnlockIrqs \/ FaultDone \/ IrqDone \/ SyscallDone
             \/ Sigreturn \/ Signal \/ MpieLost \/ UserRuns
    <2>1. TrapIInv' /\ Depth' = Depth
      BY <1>5, IrqsOnStep, LockStep, DoneStep, SyscallDoneStep, SigreturnStep, SignalStep,
         MpieLostStep, UserStep
    <2> QED
      BY <1>1, <2>1 DEF ReturnExact
  <1> QED
    BY <1>2, <1>3, <1>4, <1>5 DEF TrapNext, KernelStep

\* What the invariant says of the two state properties.
LEMMA TrapProperties == TrapIInv => TrapTypeOK /\ ClassifiesTraps /\ RestartJustified
  <1> SUFFICES ASSUME TrapIInv PROVE TrapTypeOK /\ ClassifiesTraps /\ RestartJustified
    OBVIOUS
  <1>1. frames \in Seq(Regs) /\ DOMAIN frames = 1 .. Len(frames)
    BY LenProperties DEF TrapIInv, TrapTypeOK
  <1>2. ASSUME NEW k \in 1 .. Len(frames)
        PROVE  /\ UserMode(frames[k]) <=> k = 1
               /\ frames[k].rewinds <= IF frames[k].result = "restart" THEN 1 ELSE 0
    <2>1. FrameOK(frames[k], k) /\ frames[k] \in Regs
      BY <1>1, ElementOfSeq DEF TrapIInv, FramesOK
    <2> QED
      BY <2>1 DEF FrameOK, Regs, UserMode
  <1> QED
    BY <1>1, <1>2 DEF TrapIInv, ClassifiesTraps, RestartJustified

----------------------------------------------------------------------------

\* The invariant holds for any nesting of traps and handlers.
THEOREM TrapSafety == TrapSpec => []TrapIInv
  <1>1. TrapIInv /\ [TrapNext]_trapVars => TrapIInv'
    BY TrapNextIInv
  <1> QED
    BY InitTrap, <1>1, PTL DEF TrapSpec

\* Each trap's return restores the interrupt enable it was taken with, in
\* machine mode, whatever nested in it and whatever became of its pt_regs.
THEOREM TrapReturns == TrapSpec => ReturnsAsTrapped
  <1>1. TrapIInv /\ [TrapNext]_trapVars => [ReturnExact]_trapVars
    BY TrapNextIInv
  <1> QED
    BY TrapSafety, <1>1, PTL DEF TrapSpec, ReturnsAsTrapped
=============================================================================
