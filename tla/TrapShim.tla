------------------------------ MODULE TrapShim ------------------------------
(***************************************************************************)
(* Traps into the kernel and back on a core whose interrupts follow CLIC   *)
(* v0.9 (entry.S and signal.c of patches/linux/0001, with 0014, 0023 and   *)
(* 0031).  The saved interrupt enable and privilege live in mcause, the    *)
(* kernel looks for them in pt_regs->status, so one shim rebuilds status   *)
(* at entry and another rebuilds mcause before mret.  User tasks run in    *)
(* machine mode; only the thread pointer tells them from the kernel.       *)
(*                                                                         *)
(* pt_regs->cause is also what the signal code decides on whether a system *)
(* call is to be restarted, and it goes back to mcause with the return.    *)
(***************************************************************************)
EXTENDS Integers, Sequences

CONSTANTS
  MaxTraps,    \* traps that nest: bounds the model
  MaxHandlers  \* signal handlers that nest: bounds the model

ASSUME TrapAssumption == MaxTraps \in Nat \ {0} /\ MaxHandlers \in Nat

VARIABLES
  mie,      \* mstatus.MIE
  priv,     \* the privilege the core is in
  mcause,   \* the CSR, as mret reads it
  frames,   \* the pt_regs of the traps being handled, outermost first
  a0,       \* the user's a0: whether it reads as a restart error
  sigframes \* the a0 each running signal handler will return to

trapVars == <<mie, priv, mcause, frames, a0, sigframes>>

----------------------------------------------------------------------------

\* A pt_regs: tp is the pre-trap thread pointer, mpp and mpie are of status,
\* int, minhv and code of cause.  The rest is history: why the trap was taken,
\* MIE at that time, the stage its handling is at, what the system call came
\* to, and how often epc was moved back to the ecall.
Regs ==
  [tp : {"user", "kernel"}, mpp : {"M", "U"}, mpie : BOOLEAN,
   int : BOOLEAN, minhv : BOOLEAN, code : {"irq", "syscall", "fault", "zero"},
   why : {"irq", "ecall", "fault"}, was : BOOLEAN,
   stage : {"entered", "body", "exit"},
   result : {"none", "done", "restart", "sigreturn"}, rewinds : 0 .. 3]

InUser == frames = <<>>

Depth == Len(frames)

Top == frames[Depth]

SetTop(f) == frames' = [frames EXCEPT ![Depth] = f]

----------------------------------------------------------------------------
(* Entry.                                                                  *)

\* What it must not be: the privilege the hardware saved, always M here.
EntryMppHardware(tp) == mcause'.mpp

\* PT_STATUS.MPP is M for a kernel trap only: SCRATCH held the kernel's tp.
EntryMpp(tp) == IF tp = "kernel" THEN "M" ELSE "U"

\* PT_CAUSE: an ecall from machine mode is stored as EXC_SYSCALL.
EntryCode(why) == IF why = "ecall" THEN "syscall" ELSE why

\* The hardware saves what it leaves in mcause and masks interrupts; then
\* the entry shim saves pt_regs.
Trap(why) ==
  LET tp == IF InUser THEN "user" ELSE "kernel" IN
  /\ Depth < MaxTraps
  /\ why = "irq" => mie
  /\ why = "ecall" => InUser
  /\ mcause' = [int |-> why = "irq", minhv |-> FALSE, mpp |-> priv, mpie |-> mie]
  /\ mie' = FALSE /\ priv' = "M"
  /\ frames' = Append(frames,
       [tp |-> tp, mpp |-> EntryMpp(tp), mpie |-> mie,
        int |-> why = "irq", minhv |-> FALSE, code |-> EntryCode(why),
        why |-> why, was |-> mie, stage |-> "entered", result |-> "none", rewinds |-> 0])
  /\ UNCHANGED <<a0, sigframes>>

\* user_mode(regs)
UserMode(regs) == regs.mpp # "M"

----------------------------------------------------------------------------
(* The kernel in between.                                                  *)

\* do_trap_*: an exception from where interrupts were on is handled with them
\* on; an interrupt is not.
IrqsOn ==
  /\ ~InUser /\ Top.stage = "entered" /\ Top.why # "irq" /\ Top.was
  /\ mie' = TRUE
  /\ SetTop([Top EXCEPT !.stage = "body"])
  /\ UNCHANGED <<priv, mcause, a0, sigframes>>

\* A section of the body under spin_lock_irqsave.
LockIrqs ==
  /\ ~InUser /\ Top.stage = "body" /\ mie
  /\ mie' = FALSE
  /\ UNCHANGED <<priv, mcause, frames, a0, sigframes>>

UnlockIrqs ==
  /\ ~InUser /\ Top.stage = "body" /\ ~mie
  /\ mie' = TRUE
  /\ UNCHANGED <<priv, mcause, frames, a0, sigframes>>

\* The handling of an exception ends, with interrupts off.
FaultDone ==
  /\ ~InUser /\ Top.why = "fault"
  /\ \/ Top.stage = "body" /\ mie
     \/ Top.stage = "entered" /\ ~Top.was
  /\ mie' = FALSE
  /\ SetTop([Top EXCEPT !.stage = "exit"])
  /\ UNCHANGED <<priv, mcause, a0, sigframes>>

IrqDone ==
  /\ ~InUser /\ Top.why = "irq" /\ Top.stage = "entered"
  /\ SetTop([Top EXCEPT !.stage = "exit"])
  /\ UNCHANGED <<mie, priv, mcause, a0, sigframes>>

\* A system call returns a result, or an error that asks for its restart.
SyscallDone ==
  /\ ~InUser /\ Top.why = "ecall" /\ Top.stage = "body" /\ mie
  /\ mie' = FALSE
  /\ \E r \in {"done", "restart"} :
       /\ SetTop([Top EXCEPT !.stage = "exit", !.result = r])
       /\ a0' = (r = "restart")
  /\ UNCHANGED <<priv, mcause, sigframes>>

\* What it must not be: cause keeps the code of a system call for whatever a0
\* is restored.
SigreturnKeepsCause ==
  /\ ~InUser /\ Top.why = "ecall" /\ Top.stage = "body" /\ mie /\ sigframes # <<>>
  /\ mie' = FALSE
  /\ a0' = sigframes[Len(sigframes)]
  /\ sigframes' = SubSeq(sigframes, 1, Len(sigframes) - 1)
  /\ SetTop([Top EXCEPT !.stage = "exit", !.result = "sigreturn"])
  /\ UNCHANGED <<priv, mcause>>

\* rt_sigreturn: the interrupted registers come back, and cause becomes 0.
Sigreturn ==
  /\ ~InUser /\ Top.why = "ecall" /\ Top.stage = "body" /\ mie /\ sigframes # <<>>
  /\ mie' = FALSE
  /\ a0' = sigframes[Len(sigframes)]
  /\ sigframes' = SubSeq(sigframes, 1, Len(sigframes) - 1)
  /\ SetTop([Top EXCEPT !.stage = "exit", !.result = "sigreturn",
                        !.int = FALSE, !.code = "zero"])
  /\ UNCHANGED <<priv, mcause>>

Restartable == Top.code = "syscall" /\ a0

\* arch_do_signal_or_restart, once for each turn of the exit loop that finds
\* a signal.  A restart moves epc back and takes a0 from orig_a0, whatever that
\* is; a handler may turn it into EINTR, and has the registers put on the
\* user's stack.  cause is 0 from then on.
Signal ==
  /\ Depth = 1 /\ Top.stage = "exit"
  /\ \E back, restored \in BOOLEAN :
       /\ back => Restartable
       /\ ~back => restored = (a0 /\ ~Restartable)
       /\ SetTop([Top EXCEPT !.rewinds = IF back THEN @ + 1 ELSE @,
                             !.code = IF @ = "syscall" THEN "zero" ELSE @])
       /\ \/ /\ Len(sigframes) < MaxHandlers
             /\ sigframes' = Append(sigframes, restored)
             /\ a0' = FALSE
          \/ /\ Restartable => back
             /\ a0' = restored
             /\ UNCHANGED sigframes
  /\ UNCHANGED <<mie, priv, mcause>>

\* External: what 0023 found to happen to a task that is switched away from
\* or sent a signal.
MpieLost ==
  /\ ~InUser /\ frames[1].mpie
  /\ frames' = [frames EXCEPT ![1].mpie = FALSE]
  /\ UNCHANGED <<mie, priv, mcause, a0, sigframes>>

----------------------------------------------------------------------------
(* Exit.                                                                   *)

\* What it must not be: 0001 before 0023, which believes pt_regs->status.
ExitCauseBelieving(regs) ==
  [int |-> regs.int, minhv |-> FALSE, mpp |-> "M", mpie |-> regs.mpie]

\* MINHV, MPP, MPIE and MPIL are cleared and MPP and MPIE taken from status;
\* for a user task both are forced.
ExitCause(regs) ==
  [int |-> regs.int, minhv |-> FALSE,
   mpp |-> IF regs.tp = "user" THEN "M" ELSE regs.mpp,
   mpie |-> regs.tp = "user" \/ regs.mpie]

\* The exit shim and mret.
Return ==
  /\ ~InUser /\ Top.stage = "exit"
  /\ mcause' = ExitCause(Top)
  /\ mie' = mcause'.mpie /\ priv' = mcause'.mpp
  /\ frames' = SubSeq(frames, 1, Depth - 1)
  /\ UNCHANGED <<a0, sigframes>>

\* The user computes; a0 may come to read as anything.
UserRuns ==
  /\ InUser
  /\ a0' = ~a0
  /\ UNCHANGED <<mie, priv, mcause, frames, sigframes>>

----------------------------------------------------------------------------

\* start_thread: a task begins with interrupts on and no signal.
TrapInit ==
  /\ mie = TRUE /\ priv = "M" /\ frames = <<>>
  /\ mcause = [int |-> FALSE, minhv |-> FALSE, mpp |-> "M", mpie |-> TRUE]
  /\ a0 = FALSE /\ sigframes = <<>>

KernelStep ==
  IrqsOn \/ UnlockIrqs \/ FaultDone \/ IrqDone \/ SyscallDone \/ Sigreturn \/ Return

TrapNext ==
  \/ KernelStep \/ LockIrqs \/ Signal \/ MpieLost \/ UserRuns
  \/ \E why \in {"irq", "ecall", "fault"} : Trap(why)

TrapSpec == TrapInit /\ [][TrapNext]_trapVars

----------------------------------------------------------------------------

\* Every variable stays in its type.
TrapTypeOK ==
  /\ mie \in BOOLEAN /\ priv \in {"M", "U"}
  /\ mcause \in [int : BOOLEAN, minhv : BOOLEAN, mpp : {"M", "U"}, mpie : BOOLEAN]
  /\ frames \in Seq(Regs) /\ Depth <= MaxTraps
  /\ a0 \in BOOLEAN /\ sigframes \in Seq(BOOLEAN) /\ Len(sigframes) <= MaxHandlers

\* The kernel takes exactly the outermost trap for one from user space, though
\* the hardware privilege says M for all of them.
ClassifiesTraps ==
  \A k \in DOMAIN frames : UserMode(frames[k]) <=> k = 1

\* Every mret puts back the interrupt enable of where the trap was taken, which
\* for a user task is on, stays in machine mode, and has INT set exactly when
\* it ends an interrupt, and MINHV never.
ReturnExact ==
  Depth' < Depth =>
    /\ mie' = Top.was /\ (Depth = 1 => mie')
    /\ priv' = "M"
    /\ mcause'.int <=> Top.why = "irq"
    /\ ~mcause'.minhv

ReturnsAsTrapped == [][ReturnExact]_trapVars

\* A system call is restarted at most once for one restart error it returned,
\* and nothing else is: neither a return from a signal handler nor an
\* interrupted computation whose a0 happens to read like that error.
RestartJustified ==
  \A k \in DOMAIN frames :
    frames[k].rewinds <= IF frames[k].result = "restart" THEN 1 ELSE 0
=============================================================================
