---------------------------- MODULE SystimerRead ----------------------------
(***************************************************************************)
(* Reading the SYSTIMER's counter: it is captured on demand into one pair  *)
(* of latch registers that every reader shares                             *)
(* (patches/linux/0001, esp32p4_systimer_read64 with the retry of 0016,    *)
(* and get_cycles and get_cycles_hi of asm/timex.h).                       *)
(*                                                                         *)
(* The kernel is not preemptive and there is one CPU, so the readers nest: *)
(* an interrupt may begin a read between any two register accesses of the  *)
(* context below it, which goes on when the interrupt has finished.        *)
(***************************************************************************)
EXTENDS Integers

CONSTANTS
  Depth,       \* contexts: 1 is a task, each further one interrupts those below
  Width,       \* values of the low word: 2^32
  MaxCounter   \* the last value the counter reaches: bounds the model

ASSUME ReadAssumption ==
  Depth \in Nat \ {0} /\ Width \in Nat \ {0} /\ MaxCounter \in Nat

Contexts == 1 .. Depth

VARIABLES
  counter,  \* the counter, which never stops
  latch,    \* VAL_HI and VAL_LO, as one value
  valid,    \* UNIT0_OP's VALID bit
  pc,       \* the step each context's read is at
  call,     \* the operation it is in, and the counter when it began
  hi,       \* its locals
  lo,
  answer    \* what its last read returned

vars == <<counter, latch, valid, pc, call, hi, lo, answer>>

----------------------------------------------------------------------------

Ops == {"read64", "get_cycles", "get_cycles_hi"}

NoCall == [op |-> "none", since |-> 0]

\* A context runs while everything that could have interrupted it is done.
Running(c) == \A d \in Contexts : d > c => pc[d] = "idle"

\* The locals go with the call.
Return(c, value) ==
  /\ hi' = [hi EXCEPT ![c] = 0] /\ lo' = [lo EXCEPT ![c] = 0]
  /\ answer' = [answer EXCEPT ![c] = value]
  /\ call' = [call EXCEPT ![c] = NoCall]
  /\ pc' = [pc EXCEPT ![c] = "idle"]

----------------------------------------------------------------------------

Count ==
  /\ counter < MaxCounter
  /\ counter' = counter + 1
  /\ UNCHANGED <<latch, valid, pc, call, hi, lo, answer>>

\* The hardware completes a capture a few cycles after it was asked to.
Capture ==
  /\ ~valid
  /\ latch' = counter /\ valid' = TRUE
  /\ UNCHANGED <<counter, pc, call, hi, lo, answer>>

Begin(c, op) ==
  /\ Running(c) /\ pc[c] = "idle"
  /\ call' = [call EXCEPT ![c] = [op |-> op, since |-> counter]]
  /\ pc' = [pc EXCEPT ![c] = "update"]
  /\ UNCHANGED <<counter, latch, valid, hi, lo, answer>>

Update(c) ==
  /\ Running(c) /\ pc[c] = "update"
  /\ valid' = FALSE
  /\ pc' = [pc EXCEPT ![c] = "wait"]
  /\ UNCHANGED <<counter, latch, call, hi, lo, answer>>

\* What it must not be: VALID is not polled.
WaitNot(c) ==
  /\ Running(c) /\ pc[c] = "wait"
  /\ pc' = [pc EXCEPT ![c] = IF call[c].op = "get_cycles" THEN "lo" ELSE "hi"]
  /\ UNCHANGED <<counter, latch, valid, call, hi, lo, answer>>

Wait(c) ==
  /\ Running(c) /\ pc[c] = "wait" /\ valid
  /\ pc' = [pc EXCEPT ![c] = IF call[c].op = "get_cycles" THEN "lo" ELSE "hi"]
  /\ UNCHANGED <<counter, latch, valid, call, hi, lo, answer>>

\* get_cycles_hi is done with the high word.
ReadHi(c) ==
  /\ Running(c) /\ pc[c] = "hi"
  /\ \/ /\ call[c].op = "get_cycles_hi"
        /\ Return(c, latch \div Width)
     \/ /\ call[c].op = "read64"
        /\ hi' = [hi EXCEPT ![c] = latch \div Width]
        /\ pc' = [pc EXCEPT ![c] = "lo"]
        /\ UNCHANGED <<lo, call, answer>>
  /\ UNCHANGED <<counter, latch, valid>>

\* What it must not be: the low word is not cut to its width.
ReadLoWide(c) ==
  /\ Running(c) /\ pc[c] = "lo"
  /\ \/ /\ call[c].op = "get_cycles"
        /\ Return(c, latch)
     \/ /\ call[c].op = "read64"
        /\ lo' = [lo EXCEPT ![c] = latch]
        /\ pc' = [pc EXCEPT ![c] = "hi2"]
        /\ UNCHANGED <<hi, call, answer>>
  /\ UNCHANGED <<counter, latch, valid>>

ReadLo(c) ==
  /\ Running(c) /\ pc[c] = "lo"
  /\ \/ /\ call[c].op = "get_cycles"
        /\ Return(c, latch % Width)
     \/ /\ call[c].op = "read64"
        /\ lo' = [lo EXCEPT ![c] = latch % Width]
        /\ pc' = [pc EXCEPT ![c] = "hi2"]
        /\ UNCHANGED <<hi, call, answer>>
  /\ UNCHANGED <<counter, latch, valid>>

\* What it must not be: the driver before 0016, which does not compare ...
ReadHi2Unchecked(c) ==
  /\ Running(c) /\ pc[c] = "hi2"
  /\ Return(c, hi[c] * Width + lo[c])
  /\ UNCHANGED <<counter, latch, valid>>

\* ... or a retry that compares with the high word it has given up.
ReadHi2SameHi(c) ==
  /\ Running(c) /\ pc[c] = "hi2"
  /\ \/ /\ latch \div Width = hi[c]
        /\ Return(c, hi[c] * Width + lo[c])
     \/ /\ latch \div Width # hi[c]
        /\ pc' = [pc EXCEPT ![c] = "lo"]
        /\ UNCHANGED <<hi, lo, call, answer>>
  /\ UNCHANGED <<counter, latch, valid>>

\* The high word again: another value means that the latch was overwritten.
\* Nothing new is captured, the three reads are just done once more.
ReadHi2(c) ==
  /\ Running(c) /\ pc[c] = "hi2"
  /\ \/ /\ latch \div Width = hi[c]
        /\ Return(c, hi[c] * Width + lo[c])
     \/ /\ latch \div Width # hi[c]
        /\ pc' = [pc EXCEPT ![c] = "hi"]
        /\ UNCHANGED <<hi, lo, call, answer>>
  /\ UNCHANGED <<counter, latch, valid>>

----------------------------------------------------------------------------

Init ==
  /\ counter = 0 /\ latch = 0 /\ valid = TRUE
  /\ pc = [c \in Contexts |-> "idle"]
  /\ call = [c \in Contexts |-> NoCall]
  /\ hi = [c \in Contexts |-> 0] /\ lo = [c \in Contexts |-> 0]
  /\ answer = [c \in Contexts |-> 0]

Step(c) == Update(c) \/ Wait(c) \/ ReadHi(c) \/ ReadLo(c) \/ ReadHi2(c)

Next ==
  \/ Count \/ Capture
  \/ \E c \in Contexts : Step(c) \/ \E op \in Ops : Begin(c, op)

\* The hardware finishes a capture, and a context that is interrupted again
\* and again still gets to run between the interrupts.
Spec ==
  /\ Init /\ [][Next]_vars
  /\ WF_vars(Capture)
  /\ \A c \in Contexts : SF_vars(Step(c))

----------------------------------------------------------------------------

\* Every variable stays in its type.
TypeOK ==
  /\ counter \in 0 .. MaxCounter /\ latch \in 0 .. MaxCounter /\ valid \in BOOLEAN
  /\ pc \in [Contexts -> {"idle", "update", "wait", "hi", "lo", "hi2"}]
  /\ call \in [Contexts -> [op : Ops \cup {"none"}, since : 0 .. MaxCounter]]
  /\ hi \in [Contexts -> 0 .. MaxCounter] /\ lo \in [Contexts -> 0 .. Width - 1]
  /\ answer \in [Contexts -> 0 .. MaxCounter]

\* Outside its own capture a context never relies on a value older than its
\* call: what it reads next was latched at or after it began.
FreshLatch ==
  \A c \in Contexts : Running(c) /\ pc[c] \in {"hi", "lo", "hi2"} =>
    valid /\ latch >= call[c].since

Promise == INSTANCE ClockRead WITH
  Contexts <- Contexts, Width <- Width, MaxCounter <- MaxCounter,
  counter <- counter, call <- call, answer <- answer

\* No interleaving of readers tears a value or returns an old one.
Linearizable == Promise!Spec

\* A read that has begun returns: the retry does not go on for ever.
ReadReturns == \A c \in Contexts : pc[c] # "idle" ~> pc[c] = "idle"
=============================================================================
