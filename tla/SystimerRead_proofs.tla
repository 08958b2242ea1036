------------------------- MODULE SystimerRead_proofs -------------------------
(***************************************************************************)
(* SystimerRead for every depth of interrupts, width of the low word and   *)
(* counter: no read tears a value or returns an old one.                   *)
(***************************************************************************)
EXTENDS SystimerRead, TLAPS

\* Past the wait, where a context relies on what is latched.
Reading == {"hi", "lo", "hi2"}

\* The operation each step belongs to.
CallOK ==
  \A c \in Contexts :
    /\ pc[c] = "idle" <=> call[c].op = "none"
    /\ pc[c] = "hi" => call[c].op \in {"read64", "get_cycles_hi"}
    /\ pc[c] = "lo" => call[c].op \in {"read64", "get_cycles"}
    /\ pc[c] = "hi2" => call[c].op = "read64"
    /\ call[c].since <= counter

\* What is latched is no older than any call that has seen VALID, interrupted
\* or not; VALID is off only while a context above is waiting.
Fresh ==
  /\ latch <= counter
  /\ \A c \in Contexts :
       /\ pc[c] \in Reading \/ (pc[c] = "wait" /\ valid) => latch >= call[c].since
       /\ pc[c] \in Reading => valid \/ \E d \in Contexts : d > c /\ pc[d] = "wait"

\* The words a read64 holds are of values that were latched since its call, the
\* high one of no later value than the low one.
WordsOK ==
  \A c \in Contexts :
    /\ pc[c] = "lo" /\ call[c].op = "read64" => hi[c] <= latch \div Width
    /\ pc[c] = "hi2" => \E w \in call[c].since .. latch :
                          lo[c] = w % Width /\ hi[c] <= w \div Width

\* The inductive invariant.
IInv == TypeOK /\ CallOK /\ Fresh /\ WordsOK

----------------------------------------------------------------------------

\* A value is made up of its two words, and none of them is larger.
LEMMA Words ==
  ASSUME NEW v \in Nat
  PROVE  /\ v % Width \in 0 .. Width - 1
         /\ v = ((v \div Width) * Width) + (v % Width)
         /\ v \div Width \in 0 .. v /\ v % Width \in 0 .. v
  <1>1. v % Width \in 0 .. Width - 1
    BY ReadAssumption
  <1>2. v = ((v \div Width) * Width) + (v % Width)
    BY ReadAssumption
  <1>3. v \div Width \in Nat
    BY ReadAssumption
  <1>4. v \div Width <= v /\ v % Width <= v
    BY ReadAssumption
  <1> QED
    BY <1>1, <1>2, <1>3, <1>4

\* The high word never falls as the value rises.
LEMMA HighMonotone ==
  ASSUME NEW v \in Nat, NEW w \in Nat, v <= w
  PROVE  v \div Width <= w \div Width
  BY ReadAssumption

\* The retry of 0016 is enough: when the high word is what it was at first, the
\* two words held are those of one value latched since the call.
LEMMA Untorn ==
  ASSUME IInv, NEW c \in Contexts, pc[c] = "hi2", latch \div Width = hi[c]
  PROVE  \E w \in call[c].since .. counter : hi[c] * Width + lo[c] = w
  <1>1. PICK w \in call[c].since .. latch : lo[c] = w % Width /\ hi[c] <= w \div Width
    BY DEF IInv, WordsOK
  <1>2. w \in Nat /\ latch \in Nat /\ w <= latch /\ latch <= counter /\ counter \in Nat
    BY DEF IInv, TypeOK, Fresh
  <1>3. w \div Width <= latch \div Width
    BY <1>2, HighMonotone
  <1>4. w \div Width = hi[c]
    <2>1. w \div Width \in Nat /\ latch \div Width \in Nat
      BY <1>2, Words
    <2> QED
      BY <1>1, <1>3, <2>1
  <1>5. hi[c] * Width + lo[c] = w
    BY <1>1, <1>2, <1>4, Words
  <1> QED
    BY <1>1, <1>2, <1>5 DEF IInv, TypeOK

----------------------------------------------------------------------------

LEMMA InitIInv == Init => IInv
  <1> SUFFICES ASSUME Init PROVE IInv
    OBVIOUS
  <1>1. TypeOK
    BY ReadAssumption DEF Init, TypeOK, NoCall
  <1>2. CallOK /\ Fresh /\ WordsOK
    BY DEF Init, CallOK, Fresh, WordsOK, NoCall, Reading
  <1> QED
    BY <1>1, <1>2 DEF IInv

\* The end of any read.
LEMMA ReturnIInv ==
  ASSUME IInv, NEW c \in Contexts, Running(c), pc[c] \in Reading,
         NEW value \in 0 .. MaxCounter, Return(c, value),
         UNCHANGED <<counter, latch, valid>>
  PROVE  IInv'
  <1> USE DEF IInv, Return
  <1>1. TypeOK'
    BY ReadAssumption DEF TypeOK, NoCall
  <1>2. CallOK'
    BY DEF TypeOK, CallOK, NoCall
  <1>3. \A e \in Contexts \ {c} : pc'[e] = pc[e] /\ call'[e] = call[e]
                               /\ hi'[e] = hi[e] /\ lo'[e] = lo[e]
    BY DEF TypeOK
  <1>4. pc'[c] = "idle" /\ pc[c] # "wait"
    BY DEF TypeOK, Reading
  <1>5. Fresh'
    BY <1>3, <1>4 DEF Fresh, Reading
  <1>6. WordsOK'
    BY <1>3, <1>4 DEF WordsOK
  <1> QED
    BY <1>1, <1>2, <1>5, <1>6

\* Every step keeps the invariant.
LEMMA StepIInv == IInv /\ [Next]_vars => IInv'
  <1> SUFFICES ASSUME IInv, [Next]_vars PROVE IInv'
    OBVIOUS
  <1> USE DEF IInv
  <1>1. CASE Count
    <2>1. TypeOK'
      BY <1>1, ReadAssumption DEF Count, TypeOK
    <2>2. CallOK' /\ Fresh'
      BY <1>1, ReadAssumption DEF Count, TypeOK, CallOK, Fresh
    <2>3. WordsOK'
      BY <1>1 DEF Count, WordsOK
    <2> QED
      BY <2>1, <2>2, <2>3
  <1>2. CASE Capture
    <2>1. TypeOK' /\ CallOK'
      BY <1>2 DEF Capture, TypeOK, CallOK
    <2>2. latch <= counter /\ latch \in Nat /\ counter \in Nat /\ latch' = counter
      BY <1>2 DEF Capture, TypeOK, Fresh
    <2>3. Fresh'
      BY <1>2, <2>2 DEF Capture, TypeOK, Fresh, CallOK
    <2>4. latch \div Width <= latch' \div Width
      BY <2>2, HighMonotone
    <2>5. WordsOK'
      <3>1. latch \div Width \in Nat /\ latch' \div Width \in Nat
        BY <2>2, Words
      <3>2. \A c \in Contexts :
              pc[c] = "lo" /\ call[c].op = "read64" => hi[c] <= latch' \div Width
        BY <2>4, <3>1 DEF WordsOK, TypeOK
      <3>3. \A c \in Contexts : call[c].since .. latch \subseteq call[c].since .. latch'
        BY <2>2 DEF TypeOK
      <3> QED
        BY <1>2, <3>2, <3>3 DEF Capture, WordsOK
    <2> QED
      BY <2>1, <2>3, <2>5
  <1>3. ASSUME NEW c \in Contexts, NEW op \in Ops, Begin(c, op)
        PROVE  IInv'
    <2>1. TypeOK'
      BY <1>3 DEF Begin, TypeOK
    <2>2. CallOK'
      BY <1>3 DEF Begin, TypeOK, CallOK, Ops
    <2>3. Fresh'
      BY <1>3 DEF Begin, TypeOK, Fresh, Reading
    <2>4. WordsOK'
      BY <1>3 DEF Begin, TypeOK, WordsOK
    <2> QED
      BY <2>1, <2>2, <2>3, <2>4
  <1>4. ASSUME NEW c \in Contexts, Update(c)
        PROVE  IInv'
    <2>1. TypeOK' /\ CallOK'
      BY <1>4 DEF Update, TypeOK, CallOK
    <2>2. Fresh'
      BY <1>4 DEF Update, TypeOK, Fresh, Reading, Running, Contexts
    <2>3. WordsOK'
      BY <1>4 DEF Update, TypeOK, WordsOK
    <2> QED
      BY <2>1, <2>2, <2>3
  <1>5. ASSUME NEW c \in Contexts, Wait(c)
        PROVE  IInv'
    <2>1. TypeOK'
      BY <1>5 DEF Wait, TypeOK
    <2>2. CallOK'
      BY <1>5 DEF Wait, TypeOK, CallOK, Ops
    <2>3. Fresh'
      BY <1>5 DEF Wait, TypeOK, Fresh, Reading
    <2>4. WordsOK'
      BY <1>5 DEF Wait, TypeOK, WordsOK
    <2> QED
      BY <2>1, <2>2, <2>3, <2>4
  <1>6. ASSUME NEW c \in Contexts, ReadHi(c)
        PROVE  IInv'
    <2>1. latch \in 0 .. MaxCounter /\ latch \div Width \in 0 .. MaxCounter
      <3>1. latch \in Nat /\ latch \in 0 .. MaxCounter
        BY ReadAssumption DEF TypeOK
      <3>2. latch \div Width \in 0 .. latch
        BY <3>1, Words
      <3> QED
        BY <3>1, <3>2, ReadAssumption
    <2>2. CASE call[c].op = "get_cycles_hi"
      BY <1>6, <2>1, <2>2, ReturnIInv DEF ReadHi, Reading
    <2>3. CASE call[c].op = "read64"
      <3>1. /\ pc' = [pc EXCEPT ![c] = "lo"] /\ hi' = [hi EXCEPT ![c] = latch \div Width]
            /\ pc[c] = "hi" /\ Running(c)
            /\ UNCHANGED <<counter, latch, valid, call, lo, answer>>
        BY <1>6, <2>3 DEF ReadHi
      <3>2. TypeOK'
        BY <2>1, <3>1 DEF TypeOK
      <3>3. CallOK'
        BY <2>3, <3>1 DEF TypeOK, CallOK
      <3>4. Fresh'
        BY <3>1 DEF TypeOK, Fresh, Reading
      <3>5. WordsOK'
        BY <2>1, <3>1 DEF TypeOK, WordsOK
      <3> QED
        BY <3>2, <3>3, <3>4, <3>5
    <2> QED
      BY <1>6, <2>2, <2>3 DEF ReadHi
  <1>7. ASSUME NEW c \in Contexts, ReadLo(c)
        PROVE  IInv'
    <2>1. latch \in 0 .. MaxCounter /\ latch % Width \in 0 .. MaxCounter
          /\ latch % Width \in 0 .. Width - 1
      <3>1. latch \in Nat /\ latch \in 0 .. MaxCounter
        BY ReadAssumption DEF TypeOK
      <3>2. latch % Width \in 0 .. latch /\ latch % Width \in 0 .. Width - 1
        BY <3>1, Words
      <3> QED
        BY <3>1, <3>2, ReadAssumption
    <2>2. CASE call[c].op = "get_cycles"
      BY <1>7, <2>1, <2>2, ReturnIInv DEF ReadLo, Reading
    <2>3. CASE call[c].op = "read64"
      <3>1. /\ pc' = [pc EXCEPT ![c] = "hi2"] /\ lo' = [lo EXCEPT ![c] = latch % Width]
            /\ pc[c] = "lo" /\ Running(c)
            /\ UNCHANGED <<counter, latch, valid, call, hi, answer>>
        BY <1>7, <2>3 DEF ReadLo
      <3>2. TypeOK'
        BY <2>1, <3>1 DEF TypeOK
      <3>3. CallOK'
        BY <2>3, <3>1 DEF TypeOK, CallOK
      <3>4. Fresh'
        BY <3>1 DEF TypeOK, Fresh, Reading
      <3>5. latch \in call[c].since .. latch
        BY <2>1, <3>1 DEF TypeOK, Fresh, Reading
      <3>6. \A e \in Contexts \ {c} : pc'[e] = pc[e] /\ lo'[e] = lo[e]
        BY <3>1 DEF TypeOK
      <3>7. WordsOK'
        BY <2>3, <3>1, <3>5, <3>6 DEF TypeOK, WordsOK
      <3> QED
        BY <3>2, <3>3, <3>4, <3>7
    <2> QED
      BY <1>7, <2>2, <2>3 DEF ReadLo
  <1>8. ASSUME NEW c \in Contexts, ReadHi2(c)
        PROVE  IInv'
    <2>1. CASE latch \div Width = hi[c]
      <3>1. PICK w \in call[c].since .. counter : hi[c] * Width + lo[c] = w
        BY <1>8, <2>1, Untorn DEF ReadHi2
      <3>2. hi[c] * Width + lo[c] \in 0 .. MaxCounter
        <4>1. call[c].since \in 0 .. MaxCounter /\ counter \in 0 .. MaxCounter
          BY DEF TypeOK
        <4>2. w \in 0 .. MaxCounter
          BY <4>1, ReadAssumption
        <4> QED
          BY <3>1, <4>2
      <3> QED
        BY <1>8, <2>1, <3>2, ReturnIInv DEF ReadHi2, Reading
    <2>2. CASE latch \div Width # hi[c]
      <3>1. /\ pc' = [pc EXCEPT ![c] = "hi"] /\ pc[c] = "hi2"
            /\ UNCHANGED <<counter, latch, valid, call, hi, lo, answer>>
        BY <1>8, <2>2 DEF ReadHi2
      <3>2. TypeOK'
        BY <3>1 DEF TypeOK
      <3>3. CallOK'
        BY <3>1 DEF TypeOK, CallOK
      <3>4. Fresh'
        BY <3>1 DEF TypeOK, Fresh, Reading
      <3>5. WordsOK'
        BY <3>1 DEF TypeOK, WordsOK
      <3> QED
        BY <3>2, <3>3, <3>4, <3>5
    <2> QED
      BY <2>1, <2>2
  <1>9. CASE UNCHANGED vars
    BY <1>9 DEF vars, TypeOK, CallOK, Fresh, WordsOK
  <1> QED
    BY <1>1, <1>2, <1>3, <1>4, <1>5, <1>6, <1>7, <1>8, <1>9 DEF Next, Step

----------------------------------------------------------------------------

\* The invariant holds in every state that readers can bring the timer to.
THEOREM Safety == Spec => []IInv
  <1>1. IInv /\ [Next]_vars => IInv'
    BY StepIInv
  <1> QED
    BY InitIInv, <1>1, PTL DEF Spec

\* Every variable stays in its type.
THEOREM TypeCorrect == Spec => []TypeOK
  <1>1. IInv => TypeOK
    BY DEF IInv
  <1> QED
    BY Safety, <1>1, PTL

\* However deep the interrupts nest, a context that runs reads a latch that was
\* captured at or after its call.
THEOREM FreshReads == Spec => []FreshLatch
  <1>1. IInv => FreshLatch
    BY DEF IInv, Fresh, FreshLatch, Running, Reading
  <1> QED
    BY Safety, <1>1, PTL

----------------------------------------------------------------------------

\* Each step of a reader is one of ClockRead's, or leaves what the caller sees
\* alone.
LEMMA StepPromise ==
  ASSUME IInv, [Next]_vars
  PROVE  [Promise!Next]_<<counter, call, answer>>
  <1> USE DEF Promise!Next
  <1>1. CASE Count
    BY <1>1 DEF Count, Promise!Count
  <1>2. CASE Capture
    BY <1>2 DEF Capture
  <1>3. ASSUME NEW c \in Contexts, NEW op \in Ops, Begin(c, op)
        PROVE  Promise!Next
    BY <1>3 DEF Begin, Promise!Begin, Ops, Promise!Ops, IInv, CallOK
  <1>4. ASSUME NEW c \in Contexts, Update(c) \/ Wait(c)
        PROVE  UNCHANGED <<counter, call, answer>>
    BY <1>4 DEF Update, Wait
  <1>5. ASSUME NEW c \in Contexts, NEW v \in call[c].since .. counter,
               call[c].op \in Ops, Return(c, Promise!Part(call[c].op, v)),
               counter' = counter
        PROVE  Promise!Return(c)
    BY <1>5 DEF Return, Promise!Return, NoCall, Promise!NoCall, Ops
  <1>6. ASSUME NEW c \in Contexts, pc[c] \in Reading
        PROVE  latch \in call[c].since .. counter
    BY <1>6 DEF IInv, TypeOK, Fresh
  <1>7. ASSUME NEW c \in Contexts, ReadHi(c)
        PROVE  Promise!Return(c) \/ UNCHANGED <<counter, call, answer>>
    BY <1>5, <1>6, <1>7 DEF ReadHi, Reading, Ops, Promise!Part
  <1>8. ASSUME NEW c \in Contexts, ReadLo(c)
        PROVE  Promise!Return(c) \/ UNCHANGED <<counter, call, answer>>
    BY <1>5, <1>6, <1>8 DEF ReadLo, Reading, Ops, Promise!Part
  <1>9. ASSUME NEW c \in Contexts, ReadHi2(c)
        PROVE  Promise!Return(c) \/ UNCHANGED <<counter, call, answer>>
    <2>1. CASE latch \div Width = hi[c]
      <3>1. PICK w \in call[c].since .. counter : hi[c] * Width + lo[c] = w
        BY <1>9, <2>1, Untorn DEF ReadHi2
      <3>2. call[c].op = "read64"
        BY <1>9 DEF ReadHi2, IInv, CallOK
      <3> QED
        BY <1>5, <1>9, <2>1, <3>1, <3>2 DEF ReadHi2, Ops, Promise!Part
    <2>2. CASE latch \div Width # hi[c]
      BY <1>9, <2>2 DEF ReadHi2
    <2> QED
      BY <2>1, <2>2
  <1>10. CASE UNCHANGED vars
    BY <1>10 DEF vars
  <1> QED
    BY <1>1, <1>2, <1>3, <1>4, <1>7, <1>8, <1>9, <1>10 DEF Next, Step

\* Linearizability: whatever interrupts what, every answer is (the part asked
\* for of) a value the counter had between the call and the return.
THEOREM ReadsLinearizable == Spec => Linearizable
  <1>1. Init => Promise!Init
    BY DEF Init, Promise!Init, NoCall, Promise!NoCall
  <1>2. IInv /\ [Next]_vars => [Promise!Next]_<<counter, call, answer>>
    BY StepPromise
  <1> QED
    BY Safety, <1>1, <1>2, PTL DEF Spec, Linearizable, Promise!Spec

----------------------------------------------------------------------------
(* The retries are finitely many.                                          *)

\* The high word a read64 holds, or the one that any other read would find.
High(c) ==
  IF call[c].op = "read64" /\ pc[c] \in {"lo", "hi2"} THEN hi[c] ELSE latch \div Width

\* The register accesses of a read that does not retry.
Ahead(c) ==
  CASE pc[c] = "update" -> 5
    [] pc[c] = "wait" -> 4
    [] pc[c] = "hi" -> 3
    [] pc[c] = "lo" -> 2
    [] pc[c] = "hi2" -> 1
    [] pc[c] = "idle" -> 0

\* What a read may still spend: high words above its own, then accesses.
Cost(c) == <<MaxCounter - High(c), Ahead(c)>>

\* The lexicographic order of pairs, in which nothing descends for ever.
Below(m, n) == m[1] < n[1] \/ (m[1] = n[1] /\ m[2] < n[2])

\* A reader's own steps spend something, and what the timer and the other
\* readers do meanwhile gives nothing back.
Spends ==
  \A c \in Contexts :
    /\ Step(c) => Below(Cost(c)', Cost(c))
    /\ pc[c] # "idle" => Cost(c)' = Cost(c) \/ Below(Cost(c)', Cost(c))

\* A pair with a higher high word, or with no lower a one and fewer accesses.
LEMMA CostFalls ==
  ASSUME NEW g \in 0 .. MaxCounter, NEW h \in 0 .. MaxCounter,
         NEW a \in Nat, NEW b \in Nat, g <= h, g < h \/ b < a
  PROVE  Below(<<MaxCounter - h, b>>, <<MaxCounter - g, a>>)
  BY ReadAssumption DEF Below

\* The high word of the latch is in the counter's range.
LEMMA LatchHigh == TypeOK => latch \in Nat /\ latch \div Width \in 0 .. MaxCounter
  <1> SUFFICES ASSUME TypeOK PROVE latch \in Nat /\ latch \div Width \in 0 .. MaxCounter
    OBVIOUS
  <1>1. latch \in Nat /\ latch <= MaxCounter
    BY ReadAssumption DEF TypeOK
  <1>2. latch \div Width \in 0 .. latch
    BY <1>1, Words
  <1> QED
    BY <1>1, <1>2, ReadAssumption

\* No read holds a higher word than the latch's: what makes it go round is a
\* latch that has risen.
HighOK ==
  \A c \in Contexts :
    High(c) \in 0 .. MaxCounter /\ High(c) <= latch \div Width /\ Ahead(c) \in Nat

\* The invariant says so.
LEMMA HeldHigh == IInv => HighOK
  <1> SUFFICES ASSUME IInv, NEW c \in Contexts
               PROVE  /\ High(c) \in 0 .. MaxCounter /\ High(c) <= latch \div Width
                      /\ Ahead(c) \in Nat
    BY DEF HighOK
  <1> USE DEF IInv
  <1>1. latch \in Nat /\ latch \div Width \in 0 .. MaxCounter
    BY LatchHigh
  <1>2. Ahead(c) \in Nat
    BY DEF TypeOK, Ahead
  <1>3. CASE call[c].op = "read64" /\ pc[c] = "hi2"
    <2>1. PICK w \in call[c].since .. latch : lo[c] = w % Width /\ hi[c] <= w \div Width
      BY <1>3 DEF WordsOK
    <2>2. w \in Nat /\ w <= latch
      BY <1>1 DEF TypeOK
    <2>3. w \div Width <= latch \div Width /\ w \div Width \in Nat
      BY <1>1, <2>2, HighMonotone, Words
    <2>4. hi[c] \in 0 .. MaxCounter /\ High(c) = hi[c]
      BY <1>3 DEF TypeOK, High
    <2> QED
      BY <1>1, <1>2, <2>1, <2>3, <2>4
  <1>4. CASE call[c].op = "read64" /\ pc[c] = "lo"
    BY <1>1, <1>2, <1>4 DEF TypeOK, WordsOK, High
  <1>5. CASE ~(call[c].op = "read64" /\ pc[c] \in {"lo", "hi2"})
    BY <1>1, <1>2, <1>5 DEF High
  <1> QED
    BY <1>3, <1>4, <1>5

\* The cost is a pair of naturals.
LEMMA CostOK == ASSUME IInv, NEW c \in Contexts PROVE Cost(c) \in Nat \X Nat
  <1>1. High(c) \in 0 .. MaxCounter /\ Ahead(c) \in Nat
    BY HeldHigh DEF HighOK
  <1>2. MaxCounter - High(c) \in Nat
    BY <1>1, ReadAssumption
  <1> QED
    BY <1>1, <1>2 DEF Cost

\* A step that leaves a reader where it is, under a latch no lower.
LEMMA Waits ==
  ASSUME IInv, IInv', NEW c \in Contexts,
         pc'[c] = pc[c], call'[c] = call[c], hi'[c] = hi[c],
         latch \div Width <= latch' \div Width
  PROVE  Cost(c)' = Cost(c) \/ Below(Cost(c)', Cost(c))
  <1>0. HighOK'
    BY HeldHigh, PTL
  <1>1. Ahead(c)' = Ahead(c)
    BY DEF Ahead
  <1>2. High(c) \in 0 .. MaxCounter /\ High(c)' \in 0 .. MaxCounter /\ Ahead(c) \in Nat
    BY <1>0, HeldHigh DEF HighOK, Contexts
  <1>3. High(c) <= High(c)'
    BY <1>2 DEF High
  <1>4. CASE High(c)' = High(c)
    BY <1>1, <1>4 DEF Cost
  <1>5. CASE High(c)' # High(c)
    <2>1. High(c) < High(c)'
      BY <1>2, <1>3, <1>5
    <2> QED
      BY <1>1, <1>2, <1>3, <2>1, CostFalls DEF Cost
  <1> QED
    BY <1>4, <1>5

\* A step of the reader's own either takes one access of those ahead, or goes
\* round because the latch holds a higher word.
LEMMA Works ==
  ASSUME IInv, IInv', NEW c \in Contexts, Step(c)
  PROVE  Below(Cost(c)', Cost(c))
  <1>0. HighOK'
    BY HeldHigh, PTL
  <1> USE DEF IInv
  <1>1. High(c) \in 0 .. MaxCounter /\ High(c)' \in 0 .. MaxCounter
        /\ Ahead(c) \in Nat /\ Ahead(c)' \in Nat
    BY <1>0, HeldHigh DEF HighOK, Contexts
  <1>2. latch' = latch /\ latch \div Width \in 0 .. MaxCounter
    BY LatchHigh DEF Step, Update, Wait, ReadHi, ReadLo, ReadHi2
  <1>3. High(c) <= latch \div Width
    BY HeldHigh DEF HighOK
  <1>4. CASE pc[c] = "hi2" /\ latch \div Width # hi[c]
    <2>1. pc'[c] = "hi"
      BY <1>4 DEF Step, Update, Wait, ReadHi, ReadLo, ReadHi2, TypeOK
    <2>2. High(c)' = latch \div Width /\ High(c) = hi[c]
      BY <1>2, <1>4, <2>1 DEF High, CallOK
    <2>3. High(c) < High(c)'
      BY <1>1, <1>3, <1>4, <2>2
    <2> QED
      BY <1>1, <2>3, CostFalls DEF Cost
  <1>5. CASE ~(pc[c] = "hi2" /\ latch \div Width # hi[c])
    <2>1. /\ pc[c] = "update" => pc'[c] = "wait"
          /\ pc[c] = "wait" => pc'[c] \in {"hi", "lo"}
          /\ pc[c] = "hi" => pc'[c] \in {"lo", "idle"}
          /\ pc[c] = "lo" => pc'[c] \in {"hi2", "idle"}
          /\ pc[c] = "hi2" => pc'[c] = "idle"
          /\ pc[c] # "idle"
      BY <1>5 DEF Step, Update, Wait, ReadHi, ReadLo, ReadHi2, Return, TypeOK
    <2>2. Ahead(c)' < Ahead(c)
      BY <2>1 DEF Ahead, TypeOK
    <2>3. High(c)' = High(c)
      <3>1. CASE Update(c)
        BY <3>1 DEF Update, High, TypeOK
      <3>2. CASE Wait(c)
        BY <3>2 DEF Wait, High, TypeOK
      <3>3. CASE ReadHi(c)
        BY <3>3 DEF ReadHi, Return, NoCall, High, TypeOK
      <3>4. CASE ReadLo(c)
        BY <3>4 DEF ReadLo, Return, NoCall, High, TypeOK, CallOK
      <3>5. CASE ReadHi2(c)
        BY <1>5, <3>5 DEF ReadHi2, Return, NoCall, High, TypeOK, CallOK
      <3> QED
        BY <3>1, <3>2, <3>3, <3>4, <3>5 DEF Step
    <2>4. High(c) <= High(c)'
      BY <1>1, <2>3
    <2> QED
      BY <1>1, <2>2, <2>4, CostFalls DEF Cost
  <1> QED
    BY <1>4, <1>5

\* Every step of the system does.
LEMMA StepSpends == ASSUME IInv, IInv', [Next]_vars PROVE Spends
  <1> SUFFICES ASSUME NEW c \in Contexts
               PROVE  /\ Step(c) => Below(Cost(c)', Cost(c))
                      /\ pc[c] # "idle" => Cost(c)' = Cost(c) \/ Below(Cost(c)', Cost(c))
    BY DEF Spends
  <1>1. Step(c) => Below(Cost(c)', Cost(c))
    BY Works
  <1>2. ASSUME pc[c] # "idle", ~Step(c)
        PROVE  Cost(c)' = Cost(c) \/ Below(Cost(c)', Cost(c))
    <2>1. pc'[c] = pc[c] /\ call'[c] = call[c] /\ hi'[c] = hi[c]
      <3>1. CASE Count \/ Capture \/ UNCHANGED vars
        BY <3>1 DEF Count, Capture, vars
      <3>2. ASSUME NEW e \in Contexts, Step(e) PROVE pc'[c] = pc[c] /\ call'[c] = call[c] /\ hi'[c] = hi[c]
        BY <1>2, <3>2
           DEF IInv, TypeOK, Step, Update, Wait, ReadHi, ReadLo, ReadHi2, Return
      <3>3. ASSUME NEW e \in Contexts, NEW op \in Ops, Begin(e, op)
            PROVE  pc'[c] = pc[c] /\ call'[c] = call[c] /\ hi'[c] = hi[c]
        BY <1>2, <3>3 DEF IInv, TypeOK, Begin
      <3> QED
        BY <3>1, <3>2, <3>3 DEF Next
    <2>2. latch' = latch \/ Capture
      BY DEF Next, Count, Step, Begin, Update, Wait, ReadHi, ReadLo, ReadHi2, vars
    <2>3. latch \in Nat /\ latch' \in Nat /\ latch <= latch'
      <3>1. latch \in Nat /\ counter \in Nat /\ latch <= counter
        BY DEF IInv, TypeOK, Fresh
      <3> QED
        BY <2>2, <3>1 DEF Capture
    <2>4. latch \div Width <= latch' \div Width
      BY <2>3, HighMonotone
    <2> QED
      BY <2>1, <2>4, Waits
  <1> QED
    BY <1>1, <1>2

\* The retry of 0016 ends: it goes round only for a high word above the one it
\* holds, so that what a read may still spend, a pair of naturals, falls in the
\* lexicographic order at every step of its own and is never given back by an
\* interrupt's read, a capture or the counter.
THEOREM RetriesEnd ==
  Spec => [](\A c \in Contexts : Cost(c) \in Nat \X Nat) /\ [][Spends]_vars
  <1>1. IInv => \A c \in Contexts : Cost(c) \in Nat \X Nat
    BY CostOK
  <1>2. IInv /\ IInv' /\ [Next]_vars => [Spends]_vars
    BY StepSpends
  <1> QED
    BY Safety, <1>1, <1>2, PTL DEF Spec
=============================================================================
