------------------------------ MODULE ClockRead ------------------------------
(***************************************************************************)
(* What a reader of the counter is promised: whatever else reads it in the *)
(* meantime, the answer is (the part asked for of) a value the counter had *)
(* between the call and the return.                                        *)
(***************************************************************************)
EXTENDS Integers

CONSTANTS
  Contexts,    \* who reads
  Width,       \* values of the low word: 2^32
  MaxCounter   \* the last value the counter reaches: bounds the model

VARIABLES
  counter,  \* the counter
  call,     \* what each context is in the middle of reading, and since when
  answer    \* what its last read returned

Ops == {"read64", "get_cycles", "get_cycles_hi"}

Calls == [op : Ops \cup {"none"}, since : 0 .. MaxCounter]

NoCall == [op |-> "none", since |-> 0]

\* The part of a value that each operation returns.
Part(op, v) == CASE op = "read64" -> v
                 [] op = "get_cycles" -> v % Width
                 [] op = "get_cycles_hi" -> v \div Width

Init ==
  /\ counter = 0
  /\ call = [c \in Contexts |-> NoCall]
  /\ answer = [c \in Contexts |-> 0]

Count ==
  /\ counter < MaxCounter
  /\ counter' = counter + 1
  /\ UNCHANGED <<call, answer>>

Begin(c, op) ==
  /\ call[c].op = "none"
  /\ call' = [call EXCEPT ![c] = [op |-> op, since |-> counter]]
  /\ UNCHANGED <<counter, answer>>

Return(c) ==
  /\ call[c].op # "none"
  /\ \E v \in call[c].since .. counter :
       answer' = [answer EXCEPT ![c] = Part(call[c].op, v)]
  /\ call' = [call EXCEPT ![c] = NoCall]
  /\ UNCHANGED counter

Next ==
  \/ Count
  \/ \E c \in Contexts : Return(c) \/ \E op \in Ops : Begin(c, op)

Spec == Init /\ [][Next]_<<counter, call, answer>>
=============================================================================
