----------------------------- MODULE PageLedger -----------------------------
(***************************************************************************)
(* What the owners of private mappings are promised of pages: a page       *)
(* belongs to at most one address space; it is lent out of one allocator,  *)
(* in a run with the rest of its mapping; and before it belongs to another *)
(* its owner has unmapped it and the allocator has taken it back.          *)
(***************************************************************************)
EXTENDS Integers

CONSTANTS
  Pool,    \* pages of the reserved region
  Buddy,   \* pages of the buddy allocator
  Procs,   \* address spaces
  NoMm     \* the owner of a page that is nobody's

VARIABLES
  free,     \* pages an allocator may lend
  owner,    \* whose each page is
  leaving   \* pages unmapped and not yet taken back

ledgerVars == <<free, owner, leaving>>

Pages == Pool \cup Buddy

\* The pages of one mapping: a run, of one allocator.
Runs == {s .. t : s, t \in Pool} \cup {s .. t : s, t \in Buddy}

OwnedBy(p) == {x \in Pages : owner[x] = p}

LedgerInit ==
  /\ free \in {Buddy, Pool \cup Buddy}
  /\ owner = [x \in Pages |-> NoMm]
  /\ leaving = {}

Lend(p, S) ==
  /\ S \subseteq free /\ free' = free \ S
  /\ leaving' = leaving
  /\ owner' = [x \in Pages |-> IF x \in S THEN p ELSE owner[x]]

Unmap(p, S) ==
  /\ free' = free
  /\ S \cap leaving = {} /\ leaving' = leaving \cup S
  /\ S \subseteq OwnedBy(p) /\ owner' = owner

\* A mapping that is never completed is taken back without being unmapped.  Any
\* run of a mapping may come back by itself: gen_pool has no "free as one block"
\* requirement (0010:166-169), although the header of the pool asks for the block
\* that was returned, of which see NommuPoolContract.
TakeBack(p, S) ==
  /\ free' = free \cup S
  /\ leaving' = leaving \ S
  /\ S \subseteq OwnedBy(p)
  /\ owner' = [x \in Pages |-> IF x \in S THEN NoMm ELSE owner[x]]

LedgerNext ==
  \E p \in Procs :
    \E S \in Runs :
      Lend(p, S) \/ Unmap(p, S) \/ TakeBack(p, S)

LedgerSpec == LedgerInit /\ [][LedgerNext]_ledgerVars
=============================================================================
