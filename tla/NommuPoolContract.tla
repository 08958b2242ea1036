------------------------- MODULE NommuPoolContract -------------------------
(***************************************************************************)
(* NommuPool watched from the allocator's side: a history variable         *)
(* remembers the blocks nommu_userspace_pool_alloc has returned, and the   *)
(* contract its header states is read against it                           *)
(* (patches/linux/0010-mm-nommu-userspace-pool.patch:36-39).               *)
(***************************************************************************)
EXTENDS NommuPool

VARIABLE handed  \* the blocks returned and not freed, each as it was returned

\* A step takes one block from the pool, gives one run back, or does neither.
Taken == pool_free \ pool_free'
Freed == pool_free' \ pool_free

ContractInit == Init /\ handed = {}

ContractNext ==
  /\ Next
  /\ handed' = (handed \cup {Taken}) \ {Freed, {}}

ContractSpec == ContractInit /\ [][ContractNext]_<<vars, handed>>

----------------------------------------------------------------------------

\* The header's contract (0010:36-39): "Free a region previously returned by
\* nommu_userspace_pool_alloc(). @addr must be the exact pointer returned,
\* @size the exact size passed."  An munmap of part of a mapping frees part of
\* a block (0010:164-174), whose comment there says gen_pool has "no 'free as
\* one block' requirement": the two disagree, and this one is refuted.
ExactFree == [][Freed # {} => Freed \in handed]_<<vars, handed>>
=============================================================================
