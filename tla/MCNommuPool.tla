---------------------------- MODULE MCNommuPool ----------------------------
(***************************************************************************)
(* NommuPool with a pool of four pages and a buddy allocator of four, two  *)
(* address spaces and mappings of up to three pages, whose buddy rounding  *)
(* is the power of two of get_order.                                       *)
(***************************************************************************)
EXTENDS NommuPool, TLC

\* 1 << get_order(n) for n = 1, 2, 3.
MCRoundUp == <<1, 2, 4>>

Symmetry == Permutations(Procs) \cup Permutations(Regions)
=============================================================================
