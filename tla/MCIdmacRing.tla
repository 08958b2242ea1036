----------------------------- MODULE MCIdmacRing -----------------------------
(***************************************************************************)
(* IdmacRing with three descriptors, two of which share a cache line.      *)
(***************************************************************************)
EXTENDS IdmacRing
=============================================================================
