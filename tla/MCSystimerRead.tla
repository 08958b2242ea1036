--------------------------- MODULE MCSystimerRead ---------------------------
(***************************************************************************)
(* SystimerRead with a task and one interrupt above it, a low word of two  *)
(* values and a counter that carries into the high word twice.             *)
(***************************************************************************)
EXTENDS SystimerRead
=============================================================================
