----------------------------- MODULE MCBootChain -----------------------------
(***************************************************************************)
(* BootChain on a flash of two units.  The tables: the usual layout with   *)
(* its MD5 entry, in either order; a kernel as large as the chip, sharing  *)
(* its last unit with the device tree; two kernels, of which the first     *)
(* counts; a terminator before the device tree; and a kernel that runs     *)
(* past the end of the chip.                                               *)
(***************************************************************************)
EXTENDS BootChain

part(type, off, size) == [magic |-> "part", type |-> type, off |-> off, size |-> size]
plain(magic) == [magic |-> magic, type |-> "none", off |-> 0, size |-> 0]

MCTables == {
  <<part("kernel", 0, 1), part("dtb", 1, 1), plain("md5"), plain("other")>>,
  <<plain("md5"), part("dtb", 0, 1), part("kernel", 1, 1), part("kernel", 0, 2)>>,
  <<part("kernel", 0, 2), part("dtb", 1, 1), plain("other")>>,
  <<part("kernel", 0, 1), plain("other"), part("dtb", 1, 1)>>,
  <<part("dtb", 0, 1), part("kernel", 1, 2)>> }
=============================================================================
