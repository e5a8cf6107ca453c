------------------------------- MODULE Layout -------------------------------
(***************************************************************************)
(* Address arithmetic shared by every tool of the boot chain: the rounding *)
(* macros and extents of bytes, as the image builder writes them and the   *)
(* bootloader reads and copies them.                                       *)
(***************************************************************************)
EXTENDS Integers

PageSize == 4096

(* mkifs/main.c: ALIGN_UP, ALIGN_DOWN *)
AlignUp(val, alignment) == ((val + alignment - 1) \div alignment) * alignment
AlignDown(val, alignment) == val - (val % alignment)

(* An extent is a record with the fields at (first byte) and len. *)
Overlap(x, y) == /\ x.len > 0 /\ y.len > 0
                 /\ x.at < y.at + y.len
                 /\ y.at < x.at + x.len

=============================================================================
