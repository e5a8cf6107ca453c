----------------------------- MODULE MCBoardInit -----------------------------
(* One board for each amount of memory, one with an old style code, and one
   whose code says an amount nobody knows. *)
EXTENDS BoardInit

(* 76 MB at the end of the first GB, or of all memory where that is less *)
Kept(blocks) == LET top == IF blocks > 1024 * MB THEN 1024 * MB ELSE blocks
                IN  [at |-> top - 76 * MB, len |-> 76 * MB]

B(code, blocks) == [revision |-> code, ram |-> blocks, vc |-> Kept(blocks)]

(* bit 23, memory, BCM2711, Raspberry Pi 4 *)
Code(config) == 2^23 + config * 2^20 + 3 * 2^12 + 17 * 2^4 + 1

MCBoards == {B(Code(c), 256 * MB * 2^c) : c \in 0 .. 5}
            \cup {B(15, 512 * MB), B(Code(7), 16384 * MB)}

(* all input, all output, all FN3 *)
MCFsel == {0, 153391689, 2^30 - 1}

(* no pull resistor, all pulled up *)
MCPull == {0, 1431655765}
=============================================================================
