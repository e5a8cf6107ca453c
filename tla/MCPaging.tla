------------------------------ MODULE MCPaging -------------------------------
(* Eight sections of seven pages: the kernel's tables fill the upper half, and
   the last of them is replaced by the table of the devices. *)
EXTENDS Paging

MCDevices == <<100, 101, 102, 103, 104, 105>>
=============================================================================
